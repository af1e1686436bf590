\* Two profiles, rate limits, malformed replies, tools that raise or do not exist.
SPECIFICATION FairSpec
CONSTANTS
    Kinds = {"plain", "tools"}
    Chain = 2
    MayBeUnset = {1}
    Timeout = 5
    Reserve = 2
    Slack = 1
    Waits = {1, 3}
    MaxThrottled = 2
    Methods = 2
    MaxRounds = 2
    MaxTotalCalls = 3
    MaxRepeats = 2
    s1 = s1
    s2 = s2
    s3 = s3
    Signatures = {s1, s2, s3}
    Unknown = {s3}
    MaxCalls = 2
    ToolTime = 1
INVARIANTS
    KeysBeforeSleep
    CallsBounded
    ToolBudget
    OverrunBounded
PROPERTIES
    EveryPassCounts
    AgentReturns
CHECK_DEADLOCK FALSE
