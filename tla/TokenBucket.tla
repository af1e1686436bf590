---------------------------- MODULE TokenBucket ----------------------------
(***************************************************************************)
(* The arithmetic of one bucket row of gateway/buckets.py, as operators.   *)
(* A row is [tokens, last]; a bucket is [capacity, rate], the burst size   *)
(* and what is refilled per unit of time.  Tokens are integers here: the   *)
(* unit of time is chosen so that a refill is a whole number of them.      *)
(*                                                                         *)
(* A key without a row behaves as a full row: a full row refills to its    *)
(* capacity, and a refund leaves it there (take, 137-138; refund, 191).    *)
(***************************************************************************)
EXTENDS Integers

Least(a, b) == IF a =< b THEN a ELSE b

Full(bucket) == [tokens |-> bucket.capacity, last |-> 0]

\* The clock may be behind the row: such an interval counts as nothing.
Elapsed(row, now) == IF now > row.last THEN now - row.last ELSE 0

\* Mutant: the refill forgets the cap.
RefilledMutant(row, now, bucket) == row.tokens + Elapsed(row, now) * bucket.rate

\* What the row holds at time now; nothing is written (also peek).
Refilled(row, now, bucket) ==
    Least(bucket.capacity, row.tokens + Elapsed(row, now) * bucket.rate)

Fits(row, now, bucket, cost) == Refilled(row, now, bucket) >= cost

\* A refusal deducts nothing, but the refill is written back either way.
Taken(row, now, bucket, cost) ==
    [tokens |-> Refilled(row, now, bucket)
                  - (IF Fits(row, now, bucket, cost) THEN cost ELSE 0),
     last   |-> now]

\* Mutant: the tokens are returned, the interval since last is credited again.
RefundedMutant(row, now, bucket, cost) ==
    [tokens |-> Least(bucket.capacity,
                      row.tokens + Elapsed(row, now) * bucket.rate + cost),
     last   |-> row.last]

Refunded(row, now, bucket, cost) ==
    [tokens |-> Least(bucket.capacity,
                      row.tokens + Elapsed(row, now) * bucket.rate + cost),
     last   |-> now]
=============================================================================
