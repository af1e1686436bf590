----------------------------- MODULE MCGateway -----------------------------
(* Small instances of Gateway for TLC. *)
EXTENDS Gateway, TLC

CONSTANTS c1, c2, r1, r2, r3

\* Two plans for everybody; one caller may ask for one plan and one chat in a
\* burst, the other for one plan.
SmallCapacity == (Global :> 4) @@ (c1 :> 3) @@ (c2 :> 2)

\* Less for everybody than the callers could spend between them.
TightCapacity == (Global :> 3) @@ (c1 :> 3) @@ (c2 :> 2)

SmallRate == [k \in Keys |-> 1]
SmallLimit == (c1 :> 1) @@ (c2 :> 2)

RequestSymmetry == Permutations(Requests)
=============================================================================
