------------------------------ MODULE MCLocky ------------------------------
(***************************************************************************)
(* Small instances of Locky for TLC.                                       *)
(***************************************************************************)
EXTENDS Locky, TLC

CONSTANTS a, b, c, d, r1, r2, r3

TwoServices == {a, b}
FourServices == {a, b, c, d}

\* a and b block each other.
MutualPair == (a :> {b} @@ b :> {a})

\* a blocks both b and c, which block nobody; d is not registered.
TwoBlockees == (a :> {b, c} @@ b :> {} @@ c :> {})

TwoRequests == {r1, r2}
ThreeRequests == {r1, r2, r3}

\* Locks that stay until they are deleted, on one blocker or on both.
LastingBodies == [services : {{a}, {a, b}}, expiration : {Never}]

\* A lock on the blocker, one on a blockee and one that overlaps both, one of
\* them short.
FewBodies == { [services |-> {a}, expiration |-> 1], [services |-> {b}, expiration |-> Never],
               [services |-> {a, b}, expiration |-> Never] }

RequestSymmetry == Permutations(Requests)
=============================================================================
