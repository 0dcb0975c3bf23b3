----------------------------- MODULE MCActiony -----------------------------
(***************************************************************************)
(* Small instances of Actiony for TLC.                                     *)
(***************************************************************************)
EXTENDS Actiony, TLC

CONSTANTS one, replaced, many, unknown, r1, r2, r3

AllServices == {one, replaced, many, unknown}
AllParallelisms == (one :> "single" @@ replaced :> "replaceable" @@ many :> "multiple")

JustReplaceable == {replaced}
Replaceable == (replaced :> "replaceable")

ThreeRequests == {r1, r2, r3}

\* The status with which the documented flow ends an action.
Completing == {"completed"}
=============================================================================
