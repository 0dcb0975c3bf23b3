----------------------------- MODULE MCRegistry -----------------------------
(***************************************************************************)
(* Small instances of Registry for TLC.                                    *)
(***************************************************************************)
EXTENDS Registry, TLC

CONSTANTS root, child, unknown, r1

\* A service and its child.
Family == (root :> NoParent @@ child :> root)
JustFamily == {Family}
AllServices == {root, child, unknown}
OneRotate == {r1}
=============================================================================
