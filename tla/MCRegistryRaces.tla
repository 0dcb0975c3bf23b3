-------------------------- MODULE MCRegistryRaces --------------------------
(***************************************************************************)
(* Small instances of RegistryRaces for TLC.                               *)
(***************************************************************************)
EXTENDS RegistryRaces, TLC

CONSTANTS root, child, leaf, new, newer, r1, r2, c1

AllServices == {root, child, leaf, new, newer}
Family == (root :> NoParent @@ child :> root)
Line == Family @@ (leaf :> child)
SomeTrees == {Family, Line}
TwoRotates == {r1, r2}

\* The run is of a child of single parallelism.
OneRun == {c1}
ChildRuns == [c \in Runs |-> child]
Single == (root :> "multiple" @@ child :> "single" @@ leaf :> "multiple")
Reservers == Reservations

\* Services are added at every depth, one below the other, or in place of the
\* child and its descendants; the whole tree is deleted.
SomeSeeds ==
    { [deletions |-> {}, creations |-> {<<new, root>>}],
      [deletions |-> {}, creations |-> {<<new, child>>, <<newer, new>>}],
      [deletions |-> {child}, creations |-> {<<new, root>>}],
      [deletions |-> {root}, creations |-> {<<new, NoParent>>, <<newer, child>>}] }

SomeScenarios ==
    { [tree |-> Family, rotates |-> {r1, r2}, seeds |-> {}, runs |-> {}],
      [tree |-> Line, rotates |-> {r1}, seeds |-> SomeSeeds, runs |-> {}],
      [tree |-> Family, rotates |-> {r1}, seeds |-> {[deletions |-> {}, creations |-> {<<new, root>>}]}, runs |-> OneRun] }
=============================================================================
