---------------------------- MODULE MCArstotzka ----------------------------
(***************************************************************************)
(* Small instances of Arstotzka for TLC.                                   *)
(***************************************************************************)
EXTENDS Arstotzka, TLC

CONSTANTS s1, s2, over, under, i1, i2

TwoServices == {s1, s2}
Mutual == (s1 :> {s2} @@ s2 :> {s1})
OneWay == (s1 :> {s2} @@ s2 :> {})
BothMultiple == (s1 :> "multiple" @@ s2 :> "multiple")

\* s1 and s2 block each other, over blocks under.
FourServices == {s1, s2, over, under}
Both == Mutual @@ (over :> {under} @@ under :> {})
Mixed == BothMultiple @@ (over :> "single" @@ under :> "single")

TwoClients == {i1, i2}

\* The flow of a service: reserve, create an action, remove the lock or close.
Flow == <<{"reserveAccess"}, {"createAction"}, {"removeLock", "updateAction"}>>
TwoRuns ==
    [ serviceOf |-> (i1 :> s1 @@ i2 :> s2), retries |-> 0, overlap |-> 1,
      program |-> (i1 :> Flow @@ i2 :> Flow) ]
JustRuns == {TwoRuns}

Alone(s, retries, overlap, program) ==
    [ serviceOf |-> (i1 :> s @@ i2 :> s), retries |-> retries, overlap |-> overlap,
      program |-> (i1 :> program @@ i2 :> <<>>) ]

\* One instance: reservations and removals in any order, two at once; a
\* reservation and two removals sent again; actions and their closing.
LockMethods == {"reserveAccess", "removeLock"}
ActionMethods == {"createAction", "updateAction"}
ClientScenarios ==
    { TwoRuns,
      Alone(over, 0, 2, <<{"reserveAccess"}, LockMethods, LockMethods>>),
      Alone(over, 1, 1, <<{"reserveAccess"}, {"removeLock"}, {"removeLock"}>>),
      Alone(under, 0, 1, <<{"reserveAccess"}, ActionMethods>>),
      Alone(under, 0, 2, <<{"createAction"}, ActionMethods, ActionMethods>>),
      Alone(under, 1, 1, <<{"createAction"}, {"updateAction"}, ActionMethods>>) }
=============================================================================
