--------------------------- MODULE ActionyProofs ---------------------------
(***************************************************************************)
(* Theorems about Actiony, for every set of services and requests, every   *)
(* registry and every number of requests in flight.                        *)
(***************************************************************************)
EXTENDS Actiony, FiniteSetTheorems, WellFoundedInduction, TLAPS

-----------------------------------------------------------------------------
\* Types.  A write builds on a row read before, so the types hold only together
\* with the fact that this row is still there.

LocalsOK ==
    /\ call \in [Requests -> CreateCall \cup UpdateCall \cup {NoCall}]
    /\ pc \in [Requests -> Waiting \cup {"idle", "done", "dropped"}]
    /\ target \in [Requests -> Requests]
    /\ read \in [Requests -> SUBSET Requests]
    /\ begun \in [Requests -> Nat]
    /\ answer \in [Requests -> {0, 200, 201, 404, 409, 500}]
    /\ before \in [Requests -> SUBSET Requests]
    /\ seen \in [Requests -> SUBSET Requests]

TableOK ==
    /\ actions \in [Requests -> Action \cup {NoAction}] /\ clock \in Nat
    /\ writers \in [Requests -> SUBSET Requests]

\* A handler overwrites a row it has read, and rows are never deleted.
TargetsExist ==
    \A r \in Requests :
        /\ pc[r] \notin {"commit", "update", "done", "dropped"} => target[r] = r
        /\ pc[r] = "commit" /\ target[r] # r => target[r] \in Rows
        /\ pc[r] = "update" => target[r] \in Rows

\* The kind of the call and the program counter of its handler agree.
KindsAgree ==
    \A r \in Requests :
        /\ pc[r] \in {"fetch", "count", "insert", "begin", "select", "commit"} =>
             call[r] \in CreateCall
        /\ pc[r] \in {"find", "update"} => call[r] \in UpdateCall
        /\ pc[r] = "idle" => call[r] = NoCall

\* No row is newer than the clock, and no transaction began after it.
TimesPassed ==
    /\ \A a \in Rows : actions[a].createdAt <= clock
    /\ \A r \in Requests : begun[r] <= clock

TInv == TypeOK /\ TargetsExist /\ KindsAgree /\ TimesPassed

\* A new row and an overwritten row are rows.
LEMMA RowTypes ==
    /\ \A r \in Requests : call[r] \in CreateCall =>
         \A n \in Nat : NewAction(r, n) \in Action
    /\ \A row \in Action, st \in Statuses \cup {Unset}, m \in SUBSET Requests :
         Updated(row, st, m) \in Action
<1>1. ASSUME NEW r \in Requests, call[r] \in CreateCall, NEW n \in Nat PROVE NewAction(r, n) \in Action
  BY <1>1 DEF NewAction, Action, CreateCall, Statuses
<1>2. ASSUME NEW row \in Action, NEW st \in Statuses \cup {Unset}, NEW m \in SUBSET Requests
      PROVE  Updated(row, st, m) \in Action
  <2>1. (row.closedAt \/ st \in ClosedStatuses) \in BOOLEAN
    OBVIOUS
  <2>2. /\ row.serviceId \in Services /\ row.createdAt \in Nat
        /\ (IF st = Unset THEN row.status ELSE st) \in Statuses
    BY <1>2 DEF Action
  <2> QED
    BY <2>1, <2>2 DEF Updated, Action
<1> QED
  BY <1>1, <1>2

\* Moving on, answering and passing the count keep the types of the locals.
LEMMA HelperTypes ==
    ASSUME LocalsOK, NEW r \in Requests
    PROVE  /\ \A p \in Waiting \cup {"dropped"} : Goto(r, p) => LocalsOK'
           /\ \A code \in {200, 201, 404, 409, 500} : Answer(r, code) => LocalsOK'
           /\ \A p \in Waiting : PassCount(r, p) => LocalsOK'
<1>1. Rows \in SUBSET Requests
  BY DEF Rows
<1> QED
  BY <1>1 DEF LocalsOK, Goto, Answer, PassCount

\* What a write leaves in the table, for the rows it touches.
Inserts(r, n) ==
    /\ call[r] \in CreateCall
    /\ actions' = [actions EXCEPT ![r] = NewAction(r, n)]
    /\ UNCHANGED writers

Overwrites(r) ==
    /\ pc[r] = "update" /\ call[r] \in UpdateCall /\ target[r] \in Rows
    /\ actions' = [actions EXCEPT
            ![target[r]] = Updated(@, call[r].status, read[r] \cup call[r].metadata)]
    /\ writers' = Written(r)

ReplacesRow(r) ==
    /\ pc[r] = "commit" /\ call[r] \in CreateCall
    /\ \/ /\ target[r] = r
          /\ actions' = [actions EXCEPT ![r] = NewAction(r, begun[r])]
          /\ UNCHANGED writers
       \/ /\ target[r] # r /\ target[r] \in Rows
          /\ actions' = [[actions EXCEPT
                  ![target[r]] = Updated(@, "canceled", read[r] \cup {r})]
                    EXCEPT ![r] = NewAction(r, begun[r])]
          /\ writers' = Written(r)

TableEffect(r) ==
    \/ UNCHANGED <<actions, writers>> /\ clock' \in {clock, clock + 1}
    \/ pc[r] = "insert" /\ Inserts(r, clock) /\ clock' = clock + 1
    \/ ReplacesRow(r) /\ UNCHANGED clock
    \/ Overwrites(r) /\ UNCHANGED clock

\* The writes of the handlers have these effects,
LEMMA WriteEffects ==
    ASSUME TInv, NEW r \in Requests
    PROVE  /\ At(r, "create", "insert") /\ Insert(r) => TableEffect(r)
           /\ At(r, "create", "commit") /\ Replace(r) => TableEffect(r)
           /\ At(r, "update", "update") /\ Update(r) => TableEffect(r)
           /\ NoWrite => TableEffect(r)
<1>1. At(r, "create", "insert") /\ Insert(r) => TableEffect(r)
  BY DEF At, Insert, TableEffect, Inserts, TInv, KindsAgree
<1>2. At(r, "create", "commit") /\ Replace(r) => TableEffect(r)
  BY DEF At, Replace, Overwritten, TableEffect, ReplacesRow, TInv, KindsAgree, TargetsExist
<1>3. At(r, "update", "update") /\ Update(r) => TableEffect(r)
  BY DEF At, Update, Overwritten, TableEffect, Overwrites, TInv, KindsAgree, TargetsExist
<1>4. NoWrite => TableEffect(r)
  BY DEF NoWrite, TableEffect
<1> QED
  BY <1>1, <1>2, <1>3, <1>4

\* and keep the types of the table.
LEMMA TableTypes ==
    ASSUME TInv, NEW r \in Requests, TableEffect(r)
    PROVE  TableOK' /\ Rows \subseteq Rows'
<1>0. /\ actions \in [Requests -> Action \cup {NoAction}] /\ clock \in Nat
      /\ begun[r] \in Nat /\ target[r] \in Requests /\ read[r] \in SUBSET Requests
      /\ NoAction \notin Action /\ writers \in [Requests -> SUBSET Requests]
      /\ Written(r) \in [Requests -> SUBSET Requests]
  BY ActionyAssumptions DEF TInv, TypeOK, Written
<1>1. ASSUME NEW n \in Nat, Inserts(r, n), clock' \in Nat PROVE TableOK' /\ Rows \subseteq Rows'
  <2>1. NewAction(r, n) \in Action
    BY <1>1, RowTypes DEF Inserts
  <2> QED
    BY <1>0, <1>1, <2>1 DEF Inserts, TableOK, Rows
<1>2. ASSUME NEW st \in Statuses \cup {Unset}, NEW m \in SUBSET Requests, target[r] \in Rows
      PROVE  Updated(actions[target[r]], st, m) \in Action
  BY <1>0, <1>2, RowTypes DEF Rows
<1>3. CASE UNCHANGED <<actions, writers>> /\ clock' \in {clock, clock + 1}
  BY <1>0, <1>3 DEF TableOK, Rows
<1>4. CASE ReplacesRow(r) /\ UNCHANGED clock
  <2>1. NewAction(r, begun[r]) \in Action
    BY <1>0, <1>4, RowTypes DEF ReplacesRow
  <2>2. target[r] \in Rows => Updated(actions[target[r]], "canceled", read[r] \cup {r}) \in Action
    BY <1>0, <1>2 DEF Statuses, ClosedStatuses
  <2> QED
    BY <1>0, <1>4, <2>1, <2>2 DEF ReplacesRow, TableOK, Rows
<1>5. CASE Overwrites(r) /\ UNCHANGED clock
  <2>1. call[r].status \in Statuses \cup {Unset} /\ call[r].metadata \in SUBSET Requests
    BY <1>5 DEF Overwrites, UpdateCall
  <2>2. Updated(actions[target[r]], call[r].status, read[r] \cup call[r].metadata) \in Action
    BY <1>0, <1>2, <1>5, <2>1 DEF Overwrites
  <2> QED
    BY <1>0, <1>5, <2>2 DEF Overwrites, TableOK, Rows
<1> QED
  BY <1>0, <1>1, <1>3, <1>4, <1>5 DEF TableEffect

\* A handler ends, answered or dropped, perhaps after a write; or it goes on to
\* the next awaited call without writing.
Ends(r) ==
    /\ \E p \in {"done", "dropped"} : pc' = [pc EXCEPT ![r] = p]
    /\ answer' \in [Requests -> {0, 200, 201, 404, 409, 500}]
    /\ TableEffect(r)
    /\ UNCHANGED <<call, target, read, begun, before, seen>>

Fetched(r) ==
    /\ pc[r] = "fetch" /\ call[r].serviceId \in DOMAIN Parallelism
    /\ \/ Parallelism[call[r].serviceId] = "multiple" /\ Goto(r, "insert")
       \/ Parallelism[call[r].serviceId] # "multiple" /\ Goto(r, "count")
    /\ NoWrite

Counted(r) ==
    /\ pc[r] = "count" /\ ~ ExceedsLimitation(call[r].serviceId)
    /\ PassCount(r, IF Parallelism[call[r].serviceId] = "single" THEN "insert" ELSE "begin")
    /\ NoWrite

SelectedNone(r) ==
    /\ pc[r] = "select" /\ ActiveOf(call[r].serviceId) = {}
    /\ Goto(r, "commit")
    /\ NoWrite

ReadsRow(r, p, a) ==
    /\ a \in Rows
    /\ ReadRow(r, a, p)
    /\ NoWrite

SelectedLatest(r) ==
    LET found == ActiveOf(call[r].serviceId) IN
    /\ pc[r] = "select" /\ found # {}
    /\ ReadsRow(r, "commit", Latest(found))

Found(r) == pc[r] = "find" /\ \E a \in Rows : ReadsRow(r, "update", a)

Shape(r) ==
    \/ Ends(r) /\ pc[r] \in Waiting
    \/ Fetched(r) \/ Counted(r) \/ ReplaceBegin(r)
    \/ SelectedNone(r) \/ SelectedLatest(r) \/ Found(r)

\* A nonempty set of naturals has a least element.
LEMMA LeastElement ==
    ASSUME NEW T \in SUBSET Nat, T # {}
    PROVE  \E n \in T : \A m \in T : n <= m
<1>1. PICK n \in T : \A m \in T : ~ (<<m, n>> \in OpToRel(<, Nat))
  BY NatLessThanWellFounded, WFMin
<1>2. \A m \in T : ~ (m < n)
  BY <1>1 DEF OpToRel
<1> QED
  BY <1>2

\* The latest of some active rows is one of them, and none is later.
LEMMA LatestIsOne ==
    ASSUME actions \in [Requests -> Action \cup {NoAction}], clock \in Nat,
           \A a \in Rows : actions[a].createdAt <= clock,
           NEW S \in SUBSET Rows, S # {}
    PROVE  Latest(S) \in S
<1>0. \A a \in S : actions[a].createdAt \in Nat
  BY DEF Rows, Action
<1> DEFINE Ages == {clock - actions[a].createdAt : a \in S}
<1>1. Ages \in SUBSET Nat /\ Ages # {}
  BY <1>0
<1>2. PICK n \in Ages : \A m \in Ages : n <= m
  BY <1>1, LeastElement
<1>3. PICK a \in S : n = clock - actions[a].createdAt
  OBVIOUS
<1>4. \A b \in S : actions[b].createdAt <= actions[a].createdAt
  <2> SUFFICES ASSUME NEW b \in S PROVE actions[b].createdAt <= actions[a].createdAt
    OBVIOUS
  <2>1. clock - actions[b].createdAt \in Ages
    OBVIOUS
  <2>2. clock - actions[a].createdAt <= clock - actions[b].createdAt
    BY <1>2, <1>3, <2>1
  <2> QED
    BY <1>0, <2>2
<1> QED
  BY <1>4 DEF Latest

\* Every step of a handler, and its crash, has one of these shapes.
LEMMA StepShape ==
    ASSUME TInv, NEW r \in Requests, Step(r) \/ Crash(r)
    PROVE  Shape(r)
<1> USE WriteEffects DEF Shape, At, Waiting
<1>0. answer \in [Requests -> {0, 200, 201, 404, 409, 500}]
  BY DEF TInv, TypeOK
<1>1. ASSUME NEW code \in {200, 201, 404, 409, 500}, Answer(r, code), TableEffect(r),
             pc[r] \in Waiting
      PROVE  Shape(r)
  BY <1>0, <1>1 DEF Ends, Answer
<1>2. CASE CreateFetch(r)
  BY <1>1, <1>2 DEF CreateFetch, Fetched
<1>3. CASE CreateCount(r)
  BY <1>1, <1>3 DEF CreateCount, Counted
<1>4. CASE CreateInsert(r)
  BY <1>1, <1>4 DEF CreateInsert
<1>5. CASE ReplaceBegin(r)
  BY <1>5
<1>6. CASE ReplaceSelect(r)
  <2>1. CASE ActiveOf(call[r].serviceId) = {}
    BY <1>6, <2>1 DEF ReplaceSelect, SelectedNone
  <2>2. CASE ActiveOf(call[r].serviceId) # {} /\ Latest(ActiveOf(call[r].serviceId)) \in Rows
    BY <1>6, <2>2 DEF ReplaceSelect, SelectedLatest, ReadsRow, ReadRow, NoWrite
  <2>3. ActiveOf(call[r].serviceId) # {} =>
          Latest(ActiveOf(call[r].serviceId)) \in ActiveOf(call[r].serviceId)
    BY LatestIsOne DEF TInv, TypeOK, TimesPassed, ActiveOf
  <2> QED
    BY <2>1, <2>2, <2>3 DEF ActiveOf
<1>7. CASE ReplaceCommit(r)
  BY <1>1, <1>7 DEF ReplaceCommit
<1>8. CASE UpdateFind(r)
  <2>1. call[r].actionId \in Requests
    BY <1>8 DEF UpdateFind, TInv, KindsAgree, UpdateCall
  <2> QED
    BY <1>1, <1>8, <2>1 DEF UpdateFind, Found, ReadsRow, ReadRow, NoWrite, Rows
<1>9. CASE UpdateWrite(r)
  BY <1>1, <1>9 DEF UpdateWrite
<1>10. CASE ReadRejects(r)
  BY <1>1, <1>10 DEF ReadRejects
<1>11. CASE WriteRejects(r)
  BY <1>1, <1>11 DEF WriteRejects
<1>12. CASE Crash(r)
  BY <1>0, <1>12 DEF Crash, Ends, Goto
<1> QED
  BY <1>2, <1>3, <1>4, <1>5, <1>6, <1>7, <1>8, <1>9, <1>10, <1>11, <1>12 DEF Step

\* A row keeps its service and its time; a new one is not newer than the clock.
LEMMA RowEffects ==
    ASSUME TInv, NEW r \in Requests, TableEffect(r)
    PROVE  /\ clock' \in Nat /\ clock <= clock'
           /\ \A a \in Rows' :
                \/ /\ a \in Rows /\ actions'[a].serviceId = actions[a].serviceId
                   /\ actions'[a].createdAt = actions[a].createdAt
                \/ /\ a = r /\ pc[r] \in {"insert", "commit"} /\ call[r] \in CreateCall
                   /\ \E n \in Nat : n <= clock /\ actions'[a] = NewAction(r, n)
<1>0. /\ actions \in [Requests -> Action \cup {NoAction}] /\ clock \in Nat
      /\ target[r] \in Requests /\ begun[r] \in Nat /\ begun[r] <= clock
  BY DEF TInv, TypeOK, TimesPassed
<1>1. CASE UNCHANGED <<actions, writers>> /\ clock' \in {clock, clock + 1}
  BY <1>0, <1>1 DEF Rows
<1>2. CASE pc[r] = "insert" /\ Inserts(r, clock) /\ clock' = clock + 1
  BY <1>0, <1>2 DEF Inserts, Rows
<1>3. CASE ReplacesRow(r) /\ UNCHANGED clock
  <2>1. \A a \in Requests \ {r} : a # target[r] => actions'[a] = actions[a]
    BY <1>0, <1>3 DEF ReplacesRow
  <2>2. actions'[r] = NewAction(r, begun[r])
    BY <1>0, <1>3 DEF ReplacesRow
  <2>3. target[r] # r =>
          /\ target[r] \in Rows
          /\ actions'[target[r]] = Updated(actions[target[r]], "canceled", read[r] \cup {r})
    BY <1>0, <1>3 DEF ReplacesRow
  <2> QED
    BY <1>0, <1>3, <2>1, <2>2, <2>3 DEF ReplacesRow, Updated, Rows
<1>4. CASE Overwrites(r) /\ UNCHANGED clock
  BY <1>0, <1>4 DEF Overwrites, Updated, Rows
<1> QED
  BY <1>1, <1>2, <1>3, <1>4 DEF TableEffect

\* Every step of a handler keeps the types and what goes with them,
LEMMA ShapeKeepsTInv ==
    ASSUME TInv, NEW r \in Requests, Shape(r)
    PROVE  TInv'
<1>0. /\ TableOK /\ LocalsOK /\ TargetsExist /\ KindsAgree /\ TimesPassed
      /\ pc \in [Requests -> Waiting \cup {"idle", "done", "dropped"}]
  BY DEF TInv, TypeOK, TableOK, LocalsOK
<1>1. ASSUME TableOK', LocalsOK', TargetsExist', KindsAgree', TimesPassed' PROVE TInv'
  BY <1>1 DEF TInv, TypeOK, TableOK, LocalsOK
<1>2. ASSUME NoWrite PROVE TableOK' /\ Rows' = Rows
  BY <1>0, <1>2 DEF NoWrite, TableOK, Rows
<1>3. CASE Ends(r)
  <2>1. LocalsOK'
    <3>1. pc' \in [Requests -> Waiting \cup {"idle", "done", "dropped"}]
      BY <1>0, <1>3 DEF Ends
    <3> QED
      BY <1>0, <1>3, <3>1 DEF Ends, LocalsOK
  <2>2. TableOK' /\ Rows \subseteq Rows'
    BY <1>3, TableTypes DEF Ends
  <2>3. TargetsExist' /\ KindsAgree'
    BY <1>0, <1>3, <2>2 DEF Ends, TargetsExist, KindsAgree
  <2>4. TimesPassed'
    <3>1. \A n \in Nat : NewAction(r, n).createdAt = n
      BY DEF NewAction
    <3>2. \A a \in Rows' : actions'[a].createdAt <= clock'
      BY <1>0, <1>3, <2>2, <3>1, RowEffects DEF Ends, TimesPassed, TableOK, Rows, Action
    <3>3. \A q \in Requests : begun'[q] <= clock'
      BY <1>0, <1>3, RowEffects DEF Ends, TimesPassed, TableOK, LocalsOK
    <3> QED
      BY <3>2, <3>3 DEF TimesPassed
  <2> QED
    BY <1>1, <2>1, <2>2, <2>3, <2>4
<1>4. CASE Fetched(r)
  <2>1. LocalsOK'
    BY <1>0, <1>4, HelperTypes DEF Fetched, Waiting
  <2>2. TargetsExist' /\ KindsAgree' /\ TimesPassed'
    BY <1>0, <1>2, <1>4 DEF Fetched, Goto, NoWrite, TargetsExist, KindsAgree, TimesPassed
  <2> QED
    BY <1>1, <1>2, <1>4, <2>1, <2>2 DEF Fetched
<1>5. CASE Counted(r)
  <2>1. LocalsOK'
    BY <1>0, <1>5, HelperTypes DEF Counted, Waiting
  <2>2. TargetsExist' /\ KindsAgree' /\ TimesPassed'
    BY <1>0, <1>2, <1>5 DEF Counted, PassCount, NoWrite, TargetsExist, KindsAgree, TimesPassed
  <2> QED
    BY <1>1, <1>2, <1>5, <2>1, <2>2 DEF Counted
<1>6. CASE ReplaceBegin(r)
  <2>1. /\ pc[r] = "begin" /\ pc' = [pc EXCEPT ![r] = "select"]
        /\ begun' = [begun EXCEPT ![r] = clock] /\ clock' = clock + 1 /\ clock \in Nat
        /\ UNCHANGED <<actions, writers, call, target, read, answer, before, seen>>
    BY <1>0, <1>6 DEF ReplaceBegin, At, TableOK
  <2>2. LocalsOK' /\ TableOK'
    BY <1>0, <2>1 DEF LocalsOK, TableOK, Waiting
  <2>3. TargetsExist' /\ KindsAgree'
    BY <1>0, <2>1 DEF TargetsExist, KindsAgree, Rows
  <2>4. TimesPassed'
    BY <1>0, <2>1 DEF TimesPassed, Rows, TableOK, LocalsOK, Action
  <2> QED
    BY <1>1, <2>2, <2>3, <2>4
<1>7. CASE SelectedNone(r)
  <2>1. LocalsOK'
    BY <1>0, <1>7, HelperTypes DEF SelectedNone, Waiting
  <2>2. TargetsExist' /\ KindsAgree' /\ TimesPassed'
    BY <1>0, <1>2, <1>7 DEF SelectedNone, Goto, NoWrite, TargetsExist, KindsAgree, TimesPassed
  <2> QED
    BY <1>1, <1>2, <1>7, <2>1, <2>2 DEF SelectedNone
<1>8. ASSUME NEW a \in Rows, NEW p \in {"commit", "update"}, ReadsRow(r, p, a),
             p = "commit" => pc[r] = "select", p = "update" => pc[r] = "find"
      PROVE  TInv'
  <2>1. /\ a \in Requests /\ actions[a].metadata \in SUBSET Requests
        /\ writers[a] \in SUBSET Requests
    BY <1>0 DEF Rows, TableOK, Action
  <2>2. LocalsOK'
    BY <1>0, <1>8, <2>1 DEF ReadsRow, ReadRow, LocalsOK, Waiting
  <2>3. TargetsExist'
    BY <1>0, <1>2, <1>8, <2>1 DEF ReadsRow, ReadRow, LocalsOK, TargetsExist
  <2>4. KindsAgree' /\ TimesPassed'
    BY <1>0, <1>2, <1>8 DEF ReadsRow, ReadRow, NoWrite, KindsAgree, TimesPassed
  <2> QED
    BY <1>1, <1>2, <1>8, <2>2, <2>3, <2>4 DEF ReadsRow, ReadRow
<1>9. CASE SelectedLatest(r)
  BY <1>8, <1>9 DEF SelectedLatest, ReadsRow, ReadRow
<1>10. CASE Found(r)
  BY <1>8, <1>10 DEF Found
<1> QED
  BY <1>3, <1>4, <1>5, <1>6, <1>7, <1>9, <1>10 DEF Shape

\* and so does the arrival of a request.
LEMMA ArriveKeepsTInv ==
    ASSUME TInv, NEW r \in Requests, Arrive(r)
    PROVE  TInv'
<1>0. TableOK /\ LocalsOK /\ TargetsExist /\ KindsAgree /\ TimesPassed
  BY DEF TInv, TypeOK, TableOK, LocalsOK
<1>1. ASSUME NEW p \in {"fetch", "find"}, NEW c, Receive(r, p, c),
             p = "fetch" => c \in CreateCall, p = "find" => c \in UpdateCall
      PROVE  TInv'
  <2>1. TableOK' /\ LocalsOK' /\ TargetsExist' /\ KindsAgree' /\ TimesPassed'
    BY <1>0, <1>1 DEF Receive, NoWrite, TableOK, LocalsOK, TargetsExist, KindsAgree,
       TimesPassed, Rows, Waiting
  <2> QED
    BY <2>1 DEF TInv, TypeOK, TableOK, LocalsOK
<1>2. ASSUME NEW s \in Services, NEW m \in SUBSET {r}, PostAction(r, s, m) PROVE TInv'
  <2>1. [kind |-> "create", serviceId |-> s, metadata |-> m] \in CreateCall
    BY DEF CreateCall
  <2> QED
    BY <1>1, <1>2, <2>1 DEF PostAction
<1>3. ASSUME NEW a \in Requests, NEW st \in BodyStatuses \cup {Unset}, NEW m \in SUBSET {r},
             PatchAction(r, a, st, m)
      PROVE  TInv'
  <2>1. st \in Statuses \cup {Unset}
    BY ActionyAssumptions
  <2>2. [kind |-> "update", actionId |-> a, status |-> st, metadata |-> m] \in UpdateCall
    BY <2>1 DEF UpdateCall
  <2> QED
    BY <1>1, <1>3, <2>2 DEF PatchAction
<1> QED
  BY <1>2, <1>3 DEF Arrive

\* The strengthened type invariant is inductive.
LEMMA TInvInductive ==
    /\ Init => TInv
    /\ TInv /\ [Next]_vars => TInv'
<1>1. Init => TInv
  BY DEF Init, TInv, TypeOK, TargetsExist, KindsAgree, TimesPassed, Rows
<1>2. TInv /\ UNCHANGED vars => TInv'
  BY DEF vars, locals, TInv, TypeOK, TargetsExist, KindsAgree, TimesPassed, Rows
<1> QED
  BY <1>1, <1>2, StepShape, ShapeKeepsTInv, ArriveKeepsTInv DEF Next

LEMMA TypesAndTargets == Spec => []TInv
  BY TInvInductive, PTL DEF Spec

\* The action table and the requests keep their types.
THEOREM TypeCorrect == Spec => []TypeOK
  BY TypesAndTargets, PTL DEF TInv

-----------------------------------------------------------------------------
\* What a row holds.

\* What a write makes of a row that is there afterwards.
LEMMA RowsAfter ==
    ASSUME TInv, NEW r \in Requests, TableEffect(r), NEW a \in Rows'
    PROVE  \/ a \in Rows /\ actions'[a] = actions[a]
           \/ /\ a = r /\ r \in Rows' /\ call[r] \in CreateCall
              /\ \E n \in Nat : actions'[a] = NewAction(r, n)
           \/ /\ a \in Rows /\ a = target[r] /\ pc[r] = "commit" /\ r \in Rows'
              /\ call[r] \in CreateCall
              /\ actions'[a] = Updated(actions[a], "canceled", read[r] \cup {r})
           \/ /\ a \in Rows /\ a = target[r] /\ pc[r] = "update" /\ call[r] \in UpdateCall
              /\ actions'[a] = Updated(actions[a], call[r].status, read[r] \cup call[r].metadata)
<1>0. /\ actions \in [Requests -> Action \cup {NoAction}] /\ clock \in Nat
      /\ target[r] \in Requests /\ begun[r] \in Nat /\ NoAction \notin Action
  BY ActionyAssumptions DEF TInv, TypeOK
<1>1. CASE UNCHANGED actions
  BY <1>1 DEF Rows
<1>2. CASE pc[r] = "insert" /\ Inserts(r, clock)
  BY <1>0, <1>2 DEF Inserts, Rows
<1>3. CASE ReplacesRow(r)
  <2>1. actions'[r] = NewAction(r, begun[r]) /\ NewAction(r, begun[r]) \in Action
    BY <1>0, <1>3, RowTypes DEF ReplacesRow
  <2>2. r \in Rows' /\ call[r] \in CreateCall
    BY <1>0, <1>3, <2>1 DEF Rows, ReplacesRow
  <2>3. CASE a = r
    BY <1>0, <2>1, <2>2, <2>3
  <2>4. CASE a # r /\ a = target[r]
    BY <1>0, <1>3, <2>2, <2>4 DEF ReplacesRow, Rows
  <2>5. CASE a # r /\ a # target[r]
    BY <1>0, <1>3, <2>5 DEF ReplacesRow, Rows
  <2> QED
    BY <2>3, <2>4, <2>5
<1>4. CASE Overwrites(r)
  BY <1>0, <1>4 DEF Overwrites, Rows
<1> QED
  BY <1>1, <1>2, <1>3, <1>4 DEF TableEffect

\* A step that writes nothing.
LEMMA ReadersWriteNothing ==
    ASSUME NEW r, Shape(r), ~ Ends(r)
    PROVE  UNCHANGED actions /\ Rows' = Rows
<1>1. UNCHANGED actions
  BY DEF Shape, Fetched, Counted, ReplaceBegin, SelectedNone, SelectedLatest, Found, ReadsRow,
     NoWrite
<1> QED
  BY <1>1 DEF Rows

\* Whichever writer closes an action, a replacement included, stamps it.
THEOREM ClosedActionsHaveTime == Spec => []ClosedHasTime
<1>1. Init => ClosedHasTime
  BY DEF Init, ClosedHasTime, Rows
<1>2. TInv /\ ClosedHasTime /\ [Next]_vars => ClosedHasTime'
  <2> SUFFICES ASSUME TInv, ClosedHasTime, [Next]_vars PROVE ClosedHasTime'
    OBVIOUS
  <2>1. CASE UNCHANGED actions
    BY <2>1 DEF ClosedHasTime, Rows
  <2>2. ASSUME NEW r \in Requests, TableEffect(r) PROVE ClosedHasTime'
    <3> SUFFICES ASSUME NEW a \in Rows', actions'[a].status \in ClosedStatuses
                 PROVE  actions'[a].closedAt
      BY DEF ClosedHasTime
    <3>1. ASSUME NEW n, actions'[a] = NewAction(r, n) PROVE FALSE
      BY <3>1 DEF NewAction, ClosedStatuses
    <3>2. ASSUME a \in Rows, NEW st, NEW m, actions'[a] = Updated(actions[a], st, m)
          PROVE  actions'[a].closedAt
      <4>1. actions[a].status \in ClosedStatuses => actions[a].closedAt
        BY <3>2 DEF ClosedHasTime
      <4>2. actions'[a].closedAt = (actions[a].closedAt \/ st \in ClosedStatuses)
        BY <3>2 DEF Updated
      <4>3. actions'[a].status = IF st = Unset THEN actions[a].status ELSE st
        BY <3>2 DEF Updated
      <4> QED
        BY <4>1, <4>2, <4>3
    <3>3. CASE a \in Rows /\ actions'[a] = actions[a]
      BY <3>3 DEF ClosedHasTime
    <3>4. \/ a \in Rows /\ actions'[a] = actions[a]
          \/ \E n \in Nat : actions'[a] = NewAction(r, n)
          \/ a \in Rows /\ actions'[a] = Updated(actions[a], "canceled", read[r] \cup {r})
          \/ /\ a \in Rows
             /\ actions'[a] = Updated(actions[a], call[r].status, read[r] \cup call[r].metadata)
      BY <2>2, RowsAfter
    <3> QED
      BY <3>1, <3>2, <3>3, <3>4
  <2>3. ASSUME NEW r \in Requests, Shape(r) PROVE ClosedHasTime'
    BY <2>1, <2>2, <2>3, ReadersWriteNothing DEF Ends
  <2>4. ASSUME NEW r \in Requests, Arrive(r) PROVE ClosedHasTime'
    BY <2>1, <2>4 DEF Arrive, PostAction, PatchAction, Receive, NoWrite
  <2> QED
    BY <2>1, <2>3, <2>4, StepShape DEF Next, vars
<1> QED
  BY <1>1, <1>2, TypesAndTargets, PTL DEF Spec

\* Metadata in a row, or read from one, belongs to requests that were made, and
\* what belongs to a create is there only with the row of the create.
Owned(q) == pc[q] # "idle" /\ (call[q] \in CreateCall => q \in Rows)

MetadataOwned ==
    /\ \A a \in Rows : \A q \in actions[a].metadata : Owned(q)
    /\ \A r \in Requests : \A q \in read[r] : Owned(q)
    /\ \A r \in Requests : call[r] \in CreateCall \cup UpdateCall => call[r].metadata \subseteq {r}

\* A step of a handler leaves what is owned owned,
LEMMA OwnedStays ==
    ASSUME TInv, NEW r \in Requests, Shape(r), NEW q \in Requests, Owned(q)
    PROVE  Owned(q)'
<1>1. call' = call /\ \E p \in Waiting \cup {"done", "dropped"} : pc' = [pc EXCEPT ![r] = p]
  BY DEF Shape, Ends, Fetched, Counted, ReplaceBegin, SelectedNone, SelectedLatest, Found,
     ReadsRow, ReadRow, Goto, PassCount, Waiting
<1>2. Rows \subseteq Rows'
  BY TableTypes, ReadersWriteNothing DEF Ends
<1> QED
  BY <1>1, <1>2 DEF Owned, Waiting, TInv, TypeOK

\* and stores only what is owned.
LEMMA ShapeKeepsMetadataOwned ==
    ASSUME TInv, MetadataOwned, NEW r \in Requests, Shape(r)
    PROVE  MetadataOwned'
<1>0. /\ actions \in [Requests -> Action \cup {NoAction}] /\ NoAction \notin Action
      /\ read \in [Requests -> SUBSET Requests] /\ call' = call
      /\ pc \in [Requests -> Waiting \cup {"idle", "done", "dropped"}]
  BY ActionyAssumptions DEF TInv, TypeOK, Shape, Ends, Fetched, Counted, ReplaceBegin, SelectedNone,
     SelectedLatest, Found, ReadsRow, ReadRow, Goto, PassCount
<1>1. ASSUME NEW a \in Rows', NEW q \in actions'[a].metadata PROVE Owned(q)'
  <2>1. CASE a \in Rows /\ actions'[a] = actions[a]
    <3>1. q \in Requests /\ Owned(q)
      BY <1>0, <1>1, <2>1 DEF MetadataOwned, Rows, Action
    <3> QED
      BY <3>1, OwnedStays
  <2>2. CASE ~ (a \in Rows /\ actions'[a] = actions[a])
    <3>1. Ends(r)
      BY <1>1, <2>2, ReadersWriteNothing
    <3>2. /\ call[r] \in CreateCall \cup UpdateCall
          /\ call[r] \in CreateCall => r \in Rows'
          /\ \/ \E n \in Nat : actions'[a] = NewAction(r, n)
             \/ actions'[a] = Updated(actions[a], "canceled", read[r] \cup {r})
             \/ actions'[a] = Updated(actions[a], call[r].status, read[r] \cup call[r].metadata)
      <4>1. call[r] \in UpdateCall => call[r] \notin CreateCall
        BY DEF UpdateCall, CreateCall
      <4>2. TableEffect(r) /\ a \in Rows'
        BY <1>1, <3>1 DEF Ends
      <4>3. \/ a \in Rows /\ actions'[a] = actions[a]
            \/ /\ a = r /\ call[r] \in CreateCall
               /\ \E n \in Nat : actions'[a] = NewAction(r, n)
            \/ /\ call[r] \in CreateCall /\ r \in Rows'
               /\ actions'[a] = Updated(actions[a], "canceled", read[r] \cup {r})
            \/ /\ call[r] \in UpdateCall
               /\ actions'[a] = Updated(actions[a], call[r].status, read[r] \cup call[r].metadata)
        BY <4>2, RowsAfter
      <4> QED
        BY <1>1, <2>2, <4>1, <4>3
    <3>3. \/ actions'[a].metadata = call[r].metadata
          \/ actions'[a].metadata = read[r] \cup {r}
          \/ actions'[a].metadata = read[r] \cup call[r].metadata
      <4>1. \A n \in Nat : NewAction(r, n).metadata = call[r].metadata
        BY DEF NewAction
      <4>2. \A st, m : Updated(actions[a], st, m).metadata = m
        BY DEF Updated
      <4> QED
        BY <3>2, <4>1, <4>2
    <3>4. q \in read[r] \/ q = r
      BY <1>1, <3>2, <3>3 DEF MetadataOwned
    <3>5. CASE q \in read[r]
      BY <1>0, <3>5, OwnedStays DEF MetadataOwned
    <3>6. Owned(r)'
      BY <1>0, <3>1, <3>2 DEF Ends, Owned
    <3> QED
      BY <3>4, <3>5, <3>6
  <2> QED
    BY <2>1, <2>2
<1>2. ASSUME NEW p \in Requests, NEW q \in read'[p] PROVE Owned(q)'
  <2>1. CASE q \in read[p]
    BY <1>0, <2>1, OwnedStays DEF MetadataOwned
  <2>2. CASE q \notin read[p]
    <3>1. PICK a \in Rows : read' = [read EXCEPT ![r] = actions[a].metadata]
      BY <1>2, <2>2 DEF Shape, Ends, Fetched, Counted, ReplaceBegin, SelectedNone,
         SelectedLatest, Found, ReadsRow, ReadRow, Goto, PassCount
    <3>2. q \in actions[a].metadata
      BY <1>0, <1>2, <2>2, <3>1
    <3>3. q \in Requests
      BY <1>0, <3>2 DEF Rows, Action
    <3> QED
      BY <3>2, <3>3, OwnedStays DEF MetadataOwned
  <2> QED
    BY <2>1, <2>2
<1> QED
  BY <1>0, <1>1, <1>2 DEF MetadataOwned

\* A request that arrives owns nothing yet, and nothing stored is its own.
LEMMA ArriveKeepsMetadataOwned ==
    ASSUME TInv, MetadataOwned, NEW r \in Requests, Arrive(r)
    PROVE  MetadataOwned'
<1>1. PICK p \in {"fetch", "find"}, c \in CreateCall \cup UpdateCall :
        Receive(r, p, c) /\ c.metadata \subseteq {r}
  <2>1. ASSUME NEW s \in Services, NEW m \in SUBSET {r}, PostAction(r, s, m)
        PROVE  \E c \in CreateCall : Receive(r, "fetch", c) /\ c.metadata = m
    BY <2>1 DEF PostAction, CreateCall
  <2>2. ASSUME NEW a \in Requests, NEW st \in BodyStatuses \cup {Unset}, NEW m \in SUBSET {r},
               PatchAction(r, a, st, m)
        PROVE  \E c \in UpdateCall : Receive(r, "find", c) /\ c.metadata = m
    BY <2>2, ActionyAssumptions DEF PatchAction, UpdateCall
  <2> QED
    BY <2>1, <2>2 DEF Arrive
<1>2. \A q \in Requests : Owned(q) => Owned(q)'
  BY <1>1 DEF Receive, NoWrite, Owned, Rows, TInv, TypeOK
<1>3. \A a \in Rows : actions[a].metadata \subseteq Requests
  BY DEF TInv, TypeOK, Rows, Action
<1>4. UNCHANGED <<actions, read>> /\ Rows' = Rows
  BY <1>1 DEF Receive, NoWrite, Rows
<1>5. \A a \in Rows' : \A q \in actions'[a].metadata : Owned(q)'
  BY <1>2, <1>3, <1>4 DEF MetadataOwned
<1>6. \A k \in Requests : \A q \in read'[k] : Owned(q)'
  BY <1>2, <1>4 DEF MetadataOwned, TInv, TypeOK
<1>7. \A k \in Requests : call'[k] \in CreateCall \cup UpdateCall => call'[k].metadata \subseteq {k}
  BY <1>1 DEF Receive, MetadataOwned, TInv, TypeOK
<1> QED
  BY <1>5, <1>6, <1>7 DEF MetadataOwned

\* An action is canceled by the parallelism rules only together with the
\* insertion of the action that replaces it.
THEOREM ReplacedTogether == Spec => []CanceledForAReplacement
<1>1. Init => MetadataOwned
  BY DEF Init, MetadataOwned, Rows, NoCall, CreateCall, UpdateCall
<1>2. TInv /\ MetadataOwned /\ [Next]_vars => MetadataOwned'
  <2>1. MetadataOwned /\ UNCHANGED vars => MetadataOwned'
    BY DEF MetadataOwned, Owned, Rows, vars, locals
  <2> QED
    BY <2>1, StepShape, ShapeKeepsMetadataOwned, ArriveKeepsMetadataOwned DEF Next
<1>3. TInv /\ MetadataOwned => CanceledForAReplacement
  <2> SUFFICES ASSUME TInv, MetadataOwned, NEW a \in Rows, NEW q \in actions[a].metadata,
                      call[q].kind = "create"
               PROVE  actions[q] # NoAction
    BY DEF CanceledForAReplacement
  <2>1. q \in Requests
    BY DEF TInv, TypeOK, Rows, Action
  <2>2. call[q] \in CreateCall
    BY <2>1 DEF TInv, TypeOK, UpdateCall, NoCall
  <2> QED
    BY <2>2 DEF MetadataOwned, Owned, Rows
<1> QED
  BY <1>1, <1>2, <1>3, TypesAndTargets, PTL DEF Spec

-----------------------------------------------------------------------------
(***************************************************************************)
(* What a request has written in a row is lost only by crossing.  A writer *)
(* that had read the row after that write carries its metadata on, and     *)
(* has not read it closed; a writer that read the row before is one the    *)
(* request has not seen either: the two crossed.  So nothing is lost       *)
(* without a crossing, however many requests are in flight.                *)
(***************************************************************************)
\* The handler of r is about to overwrite the row it has read.
Overwriting(r) == pc[r] = "update" \/ (pc[r] = "commit" /\ target[r] # r)

Contested(u) == \E w \in Requests : Crossed(u, w)

Stores(u, metadata) == call[u].kind = "update" => call[u].metadata \subseteq metadata

\* The row of a create appears when its handler ends, with the service asked for.
RowsOfCreates ==
    \A d \in Rows : /\ pc[d] \in {"done", "dropped"} /\ call[d] \in CreateCall
                    /\ actions[d].serviceId = call[d].serviceId

\* Writers are handlers that ended, and what a request has seen was written there.
WritersEnded ==
    /\ \A a \in Requests : \A u \in writers[a] :
         a \in Rows /\ target[u] = a /\ pc[u] \in {"done", "dropped"}
    /\ \A r \in Requests : seen[r] \subseteq writers[target[r]]

\* The metadata of a create is in its row and in whatever is read from it.
CreatedWith ==
    /\ \A a \in Rows : call[a].metadata \subseteq actions[a].metadata
    /\ \A r \in Requests : Overwriting(r) => call[target[r]].metadata \subseteq read[r]

\* An uncontested write is still in its row, and in what later readers carry on.
WritesLast ==
    \A a \in Requests : \A u \in writers[a] :
        \/ Contested(u)
        \/ /\ Stores(u, actions[a].metadata)
           /\ Closes(u) => actions[a].status = ClosesAs(u)

ReadersCarryOn ==
    \A r \in Requests : Overwriting(r) =>
        \A u \in seen[r] : Contested(u) \/ (Stores(u, read[r]) /\ ~ Closes(u))

\* A success is answered only after the write.
AnswersWritten ==
    \A u \in Requests :
        /\ pc[u] = "update" => target[u] = call[u].actionId
        /\ Answered(u, 200) => /\ call[u].kind = "update" /\ target[u] = call[u].actionId
                               /\ u \in writers[target[u]]
        /\ Answered(u, 201) => u \in Rows /\ (target[u] # u => u \in writers[target[u]])

WInv ==
    /\ RowsOfCreates /\ WritersEnded /\ CreatedWith
    /\ WritesLast /\ ReadersCarryOn /\ AnswersWritten

\* What the shapes of a step leave out: an action is patched or replaced only if
\* it is found open, and a success is answered only after the write.
LEMMA StepAnswers ==
    ASSUME TInv, NEW r \in Requests, Step(r) \/ Crash(r)
    PROVE  /\ \A q \in Requests \ {r} : pc'[q] = pc[q] /\ answer'[q] = answer[q]
           /\ pc'[r] = "update" =>
                target'[r] = call[r].actionId /\ Active(call[r].actionId)
           /\ Answered(r, 200)' => Overwrites(r) /\ UNCHANGED target
           /\ Answered(r, 201)' => /\ pc[r] = "insert" \/ ReplacesRow(r)
                                   /\ r \in Rows' /\ UNCHANGED target
<1>0. /\ actions \in [Requests -> Action \cup {NoAction}] /\ NoAction \notin Action
      /\ clock \in Nat /\ begun[r] \in Nat
      /\ pc \in [Requests -> Waiting \cup {"idle", "done", "dropped"}]
      /\ answer \in [Requests -> {0, 200, 201, 404, 409, 500}]
      /\ target \in [Requests -> Requests]
  BY ActionyAssumptions DEF TInv, TypeOK
<1>1. \A q \in Requests \ {r} : pc'[q] = pc[q] /\ answer'[q] = answer[q]
  BY <1>0 DEF Step, CreateFetch, CreateCount, CreateInsert, ReplaceBegin, ReplaceSelect,
     ReplaceCommit, UpdateFind, UpdateWrite, ReadRejects, WriteRejects, Crash, Goto, Answer,
     PassCount, ReadRow
<1>2. pc'[r] = "update" => UpdateFind(r)
  BY <1>0 DEF Step, CreateFetch, CreateCount, CreateInsert, ReplaceBegin, ReplaceSelect,
     ReplaceCommit, UpdateWrite, ReadRejects, WriteRejects, Crash, Goto, Answer, PassCount, ReadRow
<1>3. ASSUME UpdateFind(r), pc'[r] = "update"
      PROVE  target'[r] = call[r].actionId /\ Active(call[r].actionId)
  <2>1. call[r].actionId \in Requests
    BY <1>3 DEF UpdateFind, At, TInv, KindsAgree, UpdateCall
  <2>2. /\ actions[call[r].actionId] # NoAction
        /\ actions[call[r].actionId].status \notin ClosedStatuses
        /\ target'[r] = call[r].actionId
    BY <1>0, <1>3 DEF UpdateFind, Answer, ReadRow
  <2>3. actions[call[r].actionId].status \in Statuses
    BY <1>0, <2>1, <2>2 DEF Action
  <2> QED
    BY <2>2, <2>3 DEF Active, Statuses
<1>4. Answered(r, 200)' => UpdateWrite(r)
  BY <1>0 DEF Answered, Step, CreateFetch, CreateCount, CreateInsert, ReplaceBegin, ReplaceSelect,
     ReplaceCommit, UpdateFind, UpdateWrite, ReadRejects, WriteRejects, Crash, Goto, Answer,
     PassCount, ReadRow, At, Waiting
<1>5. UpdateWrite(r) => Overwrites(r) /\ UNCHANGED target
  BY DEF UpdateWrite, At, Update, Overwritten, Answer, Overwrites, TInv, KindsAgree, TargetsExist
<1>6. Answered(r, 201)' => CreateInsert(r) \/ ReplaceCommit(r)
  BY <1>0 DEF Answered, Step, CreateFetch, CreateCount, CreateInsert, ReplaceBegin, ReplaceSelect,
     ReplaceCommit, UpdateFind, UpdateWrite, ReadRejects, WriteRejects, Crash, Goto, Answer,
     PassCount, ReadRow, At, Waiting
<1>7. ASSUME CreateInsert(r) \/ ReplaceCommit(r)
      PROVE  (pc[r] = "insert" \/ ReplacesRow(r)) /\ r \in Rows' /\ UNCHANGED target
  <2>1. call[r] \in CreateCall
    BY <1>7 DEF CreateInsert, ReplaceCommit, At, TInv, KindsAgree
  <2>2. \E n \in Nat : actions'[r] = NewAction(r, n)
    BY <1>0, <1>7 DEF CreateInsert, ReplaceCommit, Insert, Replace, Overwritten
  <2>3. r \in Rows'
    BY <1>0, <2>1, <2>2, RowTypes DEF Rows
  <2>4. ReplaceCommit(r) => ReplacesRow(r)
    BY <2>1 DEF ReplaceCommit, At, Replace, Overwritten, ReplacesRow, TInv, TargetsExist
  <2> QED
    BY <1>7, <2>3, <2>4 DEF CreateInsert, ReplaceCommit, At, Answer
<1> QED
  BY <1>1, <1>2, <1>3, <1>4, <1>5, <1>6, <1>7

\* A write leaves a row and its writers alone, or it overwrites the row with all
\* that was read there, what it stores itself, and the status it closes it with.
LEMMA WriterEffects ==
    ASSUME TInv, RowsOfCreates, NEW r \in Requests, TableEffect(r), pc[r] \in Waiting,
           NEW a \in Requests
    PROVE  \/ writers'[a] = writers[a] /\ (a \in Rows => actions'[a] = actions[a])
           \/ /\ a = target[r] /\ a \in Rows /\ Overwriting(r)
              /\ writers'[a] = writers[a] \cup {r}
              /\ read[r] \subseteq actions'[a].metadata /\ Stores(r, actions'[a].metadata)
              /\ Closes(r) => actions'[a].status = ClosesAs(r)
<1>0. /\ actions \in [Requests -> Action \cup {NoAction}]
      /\ writers \in [Requests -> SUBSET Requests] /\ target[r] \in Requests
  BY DEF TInv, TypeOK
<1>1. r \notin Rows
  BY DEF RowsOfCreates, Waiting
<1>2. ASSUME a # target[r] PROVE writers'[a] = writers[a]
  BY <1>0, <1>2 DEF TableEffect, Inserts, ReplacesRow, Overwrites, Written
<1>3. CASE UNCHANGED <<actions, writers>>
  BY <1>3
<1>4. CASE Inserts(r, clock)
  BY <1>0, <1>1, <1>4 DEF Inserts
<1>5. CASE ReplacesRow(r) /\ (target[r] = r \/ a # target[r])
  BY <1>0, <1>1, <1>2, <1>5 DEF ReplacesRow
<1>6. CASE ReplacesRow(r) /\ target[r] # r /\ a = target[r]
  <2>1. /\ writers'[a] = writers[a] \cup {r} /\ a \in Rows /\ Overwriting(r)
        /\ actions'[a] = Updated(actions[a], "canceled", read[r] \cup {r})
        /\ call[r].kind = "create"
    BY <1>0, <1>6 DEF ReplacesRow, Written, Overwriting, CreateCall
  <2>2. actions'[a].metadata = read[r] \cup {r} /\ actions'[a].status = "canceled"
    BY <2>1 DEF Updated, Unset
  <2> QED
    BY <1>6, <2>1, <2>2 DEF Stores, ClosesAs
<1>7. CASE Overwrites(r) /\ a # target[r]
  BY <1>0, <1>2, <1>7 DEF Overwrites
<1>8. CASE Overwrites(r) /\ a = target[r]
  <2>1. /\ writers'[a] = writers[a] \cup {r} /\ a \in Rows /\ Overwriting(r)
        /\ actions'[a] = Updated(actions[a], call[r].status, read[r] \cup call[r].metadata)
        /\ call[r].kind = "update"
    BY <1>0, <1>8 DEF Overwrites, Written, Overwriting, UpdateCall
  <2>2. /\ actions'[a].metadata = read[r] \cup call[r].metadata
        /\ call[r].status \in ClosedStatuses => actions'[a].status = call[r].status
    BY <2>1 DEF Updated, Unset, ClosedStatuses
  <2> QED
    BY <1>8, <2>1, <2>2 DEF Stores, Closes, ClosesAs
<1> QED
  BY <1>3, <1>4, <1>5, <1>6, <1>7, <1>8 DEF TableEffect

\* What a step of the handler of r leaves as it is; a crossing has happened for good.
LEMMA WriteFacts ==
    ASSUME TInv, WInv, NEW r \in Requests, Shape(r)
    PROVE  /\ pc[r] \in Waiting /\ r \notin Rows /\ call' = call
           /\ \A q \in Requests \ {r} : /\ pc'[q] = pc[q] /\ target'[q] = target[q]
                                        /\ read'[q] = read[q] /\ seen'[q] = seen[q]
           /\ Rows \subseteq Rows' /\ Rows' \subseteq Rows \cup {r}
           /\ \A a \in Requests : writers[a] \subseteq writers'[a]
           /\ ~ Ends(r) => UNCHANGED <<actions, writers>>
           /\ \A u \in Requests : Contested(u) => Contested(u)'
<1>0. /\ pc \in [Requests -> Waiting \cup {"idle", "done", "dropped"}]
      /\ target \in [Requests -> Requests] /\ read \in [Requests -> SUBSET Requests]
      /\ seen \in [Requests -> SUBSET Requests]
  BY DEF TInv, TypeOK
<1>1. /\ pc[r] \in Waiting /\ call' = call
      /\ \E p \in Waiting \cup {"done", "dropped"} : pc' = [pc EXCEPT ![r] = p]
      /\ target' = target \/ \E a \in Requests : target' = [target EXCEPT ![r] = a]
      /\ read' = read \/ \E m : read' = [read EXCEPT ![r] = m]
      /\ seen' = seen \/ \E w : seen' = [seen EXCEPT ![r] = w]
  BY DEF Shape, Ends, Fetched, Counted, ReplaceBegin, SelectedNone, SelectedLatest, Found,
     ReadsRow, ReadRow, Goto, PassCount, At, Waiting, Rows
<1>2. r \notin Rows
  BY <1>1 DEF WInv, RowsOfCreates, Waiting
<1>3. \A q \in Requests \ {r} : /\ pc'[q] = pc[q] /\ target'[q] = target[q]
                                /\ read'[q] = read[q] /\ seen'[q] = seen[q]
  BY <1>0, <1>1
<1>4. Rows \subseteq Rows' /\ Rows' \subseteq Rows \cup {r}
  BY TableTypes, RowEffects, ReadersWriteNothing DEF Ends
<1>5. ~ Ends(r) => UNCHANGED <<actions, writers>>
  BY DEF Shape, Fetched, Counted, ReplaceBegin, SelectedNone, SelectedLatest, Found, ReadsRow,
     NoWrite
<1>6. \A a \in Requests : writers[a] \subseteq writers'[a]
  BY <1>1, <1>5, WriterEffects DEF Ends, WInv
<1>7. ASSUME NEW u \in Requests, NEW w \in Requests, Crossed(u, w) PROVE Crossed(u, w)'
  <2>1. u # r /\ w # r /\ target[u] \in Requests
    BY <1>0, <1>1, <1>7 DEF Crossed, WInv, WritersEnded, Waiting
  <2>2. target'[u] = target[u] /\ target'[w] = target[w] /\ seen'[u] = seen[u] /\ seen'[w] = seen[w]
    BY <1>3, <2>1
  <2> QED
    BY <1>6, <1>7, <2>1, <2>2 DEF Crossed
<1> QED
  BY <1>1, <1>2, <1>3, <1>4, <1>5, <1>6, <1>7 DEF Contested

\* A step keeps the bookkeeping,
LEMMA ShapeKeepsWriters ==
    ASSUME TInv, WInv, NEW r \in Requests, Shape(r)
    PROVE  RowsOfCreates' /\ WritersEnded'
<1>0. /\ pc \in [Requests -> Waiting \cup {"idle", "done", "dropped"}]
      /\ target \in [Requests -> Requests] /\ writers \in [Requests -> SUBSET Requests]
      /\ seen \in [Requests -> SUBSET Requests]
  BY DEF TInv, TypeOK
<1>1. Ends(r) => pc'[r] \in {"done", "dropped"} /\ UNCHANGED <<target, seen>>
  BY <1>0 DEF Ends
<1>2. RowsOfCreates'
  <2> SUFFICES ASSUME NEW d \in Rows'
               PROVE  /\ pc'[d] \in {"done", "dropped"} /\ call'[d] \in CreateCall
                      /\ actions'[d].serviceId = call'[d].serviceId
    BY DEF RowsOfCreates
  <2>1. CASE d \in Rows
    <3>1. actions'[d].serviceId = actions[d].serviceId
      BY <2>1, WriteFacts, RowEffects DEF Ends
    <3> QED
      BY <2>1, <3>1, WriteFacts DEF WInv, RowsOfCreates, Rows
  <2>2. CASE d \notin Rows
    <3>1. d = r /\ Ends(r)
      BY <2>2, WriteFacts DEF Rows
    <3>2. call[r] \in CreateCall /\ \E n \in Nat : actions'[r] = NewAction(r, n)
      BY <2>2, <3>1, RowEffects DEF Ends
    <3> QED
      BY <1>1, <3>1, <3>2, WriteFacts DEF NewAction
  <2> QED
    BY <2>1, <2>2
<1>3. ASSUME NEW a \in Requests, NEW u \in writers'[a]
      PROVE  a \in Rows' /\ target'[u] = a /\ pc'[u] \in {"done", "dropped"}
  <2>1. CASE u \in writers[a]
    <3>1. a \in Rows /\ target[u] = a /\ pc[u] \in {"done", "dropped"} /\ u \in Requests
      BY <1>0, <2>1 DEF WInv, WritersEnded
    <3>2. u # r
      BY <3>1, WriteFacts DEF Waiting
    <3> QED
      BY <3>1, <3>2, WriteFacts
  <2>2. CASE u \notin writers[a]
    <3>1. Ends(r)
      BY <1>3, <2>2, WriteFacts
    <3>2. u = r /\ a = target[r] /\ a \in Rows
      <4>1. TableEffect(r) /\ pc[r] \in Waiting /\ RowsOfCreates
        BY <3>1, WriteFacts DEF Ends, WInv
      <4> QED
        BY <1>3, <2>2, <4>1, WriterEffects
    <3> QED
      BY <1>1, <3>1, <3>2, WriteFacts
  <2> QED
    BY <2>1, <2>2
<1>4. ASSUME NEW q \in Requests PROVE seen'[q] \subseteq writers'[target'[q]]
  <2>1. CASE target'[q] = target[q] /\ seen'[q] = seen[q]
    BY <1>0, <2>1, WriteFacts DEF WInv, WritersEnded
  <2>2. CASE ~ (target'[q] = target[q] /\ seen'[q] = seen[q])
    <3>1. q = r /\ (SelectedLatest(r) \/ Found(r))
      BY <1>0, <2>2, WriteFacts DEF Shape, Ends, Fetched, Counted, ReplaceBegin, SelectedNone,
         Goto, PassCount
    <3>2. \E a \in Rows : target'[r] = a /\ seen'[r] = writers[a]
      BY <1>0, <3>1 DEF SelectedLatest, Found, ReadsRow, ReadRow
    <3> QED
      BY <3>1, <3>2, WriteFacts DEF Rows
  <2> QED
    BY <2>1, <2>2
<1> QED
  BY <1>2, <1>3, <1>4 DEF WritersEnded

\* A row that is read is open, and the reader takes in its metadata and writers.
LEMMA ReadsOpenRow ==
    ASSUME TInv, WInv, NEW r \in Requests, Shape(r), Step(r) \/ Crash(r), NEW q \in Requests,
           Overwriting(q)'
    PROVE  \/ /\ Overwriting(q) /\ q # r
              /\ target'[q] = target[q] /\ read'[q] = read[q] /\ seen'[q] = seen[q]
           \/ /\ q = r /\ UNCHANGED <<actions, writers>>
              /\ target'[q] \in Rows /\ Active(target'[q])
              /\ read'[q] = actions[target'[q]].metadata /\ seen'[q] = writers[target'[q]]
<1>0. /\ pc \in [Requests -> Waiting \cup {"idle", "done", "dropped"}]
      /\ target \in [Requests -> Requests] /\ read \in [Requests -> SUBSET Requests]
      /\ seen \in [Requests -> SUBSET Requests]
  BY DEF TInv, TypeOK
<1>1. CASE q # r
  BY <1>1, WriteFacts DEF Overwriting
<1>2. CASE q = r
  <2>1. SelectedLatest(r) \/ Found(r)
    <3>1. ~ SelectedNone(r)
      BY <1>0, <1>2 DEF SelectedNone, Goto, Overwriting, TInv, TargetsExist
    <3> QED
      BY <1>0, <1>2, <3>1 DEF Overwriting, Shape, Ends, Fetched, Counted, ReplaceBegin, At,
         Goto, PassCount
  <2>2. /\ target'[r] \in Rows /\ UNCHANGED <<actions, writers>>
        /\ read'[r] = actions[target'[r]].metadata /\ seen'[r] = writers[target'[r]]
    BY <1>0, <2>1 DEF SelectedLatest, Found, ReadsRow, ReadRow, NoWrite
  <2>3. Active(target'[r])
    <3>1. CASE Found(r)
      <4>1. pc'[r] = "update"
        BY <1>0, <3>1 DEF Found, ReadsRow, ReadRow
      <4> QED
        BY <4>1, StepAnswers
    <3>2. CASE SelectedLatest(r)
      <4>1. /\ ActiveOf(call[r].serviceId) # {} /\ ActiveOf(call[r].serviceId) \subseteq Rows
            /\ target'[r] = Latest(ActiveOf(call[r].serviceId))
        BY <1>0, <3>2 DEF SelectedLatest, ReadsRow, ReadRow, ActiveOf
      <4>2. target'[r] \in ActiveOf(call[r].serviceId)
        BY <4>1, LatestIsOne DEF TInv, TypeOK, TimesPassed
      <4> QED
        BY <4>2 DEF ActiveOf
    <3> QED
      BY <2>1, <3>1, <3>2
  <2> QED
    BY <1>2, <2>2, <2>3
<1> QED
  BY <1>1, <1>2

\* the metadata of the creates,
LEMMA ShapeKeepsCreatedWith ==
    ASSUME TInv, WInv, NEW r \in Requests, Shape(r), Step(r) \/ Crash(r)
    PROVE  CreatedWith'
<1>1. ASSUME NEW a \in Rows' PROVE call'[a].metadata \subseteq actions'[a].metadata
  <2>1. CASE a \notin Rows
    <3>1. a = r /\ Ends(r)
      BY <2>1, WriteFacts DEF Rows
    <3>2. \E n \in Nat : actions'[a] = NewAction(a, n)
      BY <2>1, <3>1, RowEffects DEF Ends
    <3> QED
      BY <3>2, WriteFacts DEF NewAction
  <2>2. CASE a \in Rows /\ actions'[a] = actions[a]
    BY <2>2, WriteFacts DEF WInv, CreatedWith
  <2>3. CASE a \in Rows /\ actions'[a] # actions[a]
    <3>1. a \in Requests /\ TableEffect(r)
      BY <2>3, WriteFacts DEF Rows, Ends
    <3>2. a = target[r] /\ Overwriting(r) /\ read[r] \subseteq actions'[a].metadata
      BY <2>3, <3>1, WriteFacts, WriterEffects DEF WInv
    <3> QED
      BY <3>2, WriteFacts DEF WInv, CreatedWith
  <2> QED
    BY <2>1, <2>2, <2>3
<1>2. ASSUME NEW q \in Requests, Overwriting(q)' PROVE call'[target'[q]].metadata \subseteq read'[q]
  BY <1>2, ReadsOpenRow, WriteFacts DEF WInv, CreatedWith
<1> QED
  BY <1>1, <1>2 DEF CreatedWith

\* what was written without a crossing,
LEMMA ShapeKeepsWritesLast ==
    ASSUME TInv, WInv, NEW r \in Requests, Shape(r)
    PROVE  WritesLast'
<1> SUFFICES ASSUME NEW a \in Requests, NEW u \in writers'[a], ~ Contested(u)'
             PROVE  /\ Stores(u, actions'[a].metadata)
                    /\ Closes(u)' => actions'[a].status = ClosesAs(u)'
  BY WriteFacts DEF WritesLast, Stores
<1>0. /\ writers \in [Requests -> SUBSET Requests] /\ pc[r] \in Waiting /\ call' = call
      /\ target \in [Requests -> Requests] /\ RowsOfCreates
  BY WriteFacts DEF TInv, TypeOK, WInv
<1>1. CASE u \in writers[a]
  <2>1. /\ u \in Requests /\ a \in Rows /\ target[u] = a /\ target'[u] = a /\ u # r
        /\ seen'[u] = seen[u]
    BY <1>0, <1>1, WriteFacts DEF WInv, WritersEnded, Waiting
  <2>2. /\ Stores(u, actions[a].metadata)
        /\ Closes(u) => actions[a].status = ClosesAs(u)
    BY <1>1, <2>1, WriteFacts DEF WInv, WritesLast
  <2>3. Closes(u)' = Closes(u) /\ ClosesAs(u)' = ClosesAs(u)
    BY <1>0, <2>1 DEF Closes, ClosesAs
  <2>4. CASE actions'[a] = actions[a]
    BY <1>0, <2>2, <2>3, <2>4 DEF Stores
  <2>5. CASE actions'[a] # actions[a]
    <3>1. Ends(r) /\ TableEffect(r)
      BY <2>5, WriteFacts DEF Ends
    <3>2. /\ a = target[r] /\ Overwriting(r) /\ writers'[a] = writers[a] \cup {r}
          /\ read[r] \subseteq actions'[a].metadata
      BY <1>0, <2>1, <2>5, <3>1, WriterEffects
    <3>3. CASE u \in seen[r]
      <4>1. Stores(u, read[r]) /\ ~ Closes(u)
        BY <2>1, <3>2, <3>3, WriteFacts DEF WInv, ReadersCarryOn
      <4> QED
        BY <1>0, <2>3, <3>2, <4>1 DEF Stores
    <3>4. CASE u \notin seen[r]
      <4>1. r \notin seen[u]
        BY <1>0, <2>1 DEF WInv, WritersEnded, Waiting
      <4>2. target'[r] = a /\ seen'[r] = seen[r]
        BY <3>1, <3>2 DEF Ends
      <4>3. Crossed(u, r)'
        BY <1>1, <2>1, <3>2, <3>4, <4>1, <4>2 DEF Crossed
      <4> QED
        BY <4>3 DEF Contested
    <3> QED
      BY <3>3, <3>4
  <2> QED
    BY <2>4, <2>5
<1>2. CASE u \notin writers[a]
  <2>1. Ends(r) /\ TableEffect(r) /\ UNCHANGED target
    BY <1>2, WriteFacts DEF Ends
  <2>2. /\ u = r /\ Stores(r, actions'[a].metadata)
        /\ Closes(r) => actions'[a].status = ClosesAs(r)
    BY <1>0, <1>2, <2>1, WriterEffects
  <2> QED
    BY <1>0, <2>1, <2>2 DEF Stores, Closes, ClosesAs
<1> QED
  BY <1>1, <1>2

\* what readers carry on,
LEMMA ShapeKeepsReaders ==
    ASSUME TInv, WInv, NEW r \in Requests, Shape(r), Step(r) \/ Crash(r)
    PROVE  ReadersCarryOn'
<1> SUFFICES ASSUME NEW q \in Requests, Overwriting(q)', NEW u \in seen'[q], ~ Contested(u)'
             PROVE  Stores(u, read'[q]) /\ ~ Closes(u)'
  BY WriteFacts DEF ReadersCarryOn, Stores
<1>0. /\ seen \in [Requests -> SUBSET Requests] /\ writers \in [Requests -> SUBSET Requests]
      /\ target \in [Requests -> Requests] /\ call' = call
      /\ \A v \in Requests : call[v] \in CreateCall \cup UpdateCall \cup {NoCall}
  BY WriteFacts DEF TInv, TypeOK
<1>1. ASSUME NEW a \in Requests, u \in writers[a]
      PROVE  u \in Requests /\ Closes(u)' = Closes(u) /\ ~ Contested(u)
  <2>1. u \in Requests /\ target'[u] = target[u]
    <3>1. u \in Requests /\ u # r
      BY <1>0, <1>1, WriteFacts DEF WInv, WritersEnded, Waiting
    <3> QED
      BY <3>1, WriteFacts
  <2>2. ~ Contested(u)
    BY <2>1, WriteFacts
  <2> QED
    BY <1>0, <2>1, <2>2 DEF Closes
<1>2. CASE Overwriting(q) /\ read'[q] = read[q] /\ seen'[q] = seen[q]
  <2>1. u \in writers[target[q]] /\ target[q] \in Requests
    BY <1>0, <1>2 DEF WInv, WritersEnded
  <2>2. Stores(u, read[q]) /\ ~ Closes(u)
    BY <1>1, <1>2, <2>1 DEF WInv, ReadersCarryOn
  <2> QED
    BY <1>1, <1>2, <2>1, <2>2
<1>3. ASSUME NEW a \in Rows, Active(a), read'[q] = actions[a].metadata, seen'[q] = writers[a]
      PROVE  Stores(u, read'[q]) /\ ~ Closes(u)'
  <2>1. a \in Requests /\ u \in writers[a]
    BY <1>3 DEF Rows
  <2>2. Stores(u, actions[a].metadata) /\ (Closes(u) => actions[a].status = ClosesAs(u))
    BY <1>1, <2>1 DEF WInv, WritesLast
  <2>3. Closes(u) => ClosesAs(u) # "active"
    BY DEF Closes, ClosesAs, ClosedStatuses
  <2> QED
    BY <1>1, <1>3, <2>1, <2>2, <2>3 DEF Active
<1> QED
  BY <1>2, <1>3, ReadsOpenRow

\* and that a success was preceded by its write.
LEMMA ShapeKeepsAnswers ==
    ASSUME TInv, WInv, NEW r \in Requests, Shape(r), Step(r) \/ Crash(r)
    PROVE  AnswersWritten'
<1> SUFFICES ASSUME NEW u \in Requests
             PROVE  /\ pc'[u] = "update" => target'[u] = call'[u].actionId
                    /\ Answered(u, 200)' => /\ call'[u].kind = "update"
                                            /\ target'[u] = call'[u].actionId
                                            /\ u \in writers'[target'[u]]
                    /\ Answered(u, 201)' => /\ u \in Rows'
                                            /\ target'[u] # u => u \in writers'[target'[u]]
  BY DEF AnswersWritten
<1>0. /\ writers \in [Requests -> SUBSET Requests] /\ target \in [Requests -> Requests]
      /\ call' = call
  BY WriteFacts DEF TInv, TypeOK
<1>1. CASE u # r
  <2>1. /\ pc'[u] = pc[u] /\ target'[u] = target[u] /\ writers[target[u]] \subseteq writers'[target[u]]
        /\ Answered(u, 200)' = Answered(u, 200) /\ Answered(u, 201)' = Answered(u, 201)
    BY <1>0, <1>1, WriteFacts, StepAnswers DEF Answered
  <2> QED
    BY <1>0, <2>1, WriteFacts DEF WInv, AnswersWritten
<1>2. CASE u = r
  <2>1. Overwrites(r) => /\ call[r].kind = "update" /\ target[r] = call[r].actionId
                         /\ r \in writers'[target[r]]
    BY <1>0 DEF Overwrites, UpdateCall, Written, WInv, AnswersWritten
  <2>2. ReplacesRow(r) => (target[r] # r => r \in writers'[target[r]])
    BY <1>0 DEF ReplacesRow, Written
  <2>3. pc[r] = "insert" => target[r] = r
    BY DEF TInv, TargetsExist
  <2> QED
    BY <1>0, <1>2, <2>1, <2>2, <2>3, StepAnswers
<1> QED
  BY <1>1, <1>2

\* A request that arrives has written nothing.
LEMMA ArriveKeepsWInv ==
    ASSUME TInv, WInv, NEW r \in Requests, Arrive(r)
    PROVE  WInv'
<1>1. /\ pc[r] = "idle" /\ pc'[r] \in {"fetch", "find"}
      /\ UNCHANGED <<actions, writers, target, read, answer, seen>>
      /\ \A q \in Requests \ {r} : pc'[q] = pc[q] /\ call'[q] = call[q]
  BY DEF Arrive, PostAction, PatchAction, Receive, NoWrite, TInv, TypeOK
<1>2. /\ r \notin Rows /\ Rows' = Rows /\ target[r] = r
      /\ \A q \in Requests : target[q] \in Requests /\ writers[q] \subseteq Requests
  BY <1>1 DEF WInv, RowsOfCreates, Rows, TInv, TypeOK, TargetsExist
<1>3. \A a \in Requests : \A u \in writers[a] : u # r /\ u \in Requests
  BY <1>1, <1>2 DEF WInv, WritersEnded
<1>4. \A u \in Requests \ {r} : /\ Contested(u)' = Contested(u) /\ Closes(u)' = Closes(u)
                                /\ ClosesAs(u)' = ClosesAs(u) /\ \A m : Stores(u, m)' = Stores(u, m)
  BY <1>1 DEF Contested, Crossed, Closes, ClosesAs, Stores
<1>5. \A q \in Requests : Overwriting(q)' => Overwriting(q) /\ q # r
  BY <1>1 DEF Overwriting
<1>6. RowsOfCreates' /\ WritersEnded'
  BY <1>1, <1>2, <1>3 DEF WInv, RowsOfCreates, WritersEnded, Rows
<1>7. CreatedWith'
  <2>1. \A q \in Requests : Overwriting(q) => target[q] \in Rows
    BY DEF Overwriting, TInv, TargetsExist
  <2> QED
    BY <1>1, <1>2, <1>5, <2>1 DEF WInv, CreatedWith, Rows
<1>8. WritesLast'
  BY <1>1, <1>3, <1>4 DEF WInv, WritesLast, Stores
<1>9. ReadersCarryOn'
  <2>1. \A q \in Requests : \A u \in seen[q] : u \in Requests \ {r}
    BY <1>2, <1>3 DEF WInv, WritersEnded
  <2> QED
    BY <1>1, <1>4, <1>5, <2>1 DEF WInv, ReadersCarryOn, Stores
<1>10. AnswersWritten'
  BY <1>1, <1>2 DEF WInv, AnswersWritten, Answered
<1> QED
  BY <1>6, <1>7, <1>8, <1>9, <1>10 DEF WInv

\* The argument is inductive.
LEMMA WInvInductive ==
    /\ Init => WInv
    /\ TInv /\ WInv /\ [Next]_vars => WInv'
<1>1. Init => WInv
  BY DEF Init, WInv, RowsOfCreates, Rows, WritersEnded, CreatedWith, Overwriting, WritesLast,
     ReadersCarryOn, AnswersWritten, Answered
<1>2. WInv /\ UNCHANGED vars => WInv'
  BY DEF vars, locals, WInv, RowsOfCreates, Rows, WritersEnded, CreatedWith, Overwriting,
     WritesLast, ReadersCarryOn, AnswersWritten, Answered, Contested, Crossed, Stores, Closes, ClosesAs
<1>3. ASSUME TInv, WInv, NEW r \in Requests, Step(r) \/ Crash(r) PROVE WInv'
  BY <1>3, StepShape, ShapeKeepsWriters, ShapeKeepsCreatedWith, ShapeKeepsWritesLast,
     ShapeKeepsReaders, ShapeKeepsAnswers DEF WInv
<1> QED
  BY <1>1, <1>2, <1>3, ArriveKeepsWInv DEF Next

\* Metadata a client was told is stored is dropped only by a crossing, however
\* many requests are in flight and whatever fails.
THEOREM MetadataLostOnlyByCrossing == Spec => []MetadataLostByCrossing
<1>1. TInv /\ WInv => MetadataLostByCrossing
  <2> SUFFICES ASSUME TInv, WInv, NEW u \in Requests
               PROVE  /\ Answered(u, 201) => call[u].metadata \subseteq actions[u].metadata
                      /\ Answered(u, 200) =>
                           \/ call[u].metadata \subseteq actions[call[u].actionId].metadata
                           \/ Contested(u)
    BY DEF MetadataLostByCrossing, Contested
  <2>1. Answered(u, 201) => call[u].metadata \subseteq actions[u].metadata
    BY DEF WInv, AnswersWritten, CreatedWith
  <2>2. target[u] \in Requests
    BY DEF TInv, TypeOK
  <2> QED
    BY <2>1, <2>2 DEF WInv, AnswersWritten, WritesLast, Stores
<1> QED
  BY <1>1, WInvInductive, TypesAndTargets, PTL DEF Spec

\* A closing a client was told of, by its PATCH or by the create that replaced
\* the action, is undone only by a crossing: the check of the status when the row
\* is read keeps it from every other request.
THEOREM ClosingsUndoneOnlyByCrossing == Spec => []ClosingUndoneByCrossing
<1>1. TInv /\ WInv => ClosingUndoneByCrossing
  <2> SUFFICES ASSUME TInv, WInv, NEW u \in Requests, Answered(u, 200) \/ Answered(u, 201), Closes(u)
               PROVE  actions[target[u]].status = ClosesAs(u) \/ Contested(u)
    BY DEF ClosingUndoneByCrossing, Contested
  <2>1. target[u] \in Requests /\ u \in writers[target[u]]
    BY DEF TInv, TypeOK, WInv, AnswersWritten, Closes
  <2> QED
    BY <2>1 DEF WInv, WritesLast
<1> QED
  BY <1>1, WInvInductive, TypesAndTargets, PTL DEF Spec

-----------------------------------------------------------------------------
(***************************************************************************)
(* When no PATCH reopens an action, the parallelism of a service is only   *)
(* exceeded by creates that raced: the argument behind counting first and  *)
(* canceling the latest active action, for any number of requests.        *)
(***************************************************************************)
\* A set of one element at most, and one of more.
LEMMA AtMostOne ==
    ASSUME NEW S, IsFiniteSet(S)
    PROVE  Cardinality(S) <= 1 <=> \A x, y \in S : x = y
<1>0. Cardinality(S) \in Nat
  BY FS_CardinalityType
<1>1. ASSUME NEW x \in S PROVE Cardinality(S) = Cardinality(S \ {x}) + 1 /\ IsFiniteSet(S \ {x})
  <2>1. IsFiniteSet(S \ {x}) /\ Cardinality(S \ {x}) = Cardinality(S) - 1
    BY FS_RemoveElement
  <2> QED
    BY <1>0, <2>1
<1>2. ASSUME Cardinality(S) <= 1, NEW x \in S, NEW y \in S, x # y PROVE FALSE
  <2>1. Cardinality(S \ {x}) \in Nat /\ (Cardinality(S \ {x}) = 0 <=> S \ {x} = {})
    BY <1>1, FS_CardinalityType, FS_EmptySet
  <2> QED
    BY <1>0, <1>1, <1>2, <2>1
<1>3. ASSUME \A x, y \in S : x = y PROVE Cardinality(S) <= 1
  <2>1. CASE S = {}
    BY <2>1, FS_EmptySet
  <2>2. ASSUME NEW x \in S PROVE Cardinality(S) <= 1
    <3>1. S \ {x} = {}
      BY <1>3
    <3> QED
      BY <1>1, <3>1, FS_EmptySet
  <2> QED
    BY <2>1, <2>2
<1> QED
  BY <1>2, <1>3

-----------------------------------------------------------------------------
\* What a request saw when it counted is still there, and is not its own row.
CountedRows == \A d \in Requests : before[d] \subseteq Rows /\ d \notin before[d]

\* Only creates of a limited service count.
CountsLimited == \A d \in Requests : pc[d] = "count" => Limited(call[d].serviceId)

NeverReopens == \A d \in Requests : call[d] \in UpdateCall => call[d].status # "active"

\* c had its row there when d counted, is of d's service and is active.
Rival(c, d) == c \in before[d] /\ actions[c].serviceId = call[d].serviceId /\ Active(c)

\* A create of a single service that is to insert saw nothing active, or it is
\* closed by now;
FoundNone ==
    \A d \in Requests :
        pc[d] = "insert" /\ Limited(call[d].serviceId) => \A c \in Requests : ~ Rival(c, d)

\* one of a replaceable service saw at most one active action,
FoundOne ==
    \A d \in Requests :
        pc[d] \in {"begin", "select"} => \A b, c \in Requests : Rival(b, d) /\ Rival(c, d) => b = c

\* and cancels this one, unless an action it has not seen came in between.
Selected ==
    \A d \in Requests :
        pc[d] = "commit" => \A c \in Requests : Rival(c, d) =>
            \/ target[d] = c
            \/ \E e \in Rows : e \notin before[d] /\ actions[e].serviceId = call[d].serviceId

\* So a create whose row is there with one it has seen still active has raced.
Witnessed ==
    \A d \in Rows :
        Limited(call[d].serviceId) =>
            \A c \in Requests : Rival(c, d) => \E e \in Rows : Raced(e, d)

RInv ==
    /\ IsFiniteSet(Rows)
    /\ RowsOfCreates /\ CountedRows /\ CountsLimited /\ NeverReopens
    /\ FoundNone /\ FoundOne /\ Selected /\ Witnessed

\* What a step of the handler of r leaves as it is.
LEMMA StepFacts ==
    ASSUME TInv, RInv, NEW r \in Requests, Shape(r)
    PROVE  /\ pc[r] \in Waiting /\ r \notin Rows /\ call' = call
           /\ \A q \in Requests \ {r} : pc'[q] = pc[q] /\ target'[q] = target[q]
           /\ Rows \subseteq Rows' /\ Rows' \subseteq Rows \cup {r}
           /\ r \in Rows' => /\ Ends(r) /\ pc[r] \in {"insert", "commit"} /\ call[r] \in CreateCall
                             /\ actions'[r].serviceId = call[r].serviceId
           /\ \A a \in Rows : /\ actions'[a].serviceId = actions[a].serviceId
                              /\ Active(a)' => Active(a)
           /\ \A d \in Requests : before'[d] = before[d] \/ (d = r /\ Counted(r))
<1>0. /\ actions \in [Requests -> Action \cup {NoAction}]
      /\ pc \in [Requests -> Waiting \cup {"idle", "done", "dropped"}]
      /\ target \in [Requests -> Requests] /\ before \in [Requests -> SUBSET Requests]
  BY DEF TInv, TypeOK
<1>1. /\ pc[r] \in Waiting /\ call' = call
      /\ \E p \in Waiting \cup {"done", "dropped"} : pc' = [pc EXCEPT ![r] = p]
      /\ target' = target \/ \E a \in Requests : target' = [target EXCEPT ![r] = a]
  BY DEF Shape, Ends, Fetched, Counted, ReplaceBegin, SelectedNone, SelectedLatest, Found,
     ReadsRow, ReadRow, Goto, PassCount, At, Waiting, Rows
<1>2. r \notin Rows
  BY <1>1 DEF RInv, RowsOfCreates, Waiting
<1>3. \A q \in Requests \ {r} : pc'[q] = pc[q] /\ target'[q] = target[q]
  BY <1>0, <1>1
<1>4. before' = before \/ (Counted(r) /\ before' = [before EXCEPT ![r] = Rows])
  BY DEF Shape, Ends, Fetched, Counted, ReplaceBegin, SelectedNone, SelectedLatest, Found,
     ReadsRow, ReadRow, Goto, PassCount
<1>5. \A d \in Requests : before'[d] = before[d] \/ (d = r /\ Counted(r))
  BY <1>0, <1>4
<1>6. Rows \subseteq Rows'
  BY TableTypes, ReadersWriteNothing DEF Ends
<1>7. ASSUME NEW a \in Rows
      PROVE  actions'[a].serviceId = actions[a].serviceId /\ (Active(a)' => Active(a))
  <2>1. CASE UNCHANGED actions
    BY <2>1 DEF Active
  <2>2. CASE Ends(r)
    <3>1. \A st, m : Updated(actions[a], st, m).serviceId = actions[a].serviceId
      BY DEF Updated
    <3>2. \A st, m : Updated(actions[a], st, m).status = "active" =>
                       st = "active" \/ actions[a].status = "active"
      BY DEF Updated, Unset
    <3>3. call[r] \in UpdateCall => call[r].status # "active"
      BY DEF RInv, NeverReopens
    <3>4. a \in Rows' /\ a # r /\ TableEffect(r)
      BY <1>2, <1>6, <2>2 DEF Ends
    <3>5. \/ actions'[a] = actions[a]
          \/ actions'[a] = Updated(actions[a], "canceled", read[r] \cup {r})
          \/ /\ call[r] \in UpdateCall
             /\ actions'[a] = Updated(actions[a], call[r].status, read[r] \cup call[r].metadata)
      BY <3>4, RowsAfter
    <3> QED
      BY <3>1, <3>2, <3>3, <3>5 DEF Active, Rows
  <2> QED
    BY <2>1, <2>2, ReadersWriteNothing
<1>8. r \in Rows' => /\ Ends(r) /\ pc[r] \in {"insert", "commit"} /\ call[r] \in CreateCall
                     /\ actions'[r].serviceId = call[r].serviceId
  <2>1. r \in Rows' => Ends(r)
    BY <1>2, ReadersWriteNothing
  <2>2. \A n \in Nat : NewAction(r, n).serviceId = call[r].serviceId
    BY DEF NewAction
  <2> QED
    BY <1>2, <2>1, <2>2, RowEffects DEF Ends
<1>9. Rows' \subseteq Rows \cup {r}
  BY RowEffects, ReadersWriteNothing DEF Ends
<1> QED
  BY <1>1, <1>2, <1>3, <1>5, <1>6, <1>7, <1>8, <1>9

\* A rival after a step was one before, unless d counts in that step; and a race
\* that happened has happened.
LEMMA RivalsAndRaces ==
    ASSUME TInv, RInv, NEW r \in Requests, Shape(r)
    PROVE  /\ \A c, d \in Requests : Rival(c, d)' /\ ~ (d = r /\ Counted(r)) => Rival(c, d)
           /\ \A c, d \in Requests : Rival(c, d)' => c \in Rows /\ Active(c)
           /\ \A e, d \in Requests : Raced(e, d) => Raced(e, d)'
           /\ \A e \in Rows, d \in Requests :
                e \notin before[d] /\ actions[e].serviceId = call[d].serviceId
                  /\ ~ (d = r /\ Counted(r)) =>
                    /\ e \in Rows' /\ e \notin before'[d]
                    /\ actions'[e].serviceId = call'[d].serviceId
<1>1. \A d \in Requests : before[d] \subseteq Rows
  BY DEF RInv, CountedRows
<1>2. \A c, d \in Requests : Rival(c, d)' => c \in Rows
  <2>1. Counted(r) => before'[r] = Rows
    BY DEF Counted, PassCount, TInv, TypeOK
  <2> QED
    BY <1>1, <2>1, StepFacts DEF Rival
<1>3. \A c, d \in Requests : Rival(c, d)' => Active(c)
  BY <1>2, StepFacts DEF Rival
<1>4. \A c, d \in Requests : Rival(c, d)' /\ ~ (d = r /\ Counted(r)) => Rival(c, d)
  BY <1>2, StepFacts DEF Rival
<1>5. \A e, d \in Requests : Raced(e, d) => Raced(e, d)'
  <2> SUFFICES ASSUME NEW e \in Requests, NEW d \in Requests, Raced(e, d) PROVE Raced(e, d)'
    OBVIOUS
  <2>1. e \in Rows /\ d \in Rows /\ e # r /\ d # r
    BY StepFacts DEF Raced, Rows
  <2>2. before'[e] = before[e] /\ before'[d] = before[d]
    BY <2>1, StepFacts
  <2>3. /\ actions'[e].serviceId = actions[e].serviceId /\ actions'[d].serviceId = actions[d].serviceId
        /\ e \in Rows' /\ d \in Rows'
    BY <2>1, StepFacts
  <2> QED
    BY <2>2, <2>3 DEF Raced, Rows
<1>6. ASSUME NEW e \in Rows, NEW d \in Requests, ~ (d = r /\ Counted(r)),
             e \notin before[d], actions[e].serviceId = call[d].serviceId
      PROVE  e \in Rows' /\ e \notin before'[d] /\ actions'[e].serviceId = call'[d].serviceId
  BY <1>6, StepFacts
<1> QED
  BY <1>2, <1>3, <1>4, <1>5, <1>6

\* Counting tells a single service with no active action and a replaceable one
\* with one at most from the rest.
LEMMA CountTells ==
    ASSUME TInv, RInv, NEW r \in Requests, Counted(r)
    PROVE  /\ pc'[r] = "insert" => ActiveOf(call[r].serviceId) = {}
           /\ \A b, c \in ActiveOf(call[r].serviceId) : b = c
<1> DEFINE s == call[r].serviceId
<1>1. Limited(s) /\ ~ ExceedsLimitation(s)
  BY DEF Counted, RInv, CountsLimited
<1>2. IsFiniteSet(ActiveOf(s))
  BY FS_Subset DEF RInv, ActiveOf
<1>3. Parallelism[s] = "single" => ActiveOf(s) = {}
  BY <1>1 DEF ExceedsLimitation
<1>4. Parallelism[s] = "replaceable" => Cardinality(ActiveOf(s)) <= 1
  BY <1>1, <1>2, FS_CardinalityType DEF ExceedsLimitation
<1>5. pc'[r] = "insert" => Parallelism[s] = "single"
  BY DEF Counted, PassCount, TInv, TypeOK
<1>6. \A b, c \in ActiveOf(s) : b = c
  BY <1>1, <1>2, <1>3, <1>4, AtMostOne DEF Limited
<1> QED
  BY <1>3, <1>5, <1>6

\* A step of a handler preserves the bookkeeping
LEMMA ShapeKeepsRows ==
    ASSUME TInv, RInv, NEW r \in Requests, Shape(r)
    PROVE  /\ IsFiniteSet(Rows)' /\ RowsOfCreates' /\ CountedRows'
           /\ CountsLimited' /\ NeverReopens'
<1>1. IsFiniteSet(Rows)'
  <2>1. IsFiniteSet(Rows \cup {r})
    BY FS_AddElement DEF RInv
  <2>2. Rows' \subseteq Rows \cup {r}
    BY StepFacts
  <2> QED
    BY <2>1, <2>2, FS_Subset
<1>2. RowsOfCreates'
  <2>1. Ends(r) => pc'[r] \in {"done", "dropped"}
    BY DEF Ends, TInv, TypeOK
  <2> QED
    BY <2>1, StepFacts DEF RInv, RowsOfCreates, Rows
<1>3. CountedRows'
  <2>1. Counted(r) => before'[r] = Rows
    BY DEF Counted, PassCount, TInv, TypeOK
  <2> QED
    BY <2>1, StepFacts DEF RInv, CountedRows
<1>4. CountsLimited'
  <2>1. pc'[r] = "count" => Fetched(r) /\ Limited(call[r].serviceId)
    BY ActionyAssumptions DEF Shape, Ends, Fetched, Counted, ReplaceBegin, SelectedNone,
       SelectedLatest, Found, ReadsRow, ReadRow, Goto, PassCount, TInv, TypeOK, Limited
  <2> QED
    BY <2>1, StepFacts DEF RInv, CountsLimited
<1>5. NeverReopens'
  BY StepFacts DEF RInv, NeverReopens
<1> QED
  BY <1>1, <1>2, <1>3, <1>4, <1>5

\* and the argument, one part for each awaited call.
LEMMA ShapeKeepsFound ==
    ASSUME TInv, RInv, NEW r \in Requests, Shape(r)
    PROVE  FoundNone' /\ FoundOne'
<1>0. pc \in [Requests -> Waiting \cup {"idle", "done", "dropped"}]
  BY DEF TInv, TypeOK
<1>1. FoundNone'
  <2> SUFFICES ASSUME NEW d \in Requests, pc'[d] = "insert", Limited(call[d].serviceId),
                      NEW c \in Requests, Rival(c, d)'
               PROVE  FALSE
    BY StepFacts DEF FoundNone
  <2>1. CASE pc[d] = "insert" /\ ~ (d = r /\ Counted(r))
    BY <2>1, RivalsAndRaces DEF RInv, FoundNone
  <2>2. CASE d = r /\ Counted(r)
    <3>1. c \in Rows /\ Active(c) /\ actions[c].serviceId = call[d].serviceId
      BY RivalsAndRaces, StepFacts DEF Rival
    <3> QED
      BY <2>2, <3>1, CountTells DEF ActiveOf
  <2>3. CASE pc[d] # "insert" /\ ~ (d = r /\ Counted(r))
    <3>1. d = r
      BY <2>3, StepFacts
    <3>2. Fetched(r) /\ Parallelism[call[r].serviceId] = "multiple"
      BY <1>0, <2>3, <3>1 DEF Shape, Ends, Fetched, ReplaceBegin, SelectedNone,
         SelectedLatest, Found, ReadsRow, ReadRow, Goto
    <3> QED
      BY <3>1, <3>2 DEF Limited
  <2> QED
    BY <2>1, <2>2, <2>3
<1>2. FoundOne'
  <2> SUFFICES ASSUME NEW d \in Requests, pc'[d] \in {"begin", "select"},
                      NEW b \in Requests, NEW c \in Requests, Rival(b, d)', Rival(c, d)'
               PROVE  b = c
    BY DEF FoundOne
  <2>1. CASE d = r /\ Counted(r)
    <3>1. {b, c} \subseteq ActiveOf(call[r].serviceId)
      BY <2>1, RivalsAndRaces, StepFacts DEF Rival, ActiveOf
    <3> QED
      BY <2>1, <3>1, CountTells
  <2>2. CASE ~ (d = r /\ Counted(r))
    <3>1. pc[d] \in {"begin", "select"}
      <4>1. CASE d # r
        BY <4>1, StepFacts
      <4>2. CASE d = r
        BY <1>0, <2>2, <4>2 DEF Shape, Ends, Fetched, ReplaceBegin, At, SelectedNone,
           SelectedLatest, Found, ReadsRow, ReadRow, Goto
      <4> QED
        BY <4>1, <4>2
    <3> QED
      BY <2>2, <3>1, RivalsAndRaces DEF RInv, FoundOne
  <2> QED
    BY <2>1, <2>2
<1> QED
  BY <1>1, <1>2

LEMMA ShapeKeepsSelected ==
    ASSUME TInv, RInv, NEW r \in Requests, Shape(r)
    PROVE  Selected'
<1>0. /\ pc \in [Requests -> Waiting \cup {"idle", "done", "dropped"}]
      /\ target \in [Requests -> Requests]
  BY DEF TInv, TypeOK
<1> SUFFICES ASSUME NEW d \in Requests, pc'[d] = "commit", NEW c \in Requests, Rival(c, d)'
             PROVE  \/ target'[d] = c
                    \/ \E e \in Rows' : /\ e \notin before'[d]
                                        /\ actions'[e].serviceId = call'[d].serviceId
  BY DEF Selected
<1>1. ~ (d = r /\ Counted(r))
  BY <1>0 DEF Counted, PassCount
<1>2. Rival(c, d)
  BY <1>1, RivalsAndRaces
<1>3. CASE d # r
  BY <1>1, <1>2, <1>3, StepFacts, RivalsAndRaces DEF RInv, Selected
<1>4. CASE d = r
  <2>1. SelectedNone(r) \/ SelectedLatest(r)
    BY <1>0, <1>1, <1>4 DEF Shape, Ends, Fetched, ReplaceBegin, Found, ReadsRow, ReadRow, Goto
  <2>2. c \in ActiveOf(call[r].serviceId)
    BY <1>2, <1>4, RivalsAndRaces DEF Rival, ActiveOf
  <2>3. /\ SelectedLatest(r) /\ pc[r] = "select"
        /\ target'[r] = Latest(ActiveOf(call[r].serviceId))
    BY <1>0, <2>1, <2>2 DEF SelectedNone, SelectedLatest, ReadsRow, ReadRow
  <2>4. target'[r] \in ActiveOf(call[r].serviceId)
    <3>1. ActiveOf(call[r].serviceId) # {} /\ ActiveOf(call[r].serviceId) \subseteq Rows
      BY <2>2 DEF ActiveOf
    <3>2. /\ actions \in [Requests -> Action \cup {NoAction}] /\ clock \in Nat
          /\ \A a \in Rows : actions[a].createdAt <= clock
      BY DEF TInv, TypeOK, TimesPassed
    <3> QED
      BY <2>3, <3>1, <3>2, LatestIsOne
  <2>5. CASE target'[r] \in before[r]
    <3>1. Rival(target'[r], r)
      BY <2>4, <2>5 DEF Rival, ActiveOf
    <3> QED
      BY <1>2, <1>4, <2>3, <2>4, <3>1 DEF RInv, FoundOne, ActiveOf, Rows
  <2>6. CASE target'[r] \notin before[r]
    BY <1>1, <1>4, <2>4, <2>6, RivalsAndRaces DEF ActiveOf
  <2> QED
    BY <2>5, <2>6
<1> QED
  BY <1>3, <1>4

LEMMA ShapeKeepsWitnessed ==
    ASSUME TInv, RInv, NEW r \in Requests, Shape(r)
    PROVE  Witnessed'
<1> SUFFICES ASSUME NEW d \in Rows', Limited(call[d].serviceId), NEW c \in Requests, Rival(c, d)'
             PROVE  \E e \in Rows' : Raced(e, d)'
  BY StepFacts DEF Witnessed
<1>0. d \in Requests
  BY DEF Rows
<1>1. ~ (d = r /\ Counted(r))
  BY StepFacts DEF Counted
<1>2. Rival(c, d)
  BY <1>0, <1>1, RivalsAndRaces
<1>3. CASE d \in Rows
  <2>1. PICK e \in Rows : Raced(e, d)
    BY <1>2, <1>3 DEF RInv, Witnessed
  <2> QED
    BY <1>0, <2>1, StepFacts, RivalsAndRaces DEF Rows
<1>4. CASE d \notin Rows
  <2>1. d = r /\ Ends(r) /\ pc[r] \in {"insert", "commit"}
    BY <1>4, StepFacts
  <2>2. pc[r] = "commit"
    BY <1>2, <2>1 DEF RInv, FoundNone
  <2>3. target[r] # c
    <3>1. c # r /\ c \in Rows
      BY <1>0, <1>2, <2>1, StepFacts, RivalsAndRaces
    <3>2. ReplacesRow(r)
      BY <1>4, <2>1, <2>2 DEF Ends, TableEffect, Overwrites, Rows
    <3>3. target[r] = c => actions'[c] = Updated(actions[c], "canceled", read[r] \cup {r})
      BY <3>1, <3>2 DEF ReplacesRow, TInv, TypeOK, Rows
    <3>4. \A m : Updated(actions[c], "canceled", m).status = "canceled"
      BY DEF Updated, Unset
    <3> QED
      BY <3>3, <3>4 DEF Rival, Active
  <2>4. PICK e \in Rows : e \notin before[r] /\ actions[e].serviceId = call[r].serviceId
    BY <1>2, <2>1, <2>2, <2>3 DEF RInv, Selected
  <2>5. e # r /\ r \notin before[e] /\ e \in Requests
    BY StepFacts DEF RInv, CountedRows, Rows
  <2>6. /\ e \in Rows' /\ r \in Rows' /\ before'[e] = before[e] /\ e \notin before'[r]
        /\ actions'[e].serviceId = call[r].serviceId /\ actions'[r].serviceId = call[r].serviceId
    BY <1>1, <2>1, <2>4, <2>5, StepFacts
  <2> QED
    BY <2>1, <2>5, <2>6 DEF Raced, Rows
<1> QED
  BY <1>3, <1>4

\* A request that arrives has no row and has seen none.
LEMMA ArriveKeepsRInv ==
    ASSUME TInv, RInv, "active" \notin BodyStatuses, NEW r \in Requests, Arrive(r)
    PROVE  RInv'
<1>1. PICK p \in {"fetch", "find"}, c \in CreateCall \cup UpdateCall :
        Receive(r, p, c) /\ (c \in UpdateCall => c.status # "active")
  <2>1. ASSUME NEW s \in Services, NEW m \in SUBSET {r}, PostAction(r, s, m)
        PROVE  \E c \in CreateCall : Receive(r, "fetch", c) /\ c \notin UpdateCall
    BY <2>1 DEF PostAction, CreateCall, UpdateCall
  <2>2. ASSUME NEW a \in Requests, NEW st \in BodyStatuses \cup {Unset}, NEW m \in SUBSET {r},
               PatchAction(r, a, st, m)
        PROVE  \E c \in UpdateCall : Receive(r, "find", c) /\ c.status # "active"
    <3>1. st \in Statuses \cup {Unset} /\ st # "active"
      BY ActionyAssumptions DEF Unset
    <3> QED
      BY <2>2, <3>1 DEF PatchAction, UpdateCall
  <2> QED
    BY <2>1, <2>2 DEF Arrive
<1>2. /\ pc[r] = "idle" /\ pc'[r] = p /\ UNCHANGED <<actions, target, before>> /\ call'[r] = c
      /\ \A q \in Requests \ {r} : pc'[q] = pc[q] /\ call'[q] = call[q]
  BY <1>1 DEF Receive, NoWrite, TInv, TypeOK
<1>3. r \notin Rows /\ Rows' = Rows
  BY <1>2 DEF RInv, RowsOfCreates, Rows
<1>4. \A d \in Requests \ {r} : \A b \in Requests : Rival(b, d)' = Rival(b, d)
  BY <1>2 DEF Rival, Active
<1>5. IsFiniteSet(Rows)' /\ RowsOfCreates' /\ CountedRows' /\ CountsLimited' /\ NeverReopens'
  BY <1>1, <1>2, <1>3 DEF RInv, RowsOfCreates, CountedRows, CountsLimited, NeverReopens, Rows
<1>6. FoundNone' /\ FoundOne' /\ Selected'
  BY <1>2, <1>3, <1>4 DEF RInv, FoundNone, FoundOne, Selected
<1>7. Witnessed'
  <2>1. \A e, d \in Rows : Raced(e, d) => Raced(e, d)'
    BY <1>2 DEF Raced
  <2> QED
    BY <1>2, <1>3, <1>4, <2>1 DEF RInv, Witnessed, Rows
<1> QED
  BY <1>5, <1>6, <1>7 DEF RInv

\* The argument is inductive.
LEMMA RInvInductive ==
    ASSUME "active" \notin BodyStatuses
    PROVE  /\ Init => RInv
           /\ TInv /\ RInv /\ [Next]_vars => RInv'
<1>1. Init => RInv
  <2> SUFFICES ASSUME Init PROVE RInv
    OBVIOUS
  <2>1. Rows = {}
    BY DEF Init, Rows
  <2>2. IsFiniteSet(Rows)
    BY <2>1, FS_EmptySet
  <2> QED
    BY <2>1, <2>2 DEF Init, RInv, RowsOfCreates, CountedRows, CountsLimited, NeverReopens,
       FoundNone, FoundOne, Selected, Witnessed, NoCall, UpdateCall
<1>2. RInv /\ UNCHANGED vars => RInv'
  BY DEF vars, locals, RInv, RowsOfCreates, CountedRows, CountsLimited, NeverReopens,
     FoundNone, FoundOne, Selected, Witnessed, Rival, Raced, Rows, Active
<1>3. ASSUME TInv, RInv, NEW r \in Requests, Shape(r) PROVE RInv'
  BY <1>3, ShapeKeepsRows, ShapeKeepsFound, ShapeKeepsSelected, ShapeKeepsWitnessed DEF RInv
<1> QED
  BY <1>1, <1>2, <1>3, StepShape, ArriveKeepsRInv DEF Next

\* Two active actions of a limited service are those of creates that raced, or
\* one of them has seen the other and raced with a third.
LEMMA TwoActiveRaced == TInv /\ RInv => TwoActiveNeedARace
<1> SUFFICES ASSUME TInv, RInv, NEW s \in Services, Limited(s), Cardinality(ActiveOf(s)) > 1
             PROVE  \E c, d \in Rows : Raced(c, d) /\ actions[c].serviceId = s
  BY DEF TwoActiveNeedARace
<1>1. IsFiniteSet(ActiveOf(s)) /\ Cardinality(ActiveOf(s)) \in Nat
  BY FS_Subset, FS_CardinalityType DEF RInv, ActiveOf
<1>2. PICK c, d \in ActiveOf(s) : c # d
  BY <1>1, AtMostOne
<1>3. /\ c \in Rows /\ d \in Rows /\ Active(c) /\ Active(d)
      /\ actions[c].serviceId = s /\ actions[d].serviceId = s
      /\ call[c].serviceId = s /\ call[d].serviceId = s
  BY <1>2 DEF ActiveOf, RInv, RowsOfCreates
<1>4. ASSUME NEW a \in Rows, NEW b \in Rows, a \in before[b], Active(a),
             actions[a].serviceId = s, call[b].serviceId = s
      PROVE  \E e \in Rows : Raced(e, b) /\ actions[e].serviceId = s
  <2>1. PICK e \in Rows : Raced(e, b)
    BY <1>4 DEF RInv, Witnessed, Rival, Rows
  <2>2. actions[b].serviceId = s
    BY <1>4 DEF RInv, RowsOfCreates
  <2> QED
    BY <2>1, <2>2 DEF Raced
<1>5. CASE c \in before[d]
  BY <1>3, <1>4, <1>5
<1>6. CASE d \in before[c]
  BY <1>3, <1>4, <1>6
<1>7. CASE c \notin before[d] /\ d \notin before[c]
  BY <1>2, <1>3, <1>7 DEF Raced, Rows
<1> QED
  BY <1>5, <1>6, <1>7

\* If no PATCH sets a status to active, a service of single or replaceable
\* parallelism has two active actions only after two of its creates raced.
THEOREM ExceededOnlyByRaces ==
    ASSUME "active" \notin BodyStatuses
    PROVE  Spec => []TwoActiveNeedARace
  BY RInvInductive, TwoActiveRaced, TypesAndTargets, PTL DEF Spec

=============================================================================
