----------------------- MODULE ArstotzkaMemoryProofs -----------------------
(***************************************************************************)
(* Theorems about what an instance of StatefulMediator remembers, for any  *)
(* programs, retries and numbers of calls awaited at once: no lock it was  *)
(* told about is forgotten, a removal answered by 404 was preceded by one  *)
(* of its own, an open action is the one it remembers, and what its own    *)
(* reservations left behind never refuses it.                              *)
(***************************************************************************)
EXTENDS ArstotzkaProofs

-----------------------------------------------------------------------------
\* What was asked and answered stays, rows of answered requests do not come
\* back, and actions are neither removed nor opened again.
Past ==
    /\ scenario' = scenario
    /\ \A q \in Requests :
        /\ lockCall[q].kind # "none" => lockCall'[q] = lockCall[q]
        /\ lockPc[q] = "done" => lockPc'[q] = "done" /\ lockAnswer'[q] = lockAnswer[q]
        /\ lockCall[q].kind = "unlock" /\ lockPc[q] # "find" => lockPc'[q] # "find"
        /\ lockPc[q] = "done" /\ locks[q] = NoLock => locks'[q] = NoLock
        /\ actionCall[q].kind # "none" => actionCall'[q] = actionCall[q]
        /\ actionPc[q] = "done" => actionPc'[q] = "done" /\ actionAnswer'[q] = actionAnswer[q]
        /\ Inserted(q) => Inserted(q)' /\ actions'[q].serviceId = actions[q].serviceId
        /\ Inserted(q) /\ ~ Acting(q) => ~ Acting(q)'

\* A request that has not arrived has asked nothing.
Unasked == \A q \in Requests : lockPc[q] = "idle" => lockCall[q].kind = "none"

\* The clock, a handler of locky,
LEMMA TickPast ==
    ASSUME Inv, scenario' = scenario, L!Tick, UNCHANGED actionyVars
    PROVE  Past
<1>1. /\ UNCHANGED <<lockCall, lockPc, lockAnswer>> /\ UNCHANGED actionyVars
      /\ locks' = [l \in Requests |->
                     IF locks[l] # NoLock /\ locks[l].ttl > 0
                     THEN [locks[l] EXCEPT !.ttl = @ - 1]
                     ELSE locks[l]]
  BY SameLocky DEF P!Tick, P!locals
<1> QED
  BY <1>1 DEF Past, actionyVars, Inserted, Acting, A!Active

LEMMA LockyPast ==
    ASSUME Inv, scenario' = scenario, UNCHANGED actionyVars,
           NEW r \in Requests, P!Step(r) \/ P!Crash(r)
    PROVE  Past
<1>0. P!TypeOK /\ P!IInv /\ P!RowInv /\ P!KindsAgree
  BY DEF Inv, P!IInv
<1>1. P!Move(r)
  BY <1>0, ServersAssumed, P!StepMoves DEF P!RowInv
<1>2. UNCHANGED lockCall
  BY <1>1 DEF P!Move
<1>3. \A q \in Requests : lockPc[q] = "done" => lockPc'[q] = "done" /\ lockAnswer'[q] = lockAnswer[q]
  BY <1>1, ServersAssumed, P!DoneIsFinal
<1>4. \A q \in Requests : lockPc[q] # "find" => lockPc'[q] # "find"
  BY <1>1 DEF P!Move, P!Advance, P!MakeRow, P!GiveUpRow, P!KeepRow, P!TakeBack, P!LookUp, P!Remove
<1>5. ASSUME NEW q \in Requests, lockPc[q] = "done", locks[q] = NoLock PROVE locks'[q] = NoLock
  <2>1. SUFFICES ASSUME locks'[q] # locks[q] PROVE locks'[q] = NoLock
    BY <1>5
  <2>2. q = lockCall[r].lockId /\ P!Remove(r)
    BY <1>0, <1>1, <1>5, <2>1, ServersAssumed, P!RowChanges
  <2> QED
    BY <1>0, <2>2 DEF P!Remove, P!DeleteLock, P!TypeOK
<1> QED
  BY <1>2, <1>3, <1>4, <1>5 DEF Past, actionyVars, Inserted, Acting, A!Active

\* one of actiony,
LEMMA ActionyPast ==
    ASSUME Inv, scenario' = scenario, UNCHANGED lockyVars,
           NEW r \in Requests, Q!Step(r) \/ Q!Crash(r)
    PROVE  Past
<1>0. Q!TInv /\ ActionCalls
  BY DEF Inv
<1>1. UNCHANGED actionCall /\ ~ Inserted(r)
  BY <1>0, OpenAfter
<1>2. \A q \in Requests \ {r} : actionPc'[q] = actionPc[q] /\ actionAnswer'[q] = actionAnswer[q]
  BY <1>0, ServersAssumed, Q!StepAnswers
<1>3. Q!Shape(r)
  BY <1>0, ServersAssumed, Q!StepShape
<1>4. actionPc[r] \in Q!Waiting
  BY <1>0, <1>3 DEF Q!Shape, Q!Fetched, Q!Counted, Q!ReplaceBegin,
     Q!SelectedNone, Q!SelectedLatest, Q!Found, Q!Waiting, Q!At
<1>5. Q!Rows \subseteq Q!Rows'
  BY <1>0, <1>3, ServersAssumed, Q!TableTypes, Q!ReadersWriteNothing DEF Q!Ends
<1>6. \A q \in Requests : Inserted(q) => Inserted(q)'
  BY <1>5 DEF Q!Rows, Inserted
<1>7. \A q \in Requests : Inserted(q) => actions'[q].serviceId = actions[q].serviceId
  BY <1>0, <1>1, <1>6, OpenAfter
<1>8. \A q \in Requests : Inserted(q) /\ ~ Acting(q) => ~ Acting(q)'
  BY <1>0, OpenAfter
<1>9. \A q \in Requests : actionPc[q] = "done" =>
        actionPc'[q] = "done" /\ actionAnswer'[q] = actionAnswer[q]
  BY <1>2, <1>4 DEF Q!Waiting
<1> QED
  BY <1>1, <1>6, <1>7, <1>8, <1>9 DEF Past, lockyVars

\* an arrival and a step that touches neither server.
LEMMA SendingPast ==
    ASSUME Inv, Unasked, scenario' = scenario, Sending
    PROVE  Past
<1>1. CASE UNCHANGED <<lockyVars, actionyVars>>
  BY <1>1 DEF Past, lockyVars, actionyVars, Inserted, Acting, A!Active
<1>2. ASSUME NEW r \in Requests, SendsToLocky(r) PROVE Past
  <2>1. PICK p \in {"check", "find"} : \E k, lr : P!Receive(r, p, k, lr)
    BY <1>2 DEF SendsToLocky, P!PostReserve, P!DeleteLockId
  <2>2. /\ lockPc[r] = "idle" /\ UNCHANGED <<locks, lockAnswer>>
        /\ \A q \in Requests : q # r => lockCall'[q] = lockCall[q] /\ lockPc'[q] = lockPc[q]
    BY <2>1 DEF P!Receive, Inv, P!IInv, P!TypeOK
  <2>3. lockCall[r].kind = "none"
    BY <2>2 DEF Unasked
  <2> QED
    BY <1>2, <2>2, <2>3 DEF Past, SendsToLocky, actionyVars, Inserted, Acting, A!Active
<1>3. ASSUME NEW r \in Requests, SendsToActiony(r) PROVE Past
  <2>1. PICK p, k : Q!Receive(r, p, k)
    BY <1>3 DEF SendsToActiony, Q!PostAction, Q!PatchAction
  <2>2. /\ actionPc[r] = "idle" /\ UNCHANGED <<actions, actionAnswer>>
        /\ \A q \in Requests : q # r => actionCall'[q] = actionCall[q] /\ actionPc'[q] = actionPc[q]
    BY <2>1 DEF Q!Receive, Q!NoWrite, Inv, Q!TInv, Q!TypeOK
  <2>3. actionCall[r].kind = "none"
    BY <2>2 DEF Inv, Q!TInv, Q!KindsAgree, Q!NoCall
  <2> QED
    BY <1>3, <2>2, <2>3 DEF Past, SendsToActiony, lockyVars, Inserted, Acting, A!Active
<1> QED
  BY <1>1, <1>2, <1>3 DEF Sending

-----------------------------------------------------------------------------
\* What the servers did for the instances.

\* The ids an instance remembers and those it sends are of locks it was granted.
OwnIds ==
    /\ \A c \in Clients : lockId[c] # None => P!Granted(lockId[c]) /\ lockId[c][1] = c
    /\ \A q \in Requests : lockCall[q].kind = "unlock" =>
         P!Granted(lockCall[q].lockId) /\ lockCall[q].lockId[1] = q[1]

Unlocks(u, l) == lockCall[u].kind = "unlock" /\ lockCall[u].lockId = l

\* A DELETE that found no row came after another one of the same row.
FoundRemoved ==
    \A u \in Requests : lockCall[u].kind = "unlock" /\ P!Answered(u, 404) =>
        \E v \in Requests \ {u} : Unlocks(v, lockCall[u].lockId) /\ lockPc[v] # "find"

\* A service is refused when another one blocks it or when a blockee acted.
Opposed(s) ==
    \/ \E t \in DOMAIN Blockees : s \in Blockees[t]
    \/ \E q \in Requests : Inserted(q) /\ actions[q].serviceId \in Blockees[s]

RefusedByOthers ==
    \A q \in Requests : lockCall[q].kind = "reserve" =>
        /\ lockPc[q] = "verify" => pending[q] \subseteq Blockees[Own(q)]
        /\ lockPc[q] \in {"rollback", "done"} /\ lockAnswer[q] = 409 => Opposed(Own(q))

\* A create that was told to have succeeded has its row, and one of a single
\* service inserts it as soon as the count allows.
Single(s) == Parallelism[s] = "single"

CreatesCount ==
    \A q \in Requests :
        /\ Q!Answered(q, 201) => Inserted(q)
        /\ Single(Own(q)) => actionPc[q] \notin {"begin", "select", "commit"}

Served == Unasked /\ FoundRemoved /\ RefusedByOthers /\ CreatesCount

LEMMA OpposedStays ==
    ASSUME Past, NEW q \in Requests, Opposed(Own(q))
    PROVE  Opposed(Own(q))'
  BY DEF Past, Opposed, Own, ServiceOf

\* A handler of locky answers for a reason,
LEMMA LockyServes ==
    ASSUME Inv, Served, OwnIds, scenario' = scenario, UNCHANGED actionyVars,
           NEW r \in Requests, P!Step(r) \/ P!Crash(r)
    PROVE  Served'
<1>0. P!TypeOK /\ P!IInv /\ P!RowInv /\ LockCalls
  BY DEF Inv, P!IInv
<1>1. P!Move(r) /\ Past
  BY <1>0, LockyPast, ServersAssumed, P!StepMoves DEF P!RowInv, P!IInv
<1>2. UNCHANGED lockCall /\ lockPc[r] \in P!Waiting
  BY <1>1 DEF P!Move
<1>3. \A q \in Requests \ {r} : /\ lockPc'[q] = lockPc[q] /\ lockAnswer'[q] = lockAnswer[q]
                              /\ pending'[q] = pending[q]
  BY <1>0, ServersAssumed, P!OthersLeftAlone
<1>4. Unasked'
  <2>1. lockPc'[r] # "idle"
    BY <1>1 DEF P!Move, P!Advance, P!MakeRow, P!GiveUpRow, P!KeepRow, P!TakeBack, P!LookUp, P!Remove
  <2> QED
    BY <1>2, <1>3, <2>1 DEF Served, Unasked
<1>5. FoundRemoved'
  <2> SUFFICES ASSUME NEW u \in Requests, lockCall[u].kind = "unlock", P!Answered(u, 404)'
               PROVE  \E v \in Requests \ {u} : Unlocks(v, lockCall[u].lockId) /\ lockPc'[v] # "find"
    BY <1>2 DEF FoundRemoved, Unlocks
  <2>1. CASE P!Answered(u, 404)
    <3>1. PICK v \in Requests \ {u} : Unlocks(v, lockCall[u].lockId) /\ lockPc[v] # "find"
      BY <2>1 DEF Served, FoundRemoved
    <3> QED
      BY <1>1, <3>1 DEF Past, Unlocks
  <2>2. CASE ~ P!Answered(u, 404)
    <3>1. u = r
      BY <1>3, <2>2 DEF P!Answered
    <3>2. lockPc[r] = "find" /\ locks[lockCall[r].lockId] = NoLock
      BY <1>0, <3>1, ServersAssumed, P!NotFoundReason
    <3>3. P!Granted(lockCall[r].lockId) /\ lockCall[r].lockId \in Requests
      BY <1>0, <3>1 DEF OwnIds, P!TypeOK, P!Call
    <3>4. PICK v \in Requests : Unlocks(v, lockCall[r].lockId) /\ lockPc[v] # "find"
      BY <1>0, <3>2, <3>3 DEF P!RowInv, P!GrantedLockKept, Unlocks
    <3> QED
      BY <1>1, <3>1, <3>2, <3>4 DEF Past, Unlocks
  <2> QED
    BY <2>1, <2>2
<1>6. RefusedByOthers'
  <2> SUFFICES ASSUME NEW q \in Requests, lockCall[q].kind = "reserve"
               PROVE  /\ lockPc'[q] = "verify" => pending'[q] \subseteq Blockees[Own(q)]
                      /\ lockPc'[q] \in {"rollback", "done"} /\ lockAnswer'[q] = 409 => Opposed(Own(q))
    <3>1. \A q \in Requests : Own(q)' = Own(q) /\ (Opposed(Own(q)) => Opposed(Own(q))')
      BY <1>1, OpposedStays DEF Own, ServiceOf
    <3> QED
      BY <1>2, <3>1 DEF RefusedByOthers
  <2>1. CASE q # r
    BY <1>3, <2>1 DEF Served, RefusedByOthers
  <2>2. CASE q = r
    <3>0. P!IsOf(r, Own(r)) /\ Own(r) \in Services
      BY <1>0, <2>2, RequestTypes DEF LockCalls, P!IsOf, Inv, CInv
    <3>1. /\ lockPc'[r] = "verify" =>
               \/ lockPc[r] = "verify" /\ pending'[r] \subseteq pending[r]
               \/ pending'[r] = Blockees[Own(r)]
          /\ lockPc'[r] \in {"rollback", "done"} /\ lockAnswer'[r] = 409 =>
               \/ lockPc[r] = "rollback" /\ lockAnswer[r] = 409
               \/ P!FindNonexpiredLocks({Own(r)}) # {}
               \/ lockPc[r] = "verify"
                  /\ \E b \in pending[r] : b \in {s \in Services : A!ActiveOf(s) # {}}
      BY <1>0, <3>0, ServersAssumed, P!RefusalReason
    <3>2. ASSUME NEW l \in P!FindNonexpiredLocks({Own(r)}) PROVE Opposed(Own(r))
      <4>1. l \in Requests /\ locks[l] # NoLock /\ Own(r) \in locks[l].serviceIds
        BY <3>2 DEF P!FindNonexpiredLocks, P!NonExpired
      <4>2. lockCall[l].kind = "reserve" /\ lockCall[l].services = {Own(l)} /\ Own(l) \in Services
        BY <1>0, <4>1, RequestTypes DEF LockCalls, P!IInv, P!RowsHaveOwners, Inv, CInv
      <4>3. Own(l) \in DOMAIN Blockees /\ locks[l].serviceIds = Blockees[Own(l)]
        BY <1>0, <4>1, <4>2 DEF P!IInv, P!RowsListBlockees
      <4> QED
        BY <4>1, <4>3 DEF Opposed
    <3>3. ASSUME lockPc[r] = "verify", NEW b \in pending[r], b \in {s \in Services : A!ActiveOf(s) # {}}
          PROVE  Opposed(Own(r))
      <4>1. b \in Blockees[Own(r)]
        BY <2>2, <3>3 DEF Served, RefusedByOthers
      <4>2. PICK a \in Requests : actions[a] # NoAction /\ actions[a].serviceId = b
        BY <3>3 DEF A!ActiveOf, A!Rows
      <4> QED
        BY <4>1, <4>2 DEF Opposed, Inserted
    <3>4. /\ lockPc[r] = "verify" => pending[r] \subseteq Blockees[Own(r)]
          /\ lockPc[r] = "rollback" /\ lockAnswer[r] = 409 => Opposed(Own(r))
      BY <2>2 DEF Served, RefusedByOthers
    <3>5. P!FindNonexpiredLocks({Own(r)}) # {} => Opposed(Own(r))
      BY <3>2
    <3>6. lockPc'[r] = "verify" => pending'[r] \subseteq Blockees[Own(r)]
      BY <3>1, <3>4
    <3>7. lockPc'[r] \in {"rollback", "done"} /\ lockAnswer'[r] = 409 => Opposed(Own(r))
      BY <3>1, <3>3, <3>4, <3>5
    <3> QED
      BY <2>2, <3>6, <3>7
  <2> QED
    BY <2>1, <2>2
<1>7. CreatesCount'
  BY DEF actionyVars, Served, CreatesCount, Q!Answered, Inserted, Own, ServiceOf
<1> QED
  BY <1>4, <1>5, <1>6, <1>7 DEF Served

\* so does one of actiony: a single service inserts what it counted no open
\* action for,
LEMMA CreateSteps ==
    ASSUME Inv, CreatesCount, NEW r \in Requests, Q!Step(r) \/ Q!Crash(r)
    PROVE  /\ Inserted(r)' => actionPc[r] \in {"insert", "commit"}
           /\ Single(Own(r)) => actionPc'[r] \notin {"begin", "select", "commit"}
           /\ Single(Own(r)) /\ actionPc'[r] = "insert" => A!ActiveOf(Own(r)) = {}
<1>0. /\ Q!TInv /\ ActionCalls /\ Q!Shape(r)
      /\ actionPc \in [Requests -> Q!Waiting \cup {"idle", "done", "dropped"}]
  BY ServersAssumed, Q!StepShape DEF Inv, Q!TInv, Q!TypeOK
<1>1. ~ Inserted(r)
  BY <1>0, OpenAfter
<1>2. Inserted(r)' => actionPc[r] \in {"insert", "commit"}
  <2>1. CASE Q!TableEffect(r)
    <3>1. Inserted(r)' => r \in Q!Rows'
      BY DEF Inserted, Q!Rows
    <3>2. r \notin Q!Rows
      BY <1>1 DEF Inserted, Q!Rows
    <3>3. \A a \in Q!Rows' : a \in Q!Rows \/ (a = r /\ actionPc[r] \in {"insert", "commit"})
      BY <1>0, <2>1, ServersAssumed, Q!RowEffects
    <3> QED
      BY <3>1, <3>2, <3>3
  <2>2. CASE ~ Q!Ends(r)
    BY <1>0, <1>1, <2>2, ServersAssumed, Q!ReadersWriteNothing DEF Inserted
  <2> QED
    BY <2>1, <2>2 DEF Q!Ends
<1>3. actionPc[r] \in {"fetch", "count"} => actionCall[r].serviceId = Own(r)
  BY <1>0 DEF Q!TInv, Q!KindsAgree, Q!CreateCall, ActionCalls
<1>4. Single(Own(r)) => actionPc[r] \notin {"begin", "select", "commit"}
  BY DEF CreatesCount
<1>5. ASSUME Single(Own(r))
      PROVE  /\ actionPc'[r] \notin {"begin", "select", "commit"}
             /\ actionPc'[r] = "insert" => Q!ActiveOf(Own(r)) = {}
  <2>1. CASE Q!Ends(r)
    BY <1>0, <2>1 DEF Q!Ends
  <2>2. CASE Q!Fetched(r)
    BY <1>0, <1>3, <1>5, <2>2 DEF Q!Fetched, Q!Goto, Single
  <2>3. CASE Q!Counted(r)
    BY <1>0, <1>3, <1>5, <2>3 DEF Q!Counted, Q!PassCount, Q!ExceedsLimitation, Single
  <2>4. CASE Q!ReplaceBegin(r) \/ Q!SelectedNone(r) \/ Q!SelectedLatest(r)
    BY <1>4, <1>5, <2>4 DEF Q!ReplaceBegin, Q!SelectedNone, Q!SelectedLatest, Q!At
  <2>5. CASE Q!Found(r)
    BY <1>0, <2>5 DEF Q!Found, Q!ReadsRow, Q!ReadRow
  <2> QED
    BY <1>0, <2>1, <2>2, <2>3, <2>4, <2>5 DEF Q!Shape
<1>6. Q!ActiveOf(Own(r)) = A!ActiveOf(Own(r))
  BY DEF Q!ActiveOf, A!ActiveOf, Q!Rows, A!Rows, Q!Active, A!Active
<1> QED
  BY <1>2, <1>5, <1>6

LEMMA ActionyServes ==
    ASSUME Inv, Served, scenario' = scenario, UNCHANGED lockyVars,
           NEW r \in Requests, Q!Step(r) \/ Q!Crash(r)
    PROVE  Served'
<1>0. Past /\ Q!TInv
  BY ActionyPast DEF Inv
<1>1. \A q \in Requests : Own(q)' = Own(q) /\ (Opposed(Own(q)) => Opposed(Own(q))')
  BY <1>0, OpposedStays DEF Own, ServiceOf
<1>2. Unasked' /\ FoundRemoved' /\ RefusedByOthers'
  BY <1>1 DEF Served, Unasked, FoundRemoved, RefusedByOthers, Unlocks, P!Answered, lockyVars
<1>3. CreatesCount'
  <2>1. \A q \in Requests \ {r} : actionPc'[q] = actionPc[q] /\ actionAnswer'[q] = actionAnswer[q]
    BY <1>0, ServersAssumed, Q!StepAnswers
  <2>2. Q!Answered(r, 201)' => Inserted(r)'
    <3>1. Q!Answered(r, 201)' => r \in Q!Rows'
      BY <1>0, ServersAssumed, Q!StepAnswers
    <3> QED
      BY <3>1 DEF Q!Rows, Inserted
  <2>3. Single(Own(r)) => actionPc'[r] \notin {"begin", "select", "commit"}
    BY CreateSteps DEF Served
  <2>4. \A q \in Requests : Single(Own(q))' <=> Single(Own(q))
    BY DEF Single, Own, ServiceOf
  <2> QED
    BY <1>0, <2>1, <2>2, <2>3, <2>4 DEF Served, CreatesCount, Past, Q!Answered
<1> QED
  BY <1>2, <1>3 DEF Served

\* and the arrival of a request answers nothing.
LEMMA SendingServes ==
    ASSUME Inv, Served, scenario' = scenario, Sending
    PROVE  Served'
<1>0. Past
  BY SendingPast DEF Served
<1>1. \A q \in Requests : Own(q)' = Own(q) /\ (Opposed(Own(q)) => Opposed(Own(q))')
  BY <1>0, OpposedStays DEF Own, ServiceOf
<1>2. \A q \in Requests : Single(Own(q))' <=> Single(Own(q))
  BY DEF Single, Own, ServiceOf
<1>3. CASE UNCHANGED lockyVars
  <2>1. Unasked' /\ FoundRemoved' /\ RefusedByOthers'
    BY <1>1, <1>3 DEF Served, Unasked, FoundRemoved, RefusedByOthers, Unlocks, P!Answered, lockyVars
  <2>2. CASE UNCHANGED actionyVars
    BY <1>2, <2>1, <2>2 DEF Served, CreatesCount, Q!Answered, Inserted, actionyVars
  <2>3. ASSUME NEW r \in Requests, SendsToActiony(r) PROVE Served'
    <3>1. PICK p \in {"fetch", "find"} : \E k : Q!Receive(r, p, k)
      BY <2>3 DEF SendsToActiony, Q!PostAction, Q!PatchAction
    <3>2. /\ UNCHANGED <<actions, actionAnswer>> /\ actionPc'[r] \in {"fetch", "find"}
          /\ \A q \in Requests : q # r => actionPc'[q] = actionPc[q]
      BY <3>1 DEF Q!Receive, Q!NoWrite, Inv, Q!TInv, Q!TypeOK
    <3> QED
      BY <1>2, <2>1, <3>2 DEF Served, CreatesCount, Q!Answered, Inserted
  <2>4. ASSUME NEW r \in Requests, SendsToLocky(r) PROVE UNCHANGED actionyVars
    BY <2>4 DEF SendsToLocky
  <2> QED
    BY <2>2, <2>3, <2>4 DEF Sending
<1>4. ASSUME NEW r \in Requests, SendsToLocky(r) PROVE Served'
  <2>1. PICK p \in {"check", "find"} : \E k, lr : P!Receive(r, p, k, lr)
    BY <1>4 DEF SendsToLocky, P!PostReserve, P!DeleteLockId
  <2>2. /\ lockPc[r] = "idle" /\ lockPc'[r] \in {"check", "find"} /\ UNCHANGED <<pending, lockAnswer>>
        /\ \A q \in Requests : q # r => lockCall'[q] = lockCall[q] /\ lockPc'[q] = lockPc[q]
    BY <2>1 DEF P!Receive, Inv, P!IInv, P!TypeOK
  <2>3. Unasked'
    BY <2>2 DEF Served, Unasked
  <2>4. FoundRemoved'
    <3> SUFFICES ASSUME NEW u \in Requests, lockCall'[u].kind = "unlock", P!Answered(u, 404)'
                 PROVE  \E v \in Requests \ {u} : Unlocks(v, lockCall[u].lockId)' /\ lockPc'[v] # "find"
      BY DEF FoundRemoved
    <3>1. u # r /\ P!Answered(u, 404) /\ lockCall'[u] = lockCall[u]
      BY <2>2 DEF P!Answered
    <3>2. PICK v \in Requests \ {u} : Unlocks(v, lockCall[u].lockId) /\ lockPc[v] # "find"
      BY <3>1 DEF Served, FoundRemoved
    <3> QED
      BY <1>0, <3>1, <3>2 DEF Past, Unlocks
  <2>5. RefusedByOthers'
    BY <1>1, <2>2 DEF Served, RefusedByOthers
  <2>6. CreatesCount'
    BY <1>2, <1>4 DEF SendsToLocky, actionyVars, Served, CreatesCount, Q!Answered, Inserted
  <2> QED
    BY <2>3, <2>4, <2>5, <2>6 DEF Served
<1> QED
  BY <1>3, <1>4 DEF Sending, SendsToActiony

-----------------------------------------------------------------------------
\* What an instance knows of its calls.

\* Every attempt of a call asks what the first one asked.
SentCall(c, n) ==
    \A k \in 1 .. calls[c][n].attempt :
        /\ Is(c, n, "reserveAccess") => lockCall[<<c, n, k>>].kind = "reserve"
        /\ Is(c, n, "removeLock") /\ calls[c][n].outcome # "resolved" =>
             Unlocks(<<c, n, k>>, lockCall[<<c, n, 1>>].lockId)
        /\ Is(c, n, "createAction") => actionCall[<<c, n, k>>].kind = "create"

\* An outcome is what the last attempt was answered.
Report(c, n) ==
    /\ Told(c, n, "reserveAccess") => P!Answered(Last(c, n), 201) \/ P!Answered(Last(c, n), 204)
    /\ Told(c, n, "createAction") => Q!Answered(Last(c, n), 201)
    /\ Is(c, n, "removeLock") /\ calls[c][n].outcome = "notFound" => P!Answered(Last(c, n), 404)
    /\ Is(c, n, "reserveAccess") /\ calls[c][n].outcome = "conflict" => P!Answered(Last(c, n), 409)

\* A call made while an earlier one is awaited overlaps it.
Ordered(c) == \A n \in Awaited(c), m \in Made(c) : n < m => <<c, n, m>> \in overlaps

\* The only reservation that was granted, while no removal overlapped it, is
\* what the instance remembers and what it asks to remove.
OnlyTold(c, n) ==
    /\ Told(c, n, "reserveAccess") /\ locks[Last(c, n)] # NoLock
    /\ \A m \in Made(c) : m # n => ~ Told(c, m, "reserveAccess")
    /\ \A m \in Made(c) : Is(c, m, "removeLock") => ~ Overlapped(c, m, n)

Remembers(c) ==
    \A n \in Made(c) : OnlyTold(c, n) =>
        /\ lockId[c] = Last(c, n)
        /\ \A m \in Awaited(c) : Is(c, m, "removeLock") => lockCall[<<c, m, 1>>].lockId = Last(c, n)

\* A later create of a single service is admitted only once the action of the
\* earlier one is closed.
Admitted(q) == actionPc[q] = "insert" \/ Inserted(q)

Succeeds(c) ==
    \A n, m \in Made(c) : \A k \in 1 .. calls[c][m].attempt :
        /\ Told(c, n, "createAction") /\ Is(c, m, "createAction")
        /\ n < m /\ <<c, n, m>> \notin overlaps /\ Admitted(<<c, m, k>>)
        => ~ Acting(Last(c, n))

Held(c) ==
    \A n \in Made(c) :
        Told(c, n, "createAction") /\ Acting(Last(c, n)) =>
            \/ actionId[c] = Last(c, n)
            \/ \E m \in Made(c) : Is(c, m, "createAction") /\ Overlapped(c, m, n)

Knows(c) ==
    /\ \A n \in Made(c) : SentCall(c, n) /\ Report(c, n)
    /\ Ordered(c)
    /\ Remembers(c)
    /\ Single(ServiceOf(c)) => Succeeds(c) /\ Held(c)

\* A single service admits a create only when no action of it stays open.
Cautious ==
    \A q, a \in Requests :
        /\ Single(Own(q)) /\ Own(a) = Own(q)
        /\ Inserted(a) /\ Acting(a)' /\ Admitted(q)'
        => Admitted(q)

LEMMA SendingCautious == ASSUME Inv, Sending PROVE Cautious
<1>1. CASE UNCHANGED actionyVars
  BY <1>1 DEF Cautious, Admitted, Inserted, actionyVars
<1>2. ASSUME NEW r \in Requests, SendsToActiony(r) PROVE Cautious
  <2>1. PICK p \in {"fetch", "find"} : \E k : Q!Receive(r, p, k)
    BY <1>2 DEF SendsToActiony, Q!PostAction, Q!PatchAction
  <2>2. /\ UNCHANGED actions /\ actionPc'[r] \in {"fetch", "find"}
        /\ \A q \in Requests : q # r => actionPc'[q] = actionPc[q]
    BY <2>1 DEF Q!Receive, Q!NoWrite, Inv, Q!TInv, Q!TypeOK
  <2> QED
    BY <2>2 DEF Cautious, Admitted, Inserted
<1> QED
  BY <1>1, <1>2 DEF Sending, SendsToLocky

LEMMA ActionyCautious ==
    ASSUME Inv, CreatesCount, NEW r \in Requests, Q!Step(r) \/ Q!Crash(r)
    PROVE  Cautious
<1> SUFFICES ASSUME NEW q \in Requests, NEW a \in Requests, Single(Own(q)), Own(a) = Own(q),
                    Inserted(a), Acting(a)', Admitted(q)', ~ Admitted(q)
             PROVE  FALSE
  BY DEF Cautious
<1>1. ActionCalls /\ Q!TInv
  BY DEF Inv
<1>2. Acting(a) /\ actions[a].serviceId = Own(a)
  BY <1>1, OpenAfter DEF ActionCalls
<1>3. q = r
  <2>1. \A p \in Requests \ {r} : actionPc'[p] = actionPc[p] /\ (Inserted(p)' => Inserted(p))
    BY <1>1, OpenAfter
  <2> QED
    BY <2>1 DEF Admitted
<1>4. a \in A!ActiveOf(Own(q))
  BY <1>2 DEF A!ActiveOf, A!Rows, Acting, A!Active
<1>5. actionPc'[r] = "insert" \/ actionPc[r] = "commit"
  BY <1>3, CreateSteps DEF Admitted
<1> QED
  BY <1>3, <1>4, <1>5, CreateSteps DEF CreatesCount

-----------------------------------------------------------------------------
\* How the calls of an instance change.

LEMMA CallTypes ==
    ASSUME CInv, NEW c \in Clients
    PROVE  /\ Made(c) = 1 .. Len(calls[c]) /\ Len(calls[c]) \in Nat
           /\ \A n \in Made(c) :
                /\ n \in Nat /\ calls[c][n] \in Record
                /\ calls[c][n].attempt \in Nat /\ calls[c][n].attempt >= 1
                /\ \A k \in 1 .. calls[c][n].attempt : <<c, n, k>> \in Requests
<1>1. scenario \in Scenarios /\ calls[c] \in Seq(Record) /\ scenario.retries \in Nat
      /\ Len(calls[c]) <= Len(Program(c)) /\ Len(Program(c)) \in Nat
  BY RequestTypes DEF CInv
<1>2. Made(c) = 1 .. Len(calls[c]) /\ Len(calls[c]) \in Nat
  BY <1>1, LenProperties DEF Made
<1>3. ASSUME NEW n \in Made(c)
      PROVE  /\ n \in Nat /\ calls[c][n] \in Record
             /\ calls[c][n].attempt \in Nat /\ calls[c][n].attempt >= 1
             /\ \A k \in 1 .. calls[c][n].attempt : <<c, n, k>> \in Requests
  <2>1. n \in 1 .. Len(calls[c]) /\ calls[c][n] \in Record
    BY <1>1, <1>2, ElementOfSeq
  <2>2. n \in 1 .. Len(Program(c)) /\ calls[c][n].attempt \in 1 .. scenario.retries + 1
    BY <1>1, <1>2, <2>1 DEF Record
  <2>3. \A k \in 1 .. calls[c][n].attempt : k \in 1 .. scenario.retries + 1
    BY <1>1, <2>2
  <2> QED
    BY <1>1, <2>1, <2>2, <2>3, RequestTypes
<1> QED
  BY <1>2, <1>3

LEMMA InvokeShape ==
    ASSUME CInv, NEW c \in Clients, NEW m, NEW o, Invoke(c, m, o), NEW N, N = Len(calls[c]) + 1
    PROVE  /\ \A d \in Clients \ {c} : calls'[d] = calls[d]
           /\ Made(c)' = Made(c) \cup {N} /\ N \in Nat
           /\ \A n \in Made(c) : n < N /\ calls'[c][n] = calls[c][n]
           /\ calls'[c][N] = [method |-> m, attempt |-> 1, outcome |-> o]
           /\ overlaps \subseteq overlaps' /\ \A n \in Awaited(c) : <<c, n, N>> \in overlaps'
           /\ UNCHANGED <<lockId, actionId>>
<1> DEFINE new == [method |-> m, attempt |-> 1, outcome |-> o]
<1>1. calls' = [calls EXCEPT ![c] = Append(calls[c], new)]
  BY DEF Invoke
<1>2. /\ calls \in [Clients -> Seq(Record)] /\ Made(c) = 1 .. Len(calls[c]) /\ Len(calls[c]) \in Nat
      /\ calls[c] \in Seq(Record)
  BY CallTypes DEF CInv
<1> HIDE DEF new
<1>3. /\ DOMAIN Append(calls[c], new) = 1 .. Len(calls[c]) + 1
      /\ Append(calls[c], new)[Len(calls[c]) + 1] = new
      /\ \A n \in 1 .. Len(calls[c]) : Append(calls[c], new)[n] = calls[c][n]
  <2>1. calls[c] \in Seq(Record \cup {new}) /\ new \in Record \cup {new}
    BY <1>2, SeqMonotonic
  <2> QED
    BY <1>2, <2>1, AppendProperties, LenProperties
<1>4. calls'[c] = Append(calls[c], new) /\ \A d \in Clients \ {c} : calls'[d] = calls[d]
  BY <1>1, <1>2
<1>5. Made(c)' = Made(c) \cup {N} /\ N \in Nat
  BY <1>2, <1>3, <1>4 DEF Made
<1>6. \A n \in Made(c) : n < N /\ calls'[c][n] = calls[c][n]
  BY <1>2, <1>3, <1>4
<1>7. calls'[c][N] = new
  BY <1>3, <1>4
<1>8. calls'[c][N] = [method |-> m, attempt |-> 1, outcome |-> o]
  BY <1>7 DEF new
<1>9. /\ overlaps \subseteq overlaps' /\ \A n \in Awaited(c) : <<c, n, N>> \in overlaps'
      /\ UNCHANGED <<lockId, actionId>>
  BY DEF Invoke
<1> QED
  BY <1>4, <1>5, <1>6, <1>8, <1>9

\* A call whose record stays is known as before.
LEMMA CallStays ==
    ASSUME CInv, Past, NEW c \in Clients, NEW n \in Made(c), calls'[c][n] = calls[c][n],
           SentCall(c, n), Report(c, n)
    PROVE  SentCall(c, n)' /\ Report(c, n)'
<1>1. /\ \A k \in 1 .. calls[c][n].attempt : <<c, n, k>> \in Requests
      /\ calls[c][n].attempt \in Nat /\ calls[c][n].attempt >= 1
  BY CallTypes
<1>2. Last(c, n) \in Requests /\ <<c, n, 1>> \in Requests /\ Last(c, n)' = Last(c, n)
  BY <1>1 DEF Last
<1>3. Report(c, n)'
  BY <1>2 DEF Report, Past, Told, Is, P!Answered, Q!Answered
<1>4. SentCall(c, n)'
  <2> SUFFICES ASSUME NEW k \in 1 .. calls[c][n].attempt
               PROVE  /\ Is(c, n, "reserveAccess") => lockCall'[<<c, n, k>>].kind = "reserve"
                      /\ Is(c, n, "removeLock") /\ calls[c][n].outcome # "resolved" =>
                           Unlocks(<<c, n, k>>, lockCall[<<c, n, 1>>].lockId)'
                      /\ Is(c, n, "createAction") => actionCall'[<<c, n, k>>].kind = "create"
    BY DEF SentCall, Is
  <2>1. <<c, n, k>> \in Requests /\ 1 \in 1 .. calls[c][n].attempt
    BY <1>1
  <2>2. Is(c, n, "removeLock") /\ calls[c][n].outcome # "resolved" =>
          lockCall[<<c, n, 1>>].kind = "unlock"
    BY <2>1 DEF SentCall, Unlocks
  <2> QED
    BY <1>2, <2>1, <2>2 DEF Past, SentCall, Unlocks
<1> QED
  BY <1>3, <1>4

-----------------------------------------------------------------------------
\* What an instance knows survives its own calls and everybody else's.

\* Calls are added and settled, never taken back.
Grows(c) ==
    /\ scenario' = scenario
    /\ Made(c) \subseteq Made(c)' /\ overlaps \subseteq overlaps'
    /\ \A n \in Made(c) :
         /\ calls'[c][n].method = calls[c][n].method
         /\ calls[c][n].outcome # "awaited" => calls'[c][n] = calls[c][n]

\* The reservation that is the only one granted was so before,
LEMMA OnlyToldBefore ==
    ASSUME CInv, Past, NEW c \in Clients, Grows(c), NEW n \in Made(c),
           calls[c][n].outcome # "awaited", Report(c, n), OnlyTold(c, n)'
    PROVE  OnlyTold(c, n) /\ Last(c, n)' = Last(c, n)
<1>1. calls'[c][n] = calls[c][n] /\ Last(c, n)' = Last(c, n) /\ Last(c, n) \in Requests
  BY AttemptsAreRequests DEF Grows, Last
<1>2. Told(c, n, "reserveAccess") /\ lockPc[Last(c, n)] = "done"
  BY <1>1 DEF OnlyTold, Told, Is, Report, P!Answered
<1>3. locks[Last(c, n)] # NoLock
  BY <1>1, <1>2 DEF OnlyTold, Past
<1>4. \A m \in Made(c) : m # n => ~ Told(c, m, "reserveAccess")
  <2> SUFFICES ASSUME NEW m \in Made(c), m # n, Told(c, m, "reserveAccess") PROVE FALSE
    OBVIOUS
  <2>1. m \in Made(c)' /\ calls'[c][m] = calls[c][m]
    BY DEF Grows, Told
  <2> QED
    BY <2>1 DEF OnlyTold, Told, Is
<1>5. \A m \in Made(c) : Is(c, m, "removeLock") => ~ Overlapped(c, m, n)
  BY DEF Grows, OnlyTold, Is, Overlapped
<1> QED
  BY <1>1, <1>2, <1>3, <1>4, <1>5 DEF OnlyTold

\* a create that was told has its row, which stays as open as it is,
LEMMA ToldCreate ==
    ASSUME CInv, Past, CreatesCount, NEW c \in Clients, NEW n \in Made(c),
           Report(c, n), Told(c, n, "createAction")
    PROVE  /\ Last(c, n) \in Requests /\ Own(Last(c, n)) = ServiceOf(c)
           /\ Inserted(Last(c, n)) /\ (Acting(Last(c, n))' => Acting(Last(c, n)) \/ calls'[c][n] # calls[c][n])
<1>1. Last(c, n) \in Requests /\ Inserted(Last(c, n)) /\ Own(Last(c, n)) = ServiceOf(c)
  BY AttemptsAreRequests DEF Report, CreatesCount, Own, Last
<1>2. calls'[c][n] = calls[c][n] => Last(c, n)' = Last(c, n)
  BY DEF Last
<1> QED
  BY <1>1, <1>2 DEF Past, Acting, A!Active

\* and later creates find it closed.
LEMMA SucceedsBefore ==
    ASSUME CInv, Past, Cautious, CreatesCount, NEW c \in Clients, Single(ServiceOf(c)), Succeeds(c),
           NEW n \in Made(c), Report(c, n), Told(c, n, "createAction"), calls'[c][n] = calls[c][n],
           NEW m \in Made(c), Is(c, m, "createAction"), n < m, <<c, n, m>> \notin overlaps,
           NEW k \in 1 .. calls[c][m].attempt, Admitted(<<c, m, k>>)'
    PROVE  ~ Acting(Last(c, n))'
<1>1. /\ <<c, m, k>> \in Requests /\ Own(<<c, m, k>>) = ServiceOf(c)
      /\ Last(c, n)' = Last(c, n)
  BY CallTypes DEF Own, Last
<1>2. /\ Last(c, n) \in Requests /\ Own(Last(c, n)) = ServiceOf(c) /\ Inserted(Last(c, n))
      /\ Acting(Last(c, n))' => Acting(Last(c, n))
  BY ToldCreate
<1>3. Admitted(<<c, m, k>>) => ~ Acting(Last(c, n))
  BY DEF Succeeds
<1>4. ASSUME NEW q \in Requests, NEW a \in Requests, q = <<c, m, k>>, a = Last(c, n)
      PROVE  ~ Acting(Last(c, n))'
  <2>1. Admitted(q)' /\ (Acting(Last(c, n))' => Acting(a)')
    BY <1>1, <1>4 DEF Admitted, Inserted, Acting, A!Active
  <2> QED
    BY <1>1, <1>2, <1>3, <1>4, <2>1 DEF Cautious
<1> QED
  BY <1>1, <1>2, <1>4

\* Nothing that others do touches what an instance knows.
LEMMA LeftAloneKnows ==
    ASSUME CInv, Past, Cautious, CreatesCount, NEW c \in Clients, Knows(c), Grows(c),
           calls'[c] = calls[c], lockId'[c] = lockId[c], actionId'[c] = actionId[c]
    PROVE  Knows(c)'
<1>1. Made(c)' = Made(c) /\ Awaited(c)' = Awaited(c) /\ ServiceOf(c)' = ServiceOf(c)
  BY DEF Made, Awaited, Grows, ServiceOf
<1>2. \A n \in Made(c) : SentCall(c, n)' /\ Report(c, n)'
  BY CallStays DEF Knows
<1>3. Ordered(c)'
  BY <1>1 DEF Knows, Ordered, Grows
<1>4. Remembers(c)'
  <2> SUFFICES ASSUME NEW n \in Made(c), OnlyTold(c, n)'
               PROVE  /\ lockId'[c] = Last(c, n)'
                      /\ \A m \in Awaited(c) : Is(c, m, "removeLock") =>
                           lockCall'[<<c, m, 1>>].lockId = Last(c, n)'
    BY <1>1 DEF Remembers, Is
  <2>1. OnlyTold(c, n) /\ Last(c, n)' = Last(c, n)
    <3>1. calls[c][n].outcome # "awaited"
      BY DEF OnlyTold, Told
    <3> QED
      BY <3>1, OnlyToldBefore DEF Knows
  <2>2. ASSUME NEW m \in Awaited(c), Is(c, m, "removeLock")
        PROVE  lockCall'[<<c, m, 1>>] = lockCall[<<c, m, 1>>]
    <3>1. m \in Made(c) /\ calls[c][m].outcome # "resolved"
      BY DEF Awaited
    <3>2. <<c, m, 1>> \in Requests /\ 1 \in 1 .. calls[c][m].attempt
      BY <3>1, CallTypes
    <3>3. lockCall[<<c, m, 1>>].kind = "unlock"
      BY <2>2, <3>1, <3>2 DEF Knows, SentCall, Unlocks
    <3> QED
      BY <3>2, <3>3 DEF Past
  <2> QED
    BY <2>1, <2>2 DEF Knows, Remembers
<1>5. ASSUME Single(ServiceOf(c)) PROVE Succeeds(c)' /\ Held(c)'
  <2>1. \A n \in Made(c) : Told(c, n, "createAction") =>
          Last(c, n)' = Last(c, n) /\ (Acting(Last(c, n))' => Acting(Last(c, n)))
    BY ToldCreate DEF Knows, Last
  <2>2. Held(c)'
    BY <1>1, <1>5, <2>1 DEF Knows, Held, Told, Is, Overlapped, Grows
  <2>3. Succeeds(c)'
    BY <1>1, <1>5, SucceedsBefore DEF Knows, Succeeds, Told, Is, Grows
  <2> QED
    BY <2>2, <2>3
<1> QED
  BY <1>1, <1>2, <1>3, <1>4, <1>5 DEF Knows, Single

\* A call that is made is known by its first attempt, and overlaps what is awaited.
LEMMA InvokeKnows ==
    ASSUME CInv, CInv', Past, Cautious, CreatesCount, NEW c \in Clients, Knows(c),
           NEW m \in Methods, NEW o \in {"awaited", "resolved"}, Invoke(c, m, o),
           o = "resolved" => m \in {"removeLock", "updateAction"},
           NEW N, N = Len(calls[c]) + 1, SentCall(c, N)',
           m = "removeLock" /\ o = "awaited" => lockCall'[<<c, N, 1>>].lockId = lockId[c],
           m = "createAction" => ~ Admitted(<<c, N, 1>>)'
    PROVE  Knows(c)'
<1>1. /\ Made(c)' = Made(c) \cup {N} /\ N \in Nat
      /\ \A n \in Made(c) : n < N /\ calls'[c][n] = calls[c][n]
      /\ calls'[c][N] = [method |-> m, attempt |-> 1, outcome |-> o]
      /\ overlaps \subseteq overlaps' /\ \A n \in Awaited(c) : <<c, n, N>> \in overlaps'
      /\ UNCHANGED <<lockId, actionId>>
  BY InvokeShape
<1>2. /\ calls'[c][N].method = m /\ calls'[c][N].attempt = 1 /\ calls'[c][N].outcome = o
      /\ \A n \in Made(c) : n \in Nat
  BY <1>1, CallTypes
<1>3. Grows(c) /\ ServiceOf(c)' = ServiceOf(c)
  BY <1>1 DEF Grows, Past, ServiceOf
<1>4. \A n \in Made(c)' : SentCall(c, n)' /\ Report(c, n)'
  <2>1. Report(c, N)'
    BY <1>2 DEF Report, Told, Is
  <2>2. \A n \in Made(c) : SentCall(c, n)' /\ Report(c, n)'
    BY <1>1, CallStays DEF Knows
  <2> QED
    BY <1>1, <2>1, <2>2
<1>5. Ordered(c)'
  <2> SUFFICES ASSUME NEW n \in Made(c)', calls'[c][n].outcome = "awaited", NEW k \in Made(c)', n < k
               PROVE  <<c, n, k>> \in overlaps'
    BY DEF Ordered, Awaited
  <2>1. n \in Made(c)
    BY <1>1, <1>2
  <2>2. n \in Awaited(c)
    BY <1>1, <2>1 DEF Awaited
  <2> QED
    BY <1>1, <2>2 DEF Knows, Ordered
<1>6. Remembers(c)'
  <2> SUFFICES ASSUME NEW n \in Made(c)', OnlyTold(c, n)'
               PROVE  /\ lockId'[c] = Last(c, n)'
                      /\ \A k \in Made(c)' : calls'[c][k].outcome = "awaited" /\ calls'[c][k].method = "removeLock" =>
                           lockCall'[<<c, k, 1>>].lockId = Last(c, n)'
    BY DEF Remembers, Is, Awaited
  <2>0. n \in Made(c) /\ calls[c][n].outcome # "awaited"
    BY <1>1 DEF OnlyTold, Told, Is
  <2>1. OnlyTold(c, n) /\ Last(c, n)' = Last(c, n)
    BY <1>3, <2>0, OnlyToldBefore DEF Knows
  <2>2. lockId[c] = Last(c, n) /\ lockId' = lockId
    BY <1>1, <2>0, <2>1 DEF Knows, Remembers
  <2>3. ASSUME NEW k \in Made(c), calls[c][k].outcome = "awaited", calls[c][k].method = "removeLock"
        PROVE  lockCall'[<<c, k, 1>>].lockId = Last(c, n)
    <3>1. <<c, k, 1>> \in Requests /\ 1 \in 1 .. calls[c][k].attempt
      BY CallTypes
    <3>2. lockCall[<<c, k, 1>>].kind = "unlock"
      BY <2>3, <3>1 DEF Knows, SentCall, Unlocks, Is
    <3>3. lockCall[<<c, k, 1>>].lockId = Last(c, n)
      BY <2>0, <2>1, <2>3 DEF Knows, Remembers, Awaited, Is
    <3> QED
      BY <3>1, <3>2, <3>3 DEF Past
  <2>4. ASSUME calls'[c][N].outcome = "awaited", calls'[c][N].method = "removeLock"
        PROVE  lockCall'[<<c, N, 1>>].lockId = Last(c, n)
    BY <1>1, <1>2, <2>2, <2>4
  <2> QED
    BY <1>1, <2>1, <2>2, <2>3, <2>4
<1>7. ASSUME Single(ServiceOf(c)) PROVE Succeeds(c)' /\ Held(c)'
  <2>1. \A n \in Made(c) : Told(c, n, "createAction") =>
          Last(c, n)' = Last(c, n) /\ (Acting(Last(c, n))' => Acting(Last(c, n)))
    BY <1>1, ToldCreate DEF Knows, Last
  <2>2. \A n \in Made(c)' : Told(c, n, "createAction")' => n \in Made(c) /\ Told(c, n, "createAction")
    BY <1>1 DEF Told, Is
  <2>3. Held(c)'
    <3> SUFFICES ASSUME NEW n \in Made(c), Told(c, n, "createAction"), Acting(Last(c, n))
                 PROVE  \/ actionId[c] = Last(c, n)
                        \/ \E k \in Made(c) : Is(c, k, "createAction") /\ Overlapped(c, k, n)
      BY <1>1, <2>1, <2>2 DEF Held, Is, Overlapped
    <3> QED
      BY <1>7 DEF Knows, Held
  <2>4. Succeeds(c)'
    <3> SUFFICES ASSUME NEW n \in Made(c)', NEW k \in Made(c)', NEW j \in 1 .. calls'[c][k].attempt,
                        Told(c, n, "createAction")', calls'[c][k].method = "createAction",
                        n < k, <<c, n, k>> \notin overlaps', Admitted(<<c, k, j>>)'
                 PROVE  ~ Acting(Last(c, n))'
      BY DEF Succeeds, Is
    <3>1. n \in Made(c) /\ Told(c, n, "createAction") /\ calls'[c][n] = calls[c][n]
      BY <1>1, <2>2
    <3>2. CASE k \in Made(c)
      BY <1>1, <1>7, <3>1, <3>2, SucceedsBefore DEF Knows, Is
    <3>3. CASE k = N
      <4>1. m = "createAction" /\ j = 1
        BY <1>1, <3>3
      <4> QED
        BY <1>2, <3>3, <4>1
    <3> QED
      BY <1>1, <3>2, <3>3
  <2> QED
    BY <2>3, <2>4
<1> QED
  BY <1>3, <1>4, <1>5, <1>6, <1>7 DEF Knows, Single

\* An answer that arrives is reported, and what it says of the lock or the
\* action is remembered.
Settles(c, n) ==
    \/ ReserveResolves(c, n) \/ RemoveResolves(c, n)
    \/ CreateResolves(c, n) \/ UpdateResolves(c, n)
    \/ (\E code \in {404, 409, 500} : Refused(c, n, code))
    \/ GivesUp(c, n)

LEMMA SettleShape ==
    ASSUME CInv, NEW c \in Clients, NEW n \in Awaited(c), NEW o, Ends(c, n, o)
    PROVE  /\ \A d \in Clients \ {c} : calls'[d] = calls[d]
           /\ Made(c)' = Made(c)
           /\ \A m \in Made(c) \ {n} : calls'[c][m] = calls[c][m]
           /\ calls'[c][n].method = calls[c][n].method
           /\ calls'[c][n].attempt = calls[c][n].attempt
           /\ calls'[c][n].outcome = o
           /\ UNCHANGED <<overlaps, late, lockyVars, actionyVars>>
<1> DEFINE new == [calls[c][n] EXCEPT !.outcome = o]
<1>1. n \in Made(c) /\ calls[c][n] \in Record
  BY CallTypes DEF Awaited
<1>2. calls' = [calls EXCEPT ![c][n] = new]
  BY DEF Ends
<1> HIDE DEF new
<1>3. /\ \A d \in Clients \ {c} : calls'[d] = calls[d]
      /\ Made(c)' = Made(c)
      /\ \A m \in Made(c) \ {n} : calls'[c][m] = calls[c][m]
      /\ calls'[c][n] = new
  <2>1. calls'[c] = [calls[c] EXCEPT ![n] = new] /\ \A d \in Clients \ {c} : calls'[d] = calls[d]
    BY <1>2 DEF CInv
  <2> QED
    BY <1>1, <2>1 DEF Made
<1>4. /\ new.method = calls[c][n].method
      /\ new.attempt = calls[c][n].attempt
      /\ new.outcome = o
  BY <1>1 DEF new, Record
<1>5. UNCHANGED <<overlaps, late, lockyVars, actionyVars>>
  BY DEF Ends
<1> QED
  BY <1>3, <1>4, <1>5

LEMMA SettleKnows ==
    ASSUME Inv, CreatesCount, NEW c \in Clients, Knows(c), NEW n \in Awaited(c),
           scenario' = scenario, Settles(c, n)
    PROVE  Knows(c)'
<1>0. CInv /\ P!RowInv /\ n \in Made(c) /\ calls[c][n].outcome = "awaited"
  BY DEF Inv, Awaited
<1>1. PICK o \in {"resolved", "notFound", "conflict", "failed"} : Ends(c, n, o)
  BY DEF Settles, ReserveResolves, RemoveResolves, CreateResolves, UpdateResolves, Refused, GivesUp
<1>2. /\ Made(c)' = Made(c)
      /\ \A m \in Made(c) \ {n} : calls'[c][m] = calls[c][m]
      /\ calls'[c][n].method = calls[c][n].method
      /\ calls'[c][n].attempt = calls[c][n].attempt
      /\ calls'[c][n].outcome = o
      /\ UNCHANGED <<overlaps, late, lockyVars, actionyVars>>
  BY <1>0, <1>1, SettleShape
<1>3. Past /\ Cautious /\ Grows(c) /\ ServiceOf(c)' = ServiceOf(c)
  <2>1. Past /\ Cautious
    BY <1>2 DEF Past, lockyVars, actionyVars, Inserted, Acting, A!Active, Cautious, Admitted
  <2> QED
    BY <1>0, <1>2, <2>1 DEF Grows, ServiceOf
<1>4. Last(c, n)' = Last(c, n) /\ \A m \in Made(c) : Last(c, m)' = Last(c, m)
  BY <1>2 DEF Last
<1>5. /\ Told(c, n, "reserveAccess")' =>
           /\ ReserveResolves(c, n)
           /\ P!Answered(Last(c, n), 201) \/ P!Answered(Last(c, n), 204)
      /\ Told(c, n, "createAction")' => CreateResolves(c, n) /\ Q!Answered(Last(c, n), 201)
      /\ Is(c, n, "removeLock") /\ o = "notFound" => P!Answered(Last(c, n), 404)
      /\ Is(c, n, "reserveAccess") /\ o = "conflict" => P!Answered(Last(c, n), 409)
  <2>0. /\ \A q, code : L!Answered(q, code) = P!Answered(q, code)
        /\ \A q, code : A!Answered(q, code) = Q!Answered(q, code)
    BY SameLocky DEF A!Answered, Q!Answered
  <2>1. CASE ReserveResolves(c, n) \/ RemoveResolves(c, n) \/ CreateResolves(c, n) \/ UpdateResolves(c, n)
    <3>1. calls'[c][n].outcome = "resolved"
      BY <1>0, <2>1, SettleShape DEF ReserveResolves, RemoveResolves, CreateResolves, UpdateResolves
    <3> QED
      BY <1>2, <2>0, <2>1, <3>1 DEF ReserveResolves, RemoveResolves, CreateResolves, UpdateResolves,
         Told, Is
  <2>2. ASSUME NEW code \in {404, 409, 500}, Refused(c, n, code)
        PROVE  /\ o # "resolved"
               /\ Is(c, n, "removeLock") /\ o = "notFound" => P!Answered(Last(c, n), 404)
               /\ Is(c, n, "reserveAccess") /\ o = "conflict" => P!Answered(Last(c, n), 409)
    <3>1. o = IF code = 404 THEN "notFound" ELSE IF code = 409 THEN "conflict" ELSE "failed"
      BY <1>0, <1>2, <2>2, SettleShape DEF Refused
    <3>2. ToLocky(c, n) => P!Answered(Last(c, n), code)
      BY <2>0, <2>2 DEF Refused
    <3> QED
      BY <2>2, <3>1, <3>2 DEF ToLocky, Is
  <2>3. CASE GivesUp(c, n)
    <3>1. o = "failed"
      BY <1>0, <1>2, <2>3, SettleShape DEF GivesUp
    <3> QED
      BY <1>2, <3>1 DEF Told, Is
  <2> QED
    BY <1>2, <2>1, <2>2, <2>3 DEF Settles, Told
<1>6. \A m \in Made(c)' : SentCall(c, m)' /\ Report(c, m)'
  <2>1. Report(c, n)'
    BY <1>2, <1>4, <1>5 DEF Report, Told, Is, P!Answered, Q!Answered, lockyVars, actionyVars
  <2>2. SentCall(c, n)'
    BY <1>0, <1>2 DEF Knows, SentCall, Is, Unlocks, lockyVars, actionyVars
  <2> QED
    BY <1>0, <1>2, <1>3, <2>1, <2>2, CallStays DEF Knows
<1>7. \A m \in Awaited(c)' : m \in Awaited(c) /\ m # n /\ calls'[c][m] = calls[c][m]
  BY <1>2 DEF Awaited
<1>8. Ordered(c)'
  BY <1>2, <1>7 DEF Knows, Ordered
<1>9. Remembers(c)'
  <2> SUFFICES ASSUME NEW k \in Made(c), OnlyTold(c, k)'
               PROVE  /\ lockId'[c] = Last(c, k)
                      /\ \A m \in Awaited(c)' : calls'[c][m].method = "removeLock" =>
                           lockCall[<<c, m, 1>>].lockId = Last(c, k)
    BY <1>2, <1>4 DEF Remembers, Is, lockyVars
  <2>1. CASE k = n
    <3>1. ReserveResolves(c, n) /\ (P!Answered(Last(c, n), 201) \/ P!Answered(Last(c, n), 204))
      BY <1>5, <2>1 DEF OnlyTold
    <3>2. locks[Last(c, n)] # NoLock /\ Last(c, n) \in Requests
      BY <1>0, <1>2, <1>4, <2>1, AttemptsAreRequests DEF OnlyTold, lockyVars
    <3>3. ~ P!Answered(Last(c, n), 204)
      BY <1>0, <3>2 DEF P!RowInv, P!RefusalLeavesNoRow
    <3>4. lockId' = [lockId EXCEPT ![c] = Last(c, n)]
      BY <3>1, <3>3, SameLocky DEF ReserveResolves
    <3>5. lockId'[c] = Last(c, n)
      BY <1>0, <3>4 DEF CInv
    <3>6. ASSUME NEW m \in Awaited(c)', calls'[c][m].method = "removeLock" PROVE FALSE
      <4>1. m \in Awaited(c) /\ m \in Made(c) /\ m # n /\ m \in Nat /\ n \in Nat
        BY <1>0, <1>7, CallTypes DEF Awaited
      <4>2. <<c, m, n>> \in overlaps \/ <<c, n, m>> \in overlaps
        BY <1>0, <4>1 DEF Knows, Ordered
      <4> QED
        BY <1>2, <2>1, <3>6, <4>1, <4>2 DEF OnlyTold, Is, Overlapped
    <3> QED
      BY <2>1, <3>5, <3>6
  <2>2. CASE k # n
    <3>1. calls[c][k].outcome # "awaited" /\ Told(c, k, "reserveAccess")
      BY <1>2, <2>2 DEF OnlyTold, Told, Is
    <3>2. OnlyTold(c, k)
      BY <1>0, <1>3, <3>1, OnlyToldBefore DEF Knows
    <3>3. ~ ReserveResolves(c, n)
      <4>1. SUFFICES ASSUME ReserveResolves(c, n) PROVE FALSE
        OBVIOUS
      <4>2. Told(c, n, "reserveAccess")'
        BY <1>0, <1>2, <4>1, SettleShape DEF ReserveResolves, Told, Is
      <4> QED
        BY <1>0, <1>2, <2>2, <4>2 DEF OnlyTold
    <3>4. ~ RemoveResolves(c, n)
      <4>1. SUFFICES ASSUME RemoveResolves(c, n) PROVE FALSE
        OBVIOUS
      <4>2. Is(c, n, "removeLock") /\ P!Answered(Last(c, n), 204) /\ Last(c, n) \in Requests
        BY <1>0, <4>1, SameLocky, AttemptsAreRequests DEF RemoveResolves
      <4>3. lockCall[<<c, n, 1>>].lockId = Last(c, k)
        BY <3>2, <4>2 DEF Knows, Remembers
      <4>4. calls[c][n].attempt \in 1 .. calls[c][n].attempt
        BY <1>0, CallTypes
      <4>5. Unlocks(Last(c, n), Last(c, k))
        BY <1>0, <4>2, <4>3, <4>4 DEF Knows, SentCall, Last
      <4>6. locks[Last(c, k)] = NoLock
        BY <1>0, <4>2, <4>5 DEF P!RowInv, P!ReleasedStaysReleased, Unlocks
      <4> QED
        BY <3>2, <4>6 DEF OnlyTold
    <3>5. UNCHANGED lockId
      BY <3>3, <3>4 DEF Settles, CreateResolves, UpdateResolves, Refused, GivesUp, Keeps
    <3> QED
      BY <1>7, <3>2, <3>5 DEF Knows, Remembers, Is
  <2> QED
    BY <2>1, <2>2
<1>10. ASSUME Single(ServiceOf(c)) PROVE Succeeds(c)' /\ Held(c)'
  <2>1. \A k \in Made(c) : \A m \in Made(c) : k \in Nat /\ m \in Nat
    BY <1>0, CallTypes
  <2>2. Held(c)'
    <3> SUFFICES ASSUME NEW k \in Made(c), Told(c, k, "createAction")', Acting(Last(c, k))
                 PROVE  \/ actionId'[c] = Last(c, k)
                        \/ \E m \in Made(c) : Is(c, m, "createAction") /\ Overlapped(c, m, k)
      BY <1>2, <1>4 DEF Held, Is, Overlapped, Acting, A!Active, actionyVars
    <3>1. CASE CreateResolves(c, n)
      <4>1. actionId'[c] = Last(c, n) /\ Is(c, n, "createAction") /\ Q!Answered(Last(c, n), 201)
        BY <1>0, <3>1 DEF CreateResolves, CInv, A!Answered, Q!Answered
      <4>2. CASE k # n /\ k < n
        <5>1. Told(c, k, "createAction")
          BY <1>2, <4>2 DEF Told, Is
        <5>2. Admitted(Last(c, n))
          BY <1>0, <4>1, AttemptsAreRequests DEF CreatesCount, Admitted
        <5>3. calls[c][n].attempt \in 1 .. calls[c][n].attempt
          BY <1>0, CallTypes
        <5>4. <<c, k, n>> \in overlaps
          BY <1>0, <1>10, <4>1, <4>2, <5>1, <5>2, <5>3 DEF Knows, Succeeds, Last
        <5> QED
          BY <1>0, <4>1, <5>4 DEF Overlapped
      <4>3. CASE k # n /\ n < k
        BY <1>0, <4>1, <4>3 DEF Knows, Ordered, Overlapped
      <4> QED
        BY <1>0, <2>1, <4>1, <4>2, <4>3
    <3>2. CASE ~ CreateResolves(c, n)
      <4>1. k # n
        BY <1>5, <3>2
      <4>2. Told(c, k, "createAction")
        BY <1>2, <4>1 DEF Told, Is
      <4>3. UNCHANGED actionId
        BY <3>2 DEF Settles, ReserveResolves, RemoveResolves, UpdateResolves, Refused, GivesUp, Keeps
      <4> QED
        BY <1>10, <4>2, <4>3 DEF Knows, Held
    <3> QED
      BY <3>1, <3>2
  <2>3. Succeeds(c)'
    <3> SUFFICES ASSUME NEW k \in Made(c), NEW m \in Made(c), NEW j \in 1 .. calls[c][m].attempt,
                        Told(c, k, "createAction")', Is(c, m, "createAction"),
                        k < m, <<c, k, m>> \notin overlaps, Admitted(<<c, m, j>>)
                 PROVE  ~ Acting(Last(c, k))
      BY <1>2, <1>4 DEF Succeeds, Is, Admitted, Inserted, Acting, A!Active, actionyVars
    <3>1. k # n
      BY <1>0 DEF Knows, Ordered
    <3>2. Told(c, k, "createAction")
      BY <1>2, <3>1 DEF Told, Is
    <3> QED
      BY <1>10, <3>2 DEF Knows, Succeeds
  <2> QED
    BY <2>2, <2>3
<1> QED
  BY <1>3, <1>6, <1>8, <1>9, <1>10 DEF Knows, Single

\* A call that is sent again asks once more what it asked first.
Again(c, n) == calls' = [calls EXCEPT ![c][n].attempt = @ + 1]

LEMMA AgainShape ==
    ASSUME CInv, NEW c \in Clients, NEW n \in Awaited(c), NEW k, k = calls[c][n].attempt + 1,
           Again(c, n)
    PROVE  /\ \A d \in Clients \ {c} : calls'[d] = calls[d]
           /\ Made(c)' = Made(c)
           /\ \A m \in Made(c) \ {n} : calls'[c][m] = calls[c][m]
           /\ calls'[c][n].method = calls[c][n].method
           /\ calls'[c][n].attempt = k
           /\ calls'[c][n].outcome = "awaited"
<1> DEFINE new == [calls[c][n] EXCEPT !.attempt = @ + 1]
<1>1. n \in Made(c) /\ calls[c][n] \in Record /\ calls[c][n].outcome = "awaited"
  BY CallTypes DEF Awaited
<1>2. calls' = [calls EXCEPT ![c][n] = new]
  BY DEF Again
<1>3. /\ new.method = calls[c][n].method
      /\ new.attempt = k
      /\ new.outcome = "awaited"
  BY <1>1 DEF Record
<1> HIDE DEF new
<1>4. calls'[c] = [calls[c] EXCEPT ![n] = new] /\ \A d \in Clients \ {c} : calls'[d] = calls[d]
  BY <1>2 DEF CInv
<1>5. Made(c)' = Made(c) /\ calls'[c][n] = new
      /\ \A m \in Made(c) \ {n} : calls'[c][m] = calls[c][m]
  BY <1>1, <1>4 DEF Made
<1> QED
  BY <1>3, <1>4, <1>5

LEMMA AgainKnows ==
    ASSUME CInv, Past, Cautious, CreatesCount, NEW c \in Clients, Knows(c), NEW n \in Awaited(c),
           NEW k, k = calls[c][n].attempt + 1,
           Again(c, n), UNCHANGED <<lockId, actionId, overlaps>>,
           Is(c, n, "reserveAccess") => lockCall'[<<c, n, k>>].kind = "reserve",
           Is(c, n, "removeLock") =>
             /\ lockCall'[<<c, n, k>>].kind = "unlock"
             /\ lockCall'[<<c, n, k>>].lockId = lockCall[<<c, n, 1>>].lockId,
           Is(c, n, "createAction") =>
             actionCall'[<<c, n, k>>].kind = "create" /\ ~ Admitted(<<c, n, k>>)'
    PROVE  Knows(c)'
<1>0. n \in Made(c) /\ calls[c][n].outcome = "awaited" /\ n \in Nat /\ calls[c][n].attempt \in Nat
      /\ calls[c][n].attempt >= 1 /\ k \in Nat
  BY CallTypes DEF Awaited
<1>1. /\ Made(c)' = Made(c)
      /\ \A m \in Made(c) \ {n} : calls'[c][m] = calls[c][m]
      /\ calls'[c][n].method = calls[c][n].method
      /\ calls'[c][n].attempt = k
      /\ calls'[c][n].outcome = "awaited"
  BY AgainShape
<1>2. Grows(c) /\ ServiceOf(c)' = ServiceOf(c)
  BY <1>0, <1>1 DEF Grows, Past, ServiceOf
<1>3. Awaited(c)' = Awaited(c) /\ \A m \in Made(c) : calls'[c][m].method = calls[c][m].method
  BY <1>0, <1>1 DEF Awaited
<1>4. \A m \in Awaited(c) : calls[c][m].method = "removeLock" =>
        /\ lockCall[<<c, m, 1>>].kind = "unlock"
        /\ lockCall'[<<c, m, 1>>] = lockCall[<<c, m, 1>>]
  <2> SUFFICES ASSUME NEW m \in Awaited(c), calls[c][m].method = "removeLock"
               PROVE  /\ lockCall[<<c, m, 1>>].kind = "unlock"
                      /\ lockCall'[<<c, m, 1>>] = lockCall[<<c, m, 1>>]
    OBVIOUS
  <2>1. m \in Made(c) /\ calls[c][m].outcome # "resolved"
    BY DEF Awaited
  <2>2. <<c, m, 1>> \in Requests /\ 1 \in 1 .. calls[c][m].attempt
    BY <2>1, CallTypes
  <2>3. lockCall[<<c, m, 1>>].kind = "unlock"
    BY <2>1, <2>2 DEF Knows, SentCall, Unlocks, Is
  <2> QED
    BY <2>2, <2>3 DEF Past
<1>5. SentCall(c, n)'
  <2> SUFFICES ASSUME NEW j \in 1 .. k
               PROVE  /\ Is(c, n, "reserveAccess") => lockCall'[<<c, n, j>>].kind = "reserve"
                      /\ Is(c, n, "removeLock") =>
                           /\ lockCall'[<<c, n, j>>].kind = "unlock"
                           /\ lockCall'[<<c, n, j>>].lockId = lockCall[<<c, n, 1>>].lockId
                      /\ Is(c, n, "createAction") => actionCall'[<<c, n, j>>].kind = "create"
    BY <1>1, <1>4 DEF SentCall, Is, Unlocks
  <2>1. CASE j = k
    BY <2>1
  <2>2. CASE j # k
    <3>1. j \in 1 .. calls[c][n].attempt
      BY <1>0, <2>2
    <3>2. <<c, n, j>> \in Requests
      BY <1>0, <3>1, CallTypes
    <3>3. /\ Is(c, n, "reserveAccess") => lockCall[<<c, n, j>>].kind = "reserve"
          /\ Is(c, n, "removeLock") =>
               /\ lockCall[<<c, n, j>>].kind = "unlock"
               /\ lockCall[<<c, n, j>>].lockId = lockCall[<<c, n, 1>>].lockId
          /\ Is(c, n, "createAction") => actionCall[<<c, n, j>>].kind = "create"
      BY <1>0, <3>1 DEF Knows, SentCall, Unlocks
    <3> QED
      BY <3>2, <3>3 DEF Past
  <2> QED
    BY <2>1, <2>2
<1>6. \A m \in Made(c)' : SentCall(c, m)' /\ Report(c, m)'
  <2>1. Report(c, n)'
    BY <1>1 DEF Report, Told, Is
  <2>2. \A m \in Made(c) \ {n} : SentCall(c, m)' /\ Report(c, m)'
    BY <1>1, CallStays DEF Knows
  <2> QED
    BY <1>1, <1>5, <2>1, <2>2
<1>7. Ordered(c)'
  BY <1>1, <1>3 DEF Knows, Ordered
<1>8. Remembers(c)'
  <2> SUFFICES ASSUME NEW m \in Made(c), OnlyTold(c, m)'
               PROVE  /\ lockId'[c] = Last(c, m)'
                      /\ \A j \in Awaited(c) : calls[c][j].method = "removeLock" =>
                           lockCall'[<<c, j, 1>>].lockId = Last(c, m)'
    BY <1>1, <1>3 DEF Remembers, Is, Awaited
  <2>1. calls[c][m].outcome # "awaited"
    BY <1>0, <1>1 DEF OnlyTold, Told
  <2>2. OnlyTold(c, m) /\ Last(c, m)' = Last(c, m)
    BY <1>2, <2>1, OnlyToldBefore DEF Knows
  <2> QED
    BY <1>4, <2>2 DEF Knows, Remembers, Is
<1>9. ASSUME Single(ServiceOf(c)) PROVE Succeeds(c)' /\ Held(c)'
  <2>1. \A m \in Made(c) : Told(c, m, "createAction")' =>
          m # n /\ Told(c, m, "createAction") /\ calls'[c][m] = calls[c][m]
    BY <1>1 DEF Told, Is
  <2>2. \A m \in Made(c) : Told(c, m, "createAction")' =>
          Last(c, m)' = Last(c, m) /\ (Acting(Last(c, m))' => Acting(Last(c, m)))
    BY <2>1, ToldCreate DEF Knows, Last
  <2>3. Held(c)'
    <3> SUFFICES ASSUME NEW m \in Made(c), Told(c, m, "createAction")', Acting(Last(c, m))'
                 PROVE  \/ actionId[c] = Last(c, m)
                        \/ \E j \in Made(c) : Is(c, j, "createAction") /\ Overlapped(c, j, m)
      BY <1>1, <1>3, <2>2 DEF Held, Is, Overlapped
    <3> QED
      BY <1>9, <2>1, <2>2 DEF Knows, Held
  <2>4. Succeeds(c)'
    <3> SUFFICES ASSUME NEW m \in Made(c), NEW l \in Made(c), NEW j \in 1 .. calls'[c][l].attempt,
                        Told(c, m, "createAction")', Is(c, l, "createAction"),
                        m < l, <<c, m, l>> \notin overlaps, Admitted(<<c, l, j>>)'
                 PROVE  ~ Acting(Last(c, m))'
      BY <1>1, <1>3 DEF Succeeds, Is
    <3>1. Told(c, m, "createAction") /\ calls'[c][m] = calls[c][m] /\ Report(c, m)
      BY <2>1 DEF Knows
    <3>2. j \in 1 .. calls[c][l].attempt
      <4>1. CASE l # n
        BY <1>1, <4>1
      <4>2. CASE l = n /\ j # k
        BY <1>0, <1>1, <4>2
      <4> QED
        BY <4>1, <4>2
    <3> QED
      BY <1>9, <3>1, <3>2, SucceedsBefore DEF Knows
  <2> QED
    BY <2>3, <2>4
<1> QED
  BY <1>2, <1>6, <1>7, <1>8, <1>9 DEF Knows, Single

-----------------------------------------------------------------------------
\* The steps of an instance.

\* What a server received,
LEMMA LockyReceives ==
    ASSUME P!TypeOK, NEW q \in Requests
    PROVE  /\ \A s : P!PostReserve(q, s) => lockCall'[q].kind = "reserve"
           /\ \A l : P!DeleteLockId(q, l) => lockCall'[q].kind = "unlock" /\ lockCall'[q].lockId = l
           /\ (\E s : P!PostReserve(q, s)) \/ (\E l : P!DeleteLockId(q, l)) =>
                \A r \in Requests \ {q} : lockCall'[r] = lockCall[r]
  BY DEF P!PostReserve, P!DeleteLockId, P!Receive, P!TypeOK

LEMMA ActionyReceives ==
    ASSUME Q!TInv, ActionCalls, NEW q \in Requests, NEW s, Q!PostAction(q, s, {})
    PROVE  actionCall'[q].kind = "create" /\ ~ Admitted(q)'
<1>1. /\ actionPc[q] = "idle" /\ actionPc'[q] = "fetch" /\ UNCHANGED actions
      /\ actionCall'[q].kind = "create"
  BY DEF Q!PostAction, Q!Receive, Q!NoWrite, Q!TInv, Q!TypeOK
<1> QED
  BY <1>1 DEF ActionCalls, Admitted, Inserted

\* the ids an instance holds and sends stay its own,
LEMMA OwnIdsStay ==
    ASSUME CInv, Past, OwnIds,
           \A c \in Clients : \/ lockId'[c] = lockId[c] \/ lockId'[c] = None
                              \/ \E l \in Requests : lockId'[c] = l /\ P!Granted(l) /\ l[1] = c,
           \A q \in Requests : lockCall'[q].kind = "unlock" =>
             \/ lockCall'[q] = lockCall[q]
             \/ \E l \in Requests : lockCall'[q].lockId = l /\ P!Granted(l) /\ l[1] = q[1],
           \A q \in Requests : lockCall[q].lockId \in Requests
    PROVE  OwnIds'
<1>1. \A l \in Requests : P!Granted(l) => P!Granted(l)'
  BY DEF Past, P!Granted, P!Answered
<1>2. ASSUME NEW c \in Clients, lockId'[c] # None
      PROVE  P!Granted(lockId[c])' /\ lockId'[c][1] = c
  <2>1. PICK l \in Requests : lockId'[c] = l /\ P!Granted(l) /\ l[1] = c
    BY <1>2 DEF OwnIds, CInv
  <2> QED
    BY <1>1, <2>1 DEF P!Granted, P!Answered
<1>3. ASSUME NEW q \in Requests, lockCall'[q].kind = "unlock"
      PROVE  P!Granted(lockCall[q].lockId)' /\ lockCall'[q].lockId[1] = q[1]
  <2>1. PICK l \in Requests : lockCall'[q].lockId = l /\ P!Granted(l) /\ l[1] = q[1]
    BY <1>3 DEF OwnIds
  <2> QED
    BY <1>1, <2>1 DEF P!Granted, P!Answered
<1> QED
  BY <1>2, <1>3 DEF OwnIds

\* and the other instances know what they knew.
LEMMA OthersKnow ==
    ASSUME CInv, Past, Cautious, CreatesCount, NEW c \in Clients, \A d \in Clients : Knows(d),
           overlaps \subseteq overlaps',
           \A d \in Clients \ {c} : /\ calls'[d] = calls[d] /\ lockId'[d] = lockId[d]
                                    /\ actionId'[d] = actionId[d]
    PROVE  \A d \in Clients \ {c} : Knows(d)'
<1>1. \A d \in Clients \ {c} : Grows(d)
  BY DEF Grows, Past, Made
<1> QED
  BY <1>1, LeftAloneKnows

Memory == Served /\ OwnIds /\ \A c \in Clients : Knows(c)

LEMMA CallKeepsMemory ==
    ASSUME Inv, Memory, CInv', Sending, scenario' = scenario, NEW c \in Clients,
           ReserveAccess(c) \/ RemoveLock(c) \/ CreateAction(c) \/ UpdateAction(c)
    PROVE  Memory'
<1> USE SameLocky, SameActiony
<1>0. /\ CInv /\ P!TypeOK /\ Q!TInv /\ ActionCalls /\ Served /\ OwnIds /\ CreatesCount
      /\ \A d \in Clients : Knows(d)
  BY DEF Inv, P!IInv, Memory, Served
<1>1. Past /\ Cautious /\ Served'
  BY <1>0, SendingPast, SendingCautious, SendingServes DEF Served
<1>2. PICK N : N = Len(calls[c]) + 1
  OBVIOUS
<1>3. First(c) = <<c, N, 1>>
  BY <1>2 DEF First
<1>4. ASSUME NEW m \in Methods, NEW o \in {"awaited", "resolved"}, Invoke(c, m, o),
             o = "resolved" => m \in {"removeLock", "updateAction"},
             m = "reserveAccess" => lockCall'[<<c, N, 1>>].kind = "reserve",
             m = "removeLock" /\ o = "awaited" =>
               lockCall'[<<c, N, 1>>].kind = "unlock" /\ lockCall'[<<c, N, 1>>].lockId = lockId[c],
             m = "createAction" =>
               actionCall'[<<c, N, 1>>].kind = "create" /\ ~ Admitted(<<c, N, 1>>)',
             \A q \in Requests : lockCall'[q].kind = "unlock" =>
               \/ lockCall'[q] = lockCall[q]
               \/ q = <<c, N, 1>> /\ lockCall'[q].lockId = lockId[c] /\ lockId[c] # None
      PROVE  Memory'
  <2>1. /\ \A d \in Clients \ {c} : calls'[d] = calls[d]
        /\ calls'[c][N] = [method |-> m, attempt |-> 1, outcome |-> o]
        /\ overlaps \subseteq overlaps' /\ UNCHANGED <<lockId, actionId>>
    BY <1>0, <1>2, <1>4, InvokeShape
  <2>2. \A d \in Clients \ {c} : Knows(d)'
    BY <1>0, <1>1, <2>1, OthersKnow
  <2>3. SentCall(c, N)'
    <3>1. /\ calls'[c][N].method = m /\ calls'[c][N].attempt = 1 /\ calls'[c][N].outcome = o
      BY <2>1
    <3> SUFFICES ASSUME NEW j \in 1 .. 1
                 PROVE  /\ m = "reserveAccess" => lockCall'[<<c, N, j>>].kind = "reserve"
                        /\ m = "removeLock" /\ o # "resolved" =>
                             /\ lockCall'[<<c, N, j>>].kind = "unlock"
                             /\ lockCall'[<<c, N, j>>].lockId = lockCall'[<<c, N, 1>>].lockId
                        /\ m = "createAction" => actionCall'[<<c, N, j>>].kind = "create"
      BY <3>1 DEF SentCall, Is, Unlocks
    <3>2. j = 1
      OBVIOUS
    <3> QED
      BY <1>4, <3>2
  <2>4. Knows(c)'
    BY <1>0, <1>1, <1>2, <1>4, <2>3, InvokeKnows
  <2>5. OwnIds'
    <3>1. lockId[c] # None => lockId[c] \in Requests /\ P!Granted(lockId[c]) /\ lockId[c][1] = c
      BY <1>0 DEF CInv, OwnIds
    <3>2. \A q \in Requests : lockCall'[q].kind = "unlock" =>
            \/ lockCall'[q] = lockCall[q]
            \/ \E l \in Requests : lockCall'[q].lockId = l /\ P!Granted(l) /\ l[1] = q[1]
      BY <1>4, <3>1
    <3>3. \A q \in Requests : lockCall[q].lockId \in Requests
      BY <1>0 DEF P!TypeOK, P!Call
    <3> QED
      BY <1>0, <1>1, <2>1, <3>2, <3>3, OwnIdsStay
  <2> QED
    BY <1>1, <2>2, <2>4, <2>5 DEF Memory
<1>5. \A m \in Methods, o \in Outcomes : Invoke(c, m, o) => <<c, N, 1>> \in Requests
  BY <1>0, <1>3, InvokeTypes
<1>6. CASE ReserveAccess(c)
  <2>1. /\ Invoke(c, "reserveAccess", "awaited") /\ P!PostReserve(<<c, N, 1>>, ServiceOf(c))
        /\ <<c, N, 1>> \in Requests
    BY <1>3, <1>5, <1>6 DEF ReserveAccess, Methods, Outcomes
  <2>2. /\ lockCall'[<<c, N, 1>>].kind = "reserve"
        /\ \A q \in Requests : q # <<c, N, 1>> => lockCall'[q] = lockCall[q]
    BY <1>0, <2>1, LockyReceives
  <2> QED
    BY <1>4, <2>1, <2>2 DEF Methods
<1>7. CASE RemoveLock(c)
  <2>1. CASE Invoke(c, "removeLock", "resolved") /\ UNCHANGED lockyVars
    BY <1>4, <2>1 DEF Methods, lockyVars
  <2>2. CASE /\ lockId[c] # None /\ Invoke(c, "removeLock", "awaited")
             /\ L!DeleteLockId(First(c), lockId[c])
    <3>1. /\ Invoke(c, "removeLock", "awaited") /\ P!DeleteLockId(<<c, N, 1>>, lockId[c])
          /\ <<c, N, 1>> \in Requests /\ lockId[c] # None
      BY <1>3, <1>5, <2>2 DEF Methods, Outcomes
    <3>2. /\ lockCall'[<<c, N, 1>>].kind = "unlock" /\ lockCall'[<<c, N, 1>>].lockId = lockId[c]
          /\ \A q \in Requests : q # <<c, N, 1>> => lockCall'[q] = lockCall[q]
      BY <1>0, <3>1, LockyReceives
    <3> QED
      BY <1>4, <3>1, <3>2 DEF Methods
  <2> QED
    BY <1>7, <2>1, <2>2 DEF RemoveLock
<1>8. CASE CreateAction(c)
  <2>1. /\ Invoke(c, "createAction", "awaited") /\ Q!PostAction(<<c, N, 1>>, ServiceOf(c), {})
        /\ <<c, N, 1>> \in Requests /\ UNCHANGED lockyVars
    BY <1>3, <1>5, <1>8 DEF CreateAction, Methods, Outcomes
  <2>2. ASSUME NEW q \in Requests, q = <<c, N, 1>>
        PROVE  actionCall'[<<c, N, 1>>].kind = "create" /\ ~ Admitted(<<c, N, 1>>)'
    <3>1. actionCall'[q].kind = "create" /\ ~ Admitted(q)'
      BY <1>0, <2>1, <2>2, ActionyReceives
    <3> QED
      BY <2>2, <3>1 DEF Admitted, Inserted
  <2> QED
    BY <1>4, <2>1, <2>2 DEF Methods, lockyVars
<1>9. CASE UpdateAction(c)
  <2>1. UNCHANGED lockyVars /\ \E o \in {"awaited", "resolved"} : Invoke(c, "updateAction", o)
    BY <1>9 DEF UpdateAction
  <2> QED
    BY <1>4, <2>1 DEF Methods, lockyVars
<1> QED
  BY <1>6, <1>7, <1>8, <1>9

LEMMA SettleKeepsMemory ==
    ASSUME Inv, Memory, Sending, scenario' = scenario, NEW c \in Clients,
           NEW n \in Awaited(c), Settles(c, n)
    PROVE  Memory'
<1>0. /\ CInv /\ P!TypeOK /\ Served /\ OwnIds /\ CreatesCount
      /\ (\A d \in Clients : Knows(d)) /\ n \in Made(c)
  BY DEF Inv, P!IInv, Memory, Served, Awaited
<1>1. Past /\ Cautious /\ Served'
  BY <1>0, SendingPast, SendingCautious, SendingServes DEF Served
<1>2. PICK o : Ends(c, n, o)
  BY DEF Settles, ReserveResolves, RemoveResolves, CreateResolves, UpdateResolves, Refused, GivesUp
<1>3. /\ \A d \in Clients \ {c} : calls'[d] = calls[d]
      /\ UNCHANGED <<overlaps, late, lockyVars, actionyVars>>
  BY <1>0, <1>2, SettleShape
<1>4. Knows(c)'
  BY <1>0, SettleKnows
<1>5. /\ \/ UNCHANGED lockId \/ lockId' = [lockId EXCEPT ![c] = None]
         \/ P!Granted(Last(c, n)) /\ lockId' = [lockId EXCEPT ![c] = Last(c, n)]
      /\ UNCHANGED actionId \/ actionId' = [actionId EXCEPT ![c] = Last(c, n)]
  BY SameLocky DEF Settles, ReserveResolves, RemoveResolves, CreateResolves, UpdateResolves, Refused,
     GivesUp, Keeps, P!Granted
<1>6. \A d \in Clients \ {c} : lockId'[d] = lockId[d] /\ actionId'[d] = actionId[d]
  BY <1>0, <1>5 DEF CInv
<1>7. \A d \in Clients \ {c} : Knows(d)'
  BY <1>0, <1>1, <1>3, <1>6, OthersKnow
<1>8. OwnIds'
  <2>1. Last(c, n) \in Requests /\ Last(c, n)[1] = c
    BY <1>0, AttemptsAreRequests DEF Last
  <2>2. \A d \in Clients : \/ lockId'[d] = lockId[d] \/ lockId'[d] = None
                           \/ \E l \in Requests : lockId'[d] = l /\ P!Granted(l) /\ l[1] = d
    BY <1>0, <1>5, <1>6, <2>1 DEF CInv
  <2>3. /\ \A q \in Requests : lockCall[q].lockId \in Requests
        /\ UNCHANGED lockCall
    BY <1>0, <1>3 DEF P!TypeOK, P!Call, lockyVars
  <2> QED
    BY <1>0, <1>1, <2>2, <2>3, OwnIdsStay
<1> QED
  BY <1>1, <1>4, <1>7, <1>8 DEF Memory

LEMMA AgainKeepsMemory ==
    ASSUME Inv, Memory, Sending, scenario' = scenario, NEW c \in Clients,
           NEW n \in Awaited(c), SendAgain(c, n)
    PROVE  Memory'
<1> USE SameLocky, SameActiony
<1>0. /\ CInv /\ P!TypeOK /\ Q!TInv /\ ActionCalls /\ Served /\ OwnIds /\ CreatesCount
      /\ (\A d \in Clients : Knows(d)) /\ n \in Made(c) /\ calls[c][n].outcome = "awaited"
  BY DEF Inv, P!IInv, Memory, Served, Awaited
<1>1. Past /\ Cautious /\ Served'
  BY <1>0, SendingPast, SendingCautious, SendingServes DEF Served
<1>2. PICK k : k = calls[c][n].attempt + 1
  OBVIOUS
<1>3. /\ Again(c, n) /\ UNCHANGED <<lockId, actionId, overlaps>> /\ <<c, n, k>> \in Requests
      /\ \A d \in Clients \ {c} : calls'[d] = calls[d]
  <2>1. Again(c, n) /\ UNCHANGED <<lockId, actionId, overlaps>> /\ <<c, n, k>> \in Requests
    BY <1>0, <1>2, AttemptsAreRequests DEF SendAgain, Again
  <2> QED
    BY <1>0, <1>2, <2>1, AgainShape
<1>4. \A d \in Clients \ {c} : Knows(d)'
  BY <1>0, <1>1, <1>3, OthersKnow
<1>5. /\ <<c, n, 1>> \in Requests /\ 1 \in 1 .. calls[c][n].attempt
      /\ Is(c, n, "removeLock") => lockCall[<<c, n, 1>>].kind = "unlock"
  <2>1. <<c, n, 1>> \in Requests /\ 1 \in 1 .. calls[c][n].attempt
    BY <1>0, CallTypes
  <2> QED
    BY <1>0, <2>1 DEF Knows, SentCall, Unlocks
<1>6. /\ \/ Is(c, n, "reserveAccess") /\ P!PostReserve(<<c, n, k>>, ServiceOf(c))
         \/ Is(c, n, "removeLock") /\ P!DeleteLockId(<<c, n, k>>, lockCall[<<c, n, 1>>].lockId)
         \/ Is(c, n, "createAction") /\ Q!PostAction(<<c, n, k>>, ServiceOf(c), {}) /\ UNCHANGED lockyVars
         \/ Is(c, n, "updateAction") /\ UNCHANGED lockyVars
  BY <1>2 DEF SendAgain
<1>7. /\ Is(c, n, "reserveAccess") => lockCall'[<<c, n, k>>].kind = "reserve"
      /\ Is(c, n, "removeLock") =>
           /\ lockCall'[<<c, n, k>>].kind = "unlock"
           /\ lockCall'[<<c, n, k>>].lockId = lockCall[<<c, n, 1>>].lockId
      /\ \A q \in Requests : lockCall'[q].kind = "unlock" =>
           \/ lockCall'[q] = lockCall[q]
           \/ /\ q = <<c, n, k>> /\ Is(c, n, "removeLock")
              /\ lockCall'[q].lockId = lockCall[<<c, n, 1>>].lockId
  <2>1. CASE Is(c, n, "reserveAccess")
    <3>1. P!PostReserve(<<c, n, k>>, ServiceOf(c))
      BY <1>6, <2>1 DEF Is
    <3>2. /\ lockCall'[<<c, n, k>>].kind = "reserve"
          /\ \A q \in Requests : q # <<c, n, k>> => lockCall'[q] = lockCall[q]
      BY <1>0, <1>3, <3>1, LockyReceives
    <3> QED
      BY <2>1, <3>2 DEF Is
  <2>2. CASE Is(c, n, "removeLock")
    <3>1. P!DeleteLockId(<<c, n, k>>, lockCall[<<c, n, 1>>].lockId)
      BY <1>6, <2>2 DEF Is
    <3>2. /\ lockCall'[<<c, n, k>>].kind = "unlock"
          /\ lockCall'[<<c, n, k>>].lockId = lockCall[<<c, n, 1>>].lockId
          /\ \A q \in Requests : q # <<c, n, k>> => lockCall'[q] = lockCall[q]
      BY <1>0, <1>3, <3>1, LockyReceives
    <3> QED
      BY <2>2, <3>2 DEF Is
  <2>3. CASE ~ Is(c, n, "reserveAccess") /\ ~ Is(c, n, "removeLock")
    BY <1>6, <2>3 DEF lockyVars
  <2> QED
    BY <2>1, <2>2, <2>3
<1>8. Is(c, n, "createAction") => actionCall'[<<c, n, k>>].kind = "create" /\ ~ Admitted(<<c, n, k>>)'
  <2> SUFFICES ASSUME Is(c, n, "createAction"), NEW q \in Requests, q = <<c, n, k>>
               PROVE  actionCall'[<<c, n, k>>].kind = "create" /\ ~ Admitted(<<c, n, k>>)'
    BY <1>3
  <2>1. Q!PostAction(q, ServiceOf(c), {})
    BY <1>6 DEF Is
  <2>2. actionCall'[q].kind = "create" /\ ~ Admitted(q)'
    BY <1>0, <2>1, ActionyReceives
  <2> QED
    BY <2>2 DEF Admitted, Inserted
<1>9. Knows(c)'
  BY <1>0, <1>1, <1>2, <1>3, <1>7, <1>8, AgainKnows
<1>10. OwnIds'
  <2>1. \A q \in Requests : lockCall[q].lockId \in Requests
    BY <1>0 DEF P!TypeOK, P!Call
  <2>2. Is(c, n, "removeLock") => P!Granted(lockCall[<<c, n, 1>>].lockId)
                                  /\ lockCall[<<c, n, 1>>].lockId[1] = c
    BY <1>0, <1>5 DEF OwnIds
  <2>3. \A q \in Requests : lockCall'[q].kind = "unlock" =>
          \/ lockCall'[q] = lockCall[q]
          \/ \E l \in Requests : lockCall'[q].lockId = l /\ P!Granted(l) /\ l[1] = q[1]
    BY <1>5, <1>7, <2>1, <2>2
  <2> QED
    BY <1>0, <1>1, <1>3, <2>1, <2>3, OwnIdsStay
<1> QED
  BY <1>1, <1>4, <1>9, <1>10 DEF Memory

-----------------------------------------------------------------------------
\* The steps of the servers.
LEMMA NobodyForgets ==
    ASSUME CInv, Past, Cautious, CreatesCount, Memory, UNCHANGED <<lockId, actionId, calls, overlaps>>
    PROVE  \A c \in Clients : Knows(c)'
<1>1. \A c \in Clients : Grows(c)
  BY DEF Grows, Past, Made
<1> QED
  BY <1>1, LeftAloneKnows DEF Memory

LEMMA LockyKeepsMemory ==
    ASSUME Inv, Memory, LockyStep, scenario' = scenario
    PROVE  Memory'
<1>0. /\ UNCHANGED <<lockId, actionId, calls, overlaps, actionyVars>>
      /\ CInv /\ P!TypeOK /\ Served /\ OwnIds /\ CreatesCount
      /\ \A q \in Requests : lockCall[q].lockId \in Requests
  BY DEF LockyStep, Inv, P!IInv, P!TypeOK, P!Call, Memory, Served
<1>1. Cautious
  BY <1>0 DEF Cautious, Admitted, Inserted, actionyVars
<1>2. Past /\ UNCHANGED lockCall /\ Served'
  <2>1. CASE L!Tick
    <3>1. UNCHANGED <<lockCall, lockPc, pending, lockAnswer>>
      BY <2>1, SameLocky DEF P!Tick, P!locals
    <3>2. Past
      BY <1>0, <2>1, TickPast
    <3>3. /\ \A q \in Requests : Own(q)' = Own(q) /\ (Opposed(Own(q)) => Opposed(Own(q))')
          /\ \A q \in Requests : Single(Own(q))' <=> Single(Own(q))
      BY <3>2, OpposedStays DEF Own, ServiceOf, Single
    <3>4. Unasked' /\ FoundRemoved' /\ RefusedByOthers' /\ CreatesCount'
      BY <1>0, <3>1, <3>3 DEF Served, Unasked, FoundRemoved, RefusedByOthers, CreatesCount, Unlocks,
         P!Answered, Q!Answered, Inserted, actionyVars
    <3> QED
      BY <3>1, <3>2, <3>4 DEF Served
  <2>2. ASSUME NEW r \in L!InFlight, L!Step(r) \/ L!Crash(r)
        PROVE  Past /\ UNCHANGED lockCall /\ Served'
    <3>1. r \in Requests /\ (P!Step(r) \/ P!Crash(r))
      BY <2>2, SameLocky DEF L!InFlight
    <3>2. P!Move(r)
      BY <3>1, ServersAssumed, P!StepMoves DEF Inv, P!IInv, P!RowInv
    <3> QED
      BY <1>0, <3>1, <3>2, LockyPast, LockyServes DEF P!Move
  <2> QED
    BY <2>1, <2>2 DEF LockyStep
<1>3. OwnIds'
  BY <1>0, <1>2, OwnIdsStay
<1> QED
  BY <1>0, <1>1, <1>2, <1>3, NobodyForgets DEF Memory

LEMMA ActionyKeepsMemory ==
    ASSUME Inv, Memory, ActionyStep, scenario' = scenario
    PROVE  Memory'
<1>0. /\ UNCHANGED <<lockId, actionId, calls, overlaps, lockyVars>> /\ UNCHANGED lockCall
      /\ CInv /\ Served /\ OwnIds /\ CreatesCount
      /\ \A q \in Requests : lockCall[q].lockId \in Requests
  BY DEF ActionyStep, lockyVars, Inv, P!IInv, P!TypeOK, P!Call, Memory, Served
<1>1. PICK r \in Requests : Q!Step(r) \/ Q!Crash(r)
  BY SameActiony DEF ActionyStep, A!InFlight
<1>2. Past /\ Cautious /\ Served'
  BY <1>0, <1>1, ActionyPast, ActionyCautious, ActionyServes
<1>3. OwnIds'
  BY <1>0, <1>2, OwnIdsStay
<1> QED
  BY <1>0, <1>2, <1>3, NobodyForgets DEF Memory

-----------------------------------------------------------------------------
\* The inductive invariant.
MInv == Inv /\ Memory

LEMMA InitMemory == Init => MInv
<1> SUFFICES ASSUME Init PROVE MInv
  OBVIOUS
<1>1. P!Init /\ Q!Init /\ Inv
  BY SameLocky, SameActiony, InitInv DEF Init
<1>2. Served
  BY <1>1 DEF P!Init, Q!Init, Q!NoCall, Served, Unasked, FoundRemoved, RefusedByOthers, CreatesCount,
     P!Answered, Q!Answered
<1>3. OwnIds
  BY <1>1 DEF Init, P!Init, OwnIds
<1>4. \A c \in Clients : Made(c) = {}
  BY EmptySeq DEF Init, Made
<1>5. \A c \in Clients : Knows(c)
  BY <1>4 DEF Knows, Ordered, Remembers, Succeeds, Held, Awaited
<1> QED
  BY <1>1, <1>2, <1>3, <1>5 DEF MInv, Memory

LEMMA NextKeepsMemory == MInv /\ [Next]_vars => MInv'
<1> SUFFICES ASSUME Inv, Memory, [Next]_vars PROVE Memory'
  BY NextKeepsInv DEF MInv
<1>1. CASE UNCHANGED vars
  <2>1. /\ UNCHANGED <<scenario, lockId, actionId, calls, overlaps, lockCall, lockyVars, actionyVars>>
        /\ CInv /\ OwnIds /\ Served /\ CreatesCount
        /\ \A q \in Requests : lockCall[q].lockId \in Requests
    BY <1>1 DEF vars, lockyVars, Inv, P!IInv, P!TypeOK, P!Call, Memory, Served
  <2>2. Sending /\ scenario' = scenario
    BY <2>1 DEF Sending
  <2>3. Past /\ Cautious /\ Served'
    BY <2>1, <2>2, SendingPast, SendingCautious, SendingServes DEF Served
  <2>4. OwnIds'
    BY <2>1, <2>3, OwnIdsStay
  <2> QED
    BY <2>1, <2>3, <2>4, NobodyForgets DEF Memory
<1>2. ASSUME NEW c \in Clients, scenario' = scenario,
             \/ ReserveAccess(c) \/ RemoveLock(c) \/ CreateAction(c) \/ UpdateAction(c)
             \/ \E n \in Awaited(c) : Settle(c, n)
      PROVE  Memory'
  <2>1. CInv' /\ Sending
    BY <1>2, ClientSteps DEF Inv, P!IInv
  <2>2. CASE ReserveAccess(c) \/ RemoveLock(c) \/ CreateAction(c) \/ UpdateAction(c)
    BY <1>2, <2>1, <2>2, CallKeepsMemory
  <2>3. ASSUME NEW n \in Awaited(c), Settle(c, n) PROVE Memory'
    <3>1. Settles(c, n) \/ SendAgain(c, n)
      BY <2>3 DEF Settle, Settles
    <3> QED
      BY <1>2, <2>1, <3>1, SettleKeepsMemory, AgainKeepsMemory
  <2> QED
    BY <1>2, <2>2, <2>3
<1> QED
  BY <1>1, <1>2, LockyKeepsMemory, ActionyKeepsMemory DEF Next

LEMMA MemoryInvariant == Spec => []MInv
  BY InitMemory, NextKeepsMemory, PTL DEF Spec

\* A lock whose id an instance was told stays removable: however its calls are
\* lost, repeated, refused or awaited together, the instance remembers the id as
\* long as the row is there, unless another reservation was granted or a
\* removal overlapped this one.
THEOREM NoLockIsForgotten == Spec => []NoLockForgotten
<1>1. MInv => NoLockForgotten
  <2> SUFFICES ASSUME MInv, NEW c \in Clients, NEW n \in Made(c),
                      Told(c, n, "reserveAccess"), locks[Last(c, n)] # NoLock,
                      \A m \in Made(c) : m # n => ~ Told(c, m, "reserveAccess"),
                      \A m \in Made(c) : Is(c, m, "removeLock") => ~ Overlapped(c, m, n)
               PROVE  lockId[c] = Last(c, n)
    BY DEF NoLockForgotten
  <2>1. OnlyTold(c, n)
    BY DEF OnlyTold
  <2> QED
    BY <2>1 DEF MInv, Memory, Knows, Remembers
<1> QED
  BY <1>1, MemoryInvariant, PTL

\* A removal is answered by 404 only after another DELETE of the same instance
\* for the same lock: no expiry and no other instance takes a lock away.
THEOREM NotFoundWasOwnRemoval == Spec => []NotFoundIsOwnRemoval
<1>1. MInv => NotFoundIsOwnRemoval
  <2> SUFFICES ASSUME MInv, NEW c \in Clients, NEW n \in Made(c), Is(c, n, "removeLock"),
                      calls[c][n].outcome = "notFound"
               PROVE  \E q \in Requests :
                        /\ q[1] = c /\ q # Last(c, n)
                        /\ lockCall[q].kind = "unlock"
                        /\ lockCall[q].lockId = lockCall[Last(c, n)].lockId
                        /\ lockPc[q] # "find"
    BY DEF NotFoundIsOwnRemoval
  <2>1. Last(c, n) \in Requests /\ Last(c, n)[1] = c /\ calls[c][n].attempt \in 1 .. calls[c][n].attempt
    BY AttemptsAreRequests, CallTypes DEF MInv, Inv, Last
  <2>2. P!Answered(Last(c, n), 404) /\ lockCall[Last(c, n)].kind = "unlock"
    <3>1. Report(c, n) /\ SentCall(c, n)
      BY DEF MInv, Memory, Knows
    <3>2. lockCall[<<c, n, calls[c][n].attempt>>].kind = "unlock"
      BY <2>1, <3>1 DEF SentCall, Unlocks
    <3> QED
      BY <3>1, <3>2 DEF Report, Last
  <2>3. PICK v \in Requests \ {Last(c, n)} :
          Unlocks(v, lockCall[Last(c, n)].lockId) /\ lockPc[v] # "find"
    BY <2>1, <2>2 DEF MInv, Memory, Served, FoundRemoved
  <2>4. v[1] = c
    BY <2>1, <2>2, <2>3 DEF MInv, Memory, OwnIds, Unlocks
  <2> QED
    BY <2>3, <2>4 DEF Unlocks
<1> QED
  BY <1>1, MemoryInvariant, PTL

\* An open action of a single service whose id its instance was told is the one
\* the instance remembers and can close, unless two createAction were awaited
\* together.
THEOREM OpenActionIsRemembered == Spec => []OpenActionIsHeld
<1>1. MInv => OpenActionIsHeld
  BY DEF MInv, Memory, Knows, Held, Single, OpenActionIsHeld, Acting
<1> QED
  BY <1>1, MemoryInvariant, PTL

\* A service that nobody blocks and whose blockees never acted is never refused
\* access: what its own reservations left behind is in nobody's way but others'.
THEOREM OwnLeftoversNeverRefuse == Spec => []OwnLeftoversAdmit
<1>1. MInv => OwnLeftoversAdmit
  <2> SUFFICES ASSUME MInv, NEW c \in Clients, ~ Opposed(ServiceOf(c)),
                      NEW n \in Made(c), Is(c, n, "reserveAccess"), calls[c][n].outcome = "conflict"
               PROVE  FALSE
    BY DEF OwnLeftoversAdmit, Opposed
  <2>1. Last(c, n) \in Requests /\ Own(Last(c, n)) = ServiceOf(c)
        /\ calls[c][n].attempt \in 1 .. calls[c][n].attempt
    BY AttemptsAreRequests, CallTypes DEF MInv, Inv, Last, Own
  <2>2. P!Answered(Last(c, n), 409) /\ lockCall[Last(c, n)].kind = "reserve"
    BY <2>1 DEF MInv, Memory, Knows, Report, SentCall, Last
  <2> QED
    BY <2>1, <2>2 DEF MInv, Memory, Served, RefusedByOthers, P!Answered
<1> QED
  BY <1>1, MemoryInvariant, PTL

=============================================================================
