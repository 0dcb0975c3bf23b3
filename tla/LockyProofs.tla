---------------------------- MODULE LockyProofs ----------------------------
(***************************************************************************)
(* Theorems about Locky, for every set of services and requests, every     *)
(* registry, every expiration and every number of requests in flight.      *)
(***************************************************************************)
EXTENDS Locky, TLAPS

-----------------------------------------------------------------------------
\* Types.  Every step writes the locals and the table through a few helpers, so
\* the proof goes once through each helper and then through the actions.

TableOK == locks \in [Requests -> Lock \cup {NoLock}]

LocalsOK ==
    /\ call \in [Requests -> Call]
    /\ pc \in [Requests -> Waiting \cup {"idle", "done", "dropped"}]
    /\ lockRequest \in [Requests -> LockRequest]
    /\ pending \in [Requests -> SUBSET Services]
    /\ answer \in [Requests -> {0, 201, 204, 404, 409, 500}]
    /\ before \in [Requests -> SUBSET Requests]

\* Moving on to the next awaited call keeps the types of the locals.
LEMMA GotoTypes ==
    ASSUME LocalsOK, NEW r, NEW p \in Waiting \cup {"idle", "done", "dropped"}, Goto(r, p)
    PROVE  LocalsOK'
  BY DEF LocalsOK, Goto

\* So does answering,
LEMMA AnswerTypes ==
    ASSUME LocalsOK, NEW r, NEW code \in {0, 201, 204, 404, 409, 500}, Answer(r, code)
    PROVE  LocalsOK'
  BY DEF LocalsOK, Answer

\* passing the nonexpired check,
LEMMA PassCheckTypes ==
    ASSUME LocalsOK, NEW r, NEW p \in Waiting, PassCheck(r, p)
    PROVE  LocalsOK'
<1> DEFINE found == {l \in Requests : locks[l] # NoLock}
<1>1. found \in SUBSET Requests
  OBVIOUS
<1>2. before' \in [Requests -> SUBSET Requests]
  BY <1>1 DEF LocalsOK, PassCheck
<1> QED
  BY <1>2 DEF LocalsOK, PassCheck

\* and entering the catch block.
LEMMA ThrowTypes ==
    ASSUME LocalsOK, NEW r, NEW code \in {0, 201, 204, 404, 409, 500}, Throw(r, code)
    PROVE  LocalsOK'
  BY DEF LocalsOK, Throw, Waiting

\* An INSERT or a DELETE keeps the type of the table.
LEMMA TableTypes ==
    ASSUME TableOK, LocalsOK,
           \/ \E r \in Requests : CreateLock(r)
           \/ \E l \in Requests : DeleteLock(l)
           \/ UNCHANGED locks
    PROVE  TableOK'
<1>1. ASSUME NEW r \in Requests, CreateLock(r) PROVE TableOK'
  <2>1. lockRequest[r] \in LockRequest
    BY DEF LocalsOK
  <2>2. [serviceIds |-> lockRequest[r].services, ttl |-> lockRequest[r].expiration] \in Lock
    BY <2>1 DEF LockRequest, Lock
  <2> QED
    BY <1>1, <2>2 DEF TableOK, CreateLock
<1>2. ASSUME NEW l \in Requests, DeleteLock(l) PROVE TableOK'
  BY <1>2 DEF TableOK, DeleteLock
<1>3. CASE UNCHANGED locks
  BY <1>3 DEF TableOK
<1> QED
  BY <1>1, <1>2, <1>3

\* A DELETE names a row id.
LEMMA LockIdType == ASSUME LocalsOK, NEW r \in Requests PROVE call[r].lockId \in Requests
<1>1. call[r] \in Call
  BY DEF LocalsOK
<1> QED
  BY <1>1 DEF Call

\* Every step of a handler keeps the types,
LEMMA StepKeepsTypes ==
    ASSUME TableOK, LocalsOK, NEW r \in Requests, Step(r)
    PROVE  TableOK' /\ LocalsOK'
<1> USE LockIdType
<1>1. CASE LockCheck(r)
  BY <1>1, AnswerTypes, PassCheckTypes, TableTypes DEF LockCheck, Waiting
<1>2. CASE LockInsert(r)
  BY <1>2, AnswerTypes, TableTypes DEF LockInsert
<1>3. CASE UnlockFind(r)
  BY <1>3, AnswerTypes, GotoTypes, TableTypes DEF UnlockFind, Waiting
<1>4. CASE UnlockDelete(r)
  BY <1>4, AnswerTypes, TableTypes DEF UnlockDelete
<1>5. CASE ReserveCheck(r)
  BY <1>5, AnswerTypes, PassCheckTypes, TableTypes DEF ReserveCheck, Waiting
<1>6. CASE ReserveFetch(r)
  <2>1. PICK s \in call[r].services :
          \/ Answer(r, 404)
          \/ Answer(r, 204)
          \/ /\ s \in DOMAIN Blockees
             /\ pc' = [pc EXCEPT ![r] = "insert"]
             /\ lockRequest' = [lockRequest EXCEPT
                    ![r] = [services |-> Blockees[s], expiration |-> ReserveExpiration]]
             /\ UNCHANGED <<call, pending, answer, before>>
    BY <1>6 DEF ReserveFetch
  <2>2. TableOK'
    BY <1>6, TableTypes DEF ReserveFetch
  <2>3. CASE Answer(r, 404) \/ Answer(r, 204)
    BY <2>2, <2>3, AnswerTypes
  <2>4. CASE s \in DOMAIN Blockees /\ ~ (Answer(r, 404) \/ Answer(r, 204))
    <3>1. [services |-> Blockees[s], expiration |-> ReserveExpiration] \in LockRequest
      BY <2>4, LockyAssumptions DEF LockRequest
    <3> QED
      BY <2>1, <2>2, <2>4, <3>1 DEF LocalsOK, Waiting
  <2> QED
    BY <2>1, <2>3, <2>4
<1>7. CASE ReserveInsert(r)
  <2>1. lockRequest[r].services \in SUBSET Services
    BY DEF LocalsOK, LockRequest
  <2>2. LocalsOK'
    BY <1>7, <2>1 DEF ReserveInsert, LocalsOK, Waiting
  <2> QED
    BY <1>7, <2>2, TableTypes DEF ReserveInsert
<1>8. CASE \E b \in Services : ReserveVerify(r, b)
  <2>1. PICK b \in Services : ReserveVerify(r, b)
    BY <1>8
  <2>2. CASE Throw(r, 409)
    BY <2>1, <2>2, ThrowTypes, TableTypes DEF ReserveVerify
  <2>3. CASE pending' = [pending EXCEPT ![r] = @ \ {b}]
             /\ UNCHANGED <<call, pc, lockRequest, answer, before>>
    BY <2>1, <2>3, TableTypes DEF ReserveVerify, LocalsOK
  <2> QED
    BY <2>1, <2>2, <2>3 DEF ReserveVerify
<1>9. CASE ReserveGrant(r)
  BY <1>9, AnswerTypes, TableTypes DEF ReserveGrant
<1>10. CASE ReserveRollback(r)
  BY <1>10, GotoTypes, TableTypes DEF ReserveRollback
<1>11. CASE ReadRejects(r)
  BY <1>11, AnswerTypes, TableTypes DEF ReadRejects
<1>12. CASE VerifyRejects(r)
  BY <1>12, ThrowTypes, TableTypes DEF VerifyRejects
<1>13. CASE InsertRejects(r)
  BY <1>13, AnswerTypes, TableTypes DEF InsertRejects
<1>14. CASE DeleteRejects(r)
  BY <1>14, AnswerTypes, TableTypes DEF DeleteRejects
<1> QED
  BY <1>1, <1>2, <1>3, <1>4, <1>5, <1>6, <1>7, <1>8, <1>9, <1>10, <1>11, <1>12,
     <1>13, <1>14 DEF Step

\* and so does the arrival of a request.
LEMMA ArriveKeepsTypes ==
    ASSUME TableOK, LocalsOK, NEW r \in Requests, Arrive(r)
    PROVE  TableOK' /\ LocalsOK'
<1>1. ASSUME NEW p \in Waiting, NEW c \in Call, NEW lr \in LockRequest, Receive(r, p, c, lr)
      PROVE  TableOK' /\ LocalsOK'
  BY <1>1 DEF Receive, TableOK, LocalsOK
<1>2. NoLockRequest \in LockRequest
  BY DEF NoLockRequest, LockRequest
<1>3. ASSUME NEW body \in LockBodies, PostLock(r, body) PROVE TableOK' /\ LocalsOK'
  <2>1. body \in LockRequest
    BY LockyAssumptions
  <2>2. [kind |-> "lock", services |-> body.services, lockId |-> r] \in Call
    BY <2>1 DEF Call, Kinds, LockRequest
  <2> QED
    BY <1>1, <1>3, <2>1, <2>2 DEF PostLock, Waiting
<1>4. ASSUME NEW s \in Services, PostReserve(r, s) PROVE TableOK' /\ LocalsOK'
  <2>1. [kind |-> "reserve", services |-> {s}, lockId |-> r] \in Call
    BY DEF Call, Kinds
  <2> QED
    BY <1>1, <1>2, <1>4, <2>1 DEF PostReserve, Waiting
<1>5. ASSUME NEW l \in Requests, DeleteLockId(r, l) PROVE TableOK' /\ LocalsOK'
  <2>1. [kind |-> "unlock", services |-> {}, lockId |-> l] \in Call
    BY DEF Call, Kinds
  <2> QED
    BY <1>1, <1>2, <1>5, <2>1 DEF DeleteLockId, Waiting
<1> QED
  BY <1>3, <1>4, <1>5 DEF Arrive

\* The initial state is well typed.
LEMMA InitTypes == Init => TypeOK
  BY LockyAssumptions DEF Init, TypeOK, Call, LockRequest, NoLockRequest, Kinds, Never

LEMMA NextKeepsTypes == TypeOK /\ [Next]_vars => TypeOK'
<1> SUFFICES ASSUME TypeOK, [Next]_vars PROVE TypeOK'
  OBVIOUS
<1>1. CASE UNCHANGED vars
  BY <1>1 DEF vars, locals, TypeOK
<1>2. CASE Tick /\ UNCHANGED active
  BY <1>2 DEF Tick, TypeOK, Lock, Never, locals
<1>3. CASE ActivityChanges
  BY <1>3, LockyAssumptions DEF ActivityChanges, TypeOK, locals
<1>4. ASSUME NEW r \in Requests, Arrive(r), UNCHANGED active PROVE TypeOK'
  BY <1>4, ArriveKeepsTypes DEF TypeOK, TableOK, LocalsOK
<1>5. ASSUME NEW r \in Requests, Step(r), UNCHANGED active PROVE TypeOK'
  BY <1>5, StepKeepsTypes DEF TypeOK, TableOK, LocalsOK
<1>6. ASSUME NEW r \in Requests, Crash(r), UNCHANGED active PROVE TypeOK'
  BY <1>6 DEF Crash, TypeOK
<1> QED
  BY <1>1, <1>2, <1>3, <1>4, <1>5, <1>6 DEF Next

\* The lock table, the requests and the environment keep their types.
THEOREM TypeCorrect == Spec => []TypeOK
  BY InitTypes, NextKeepsTypes, PTL DEF Spec

-----------------------------------------------------------------------------
\* The inductive invariant behind the absence of overlooked locks.

Inserted(r) == pc[r] \in {"verify", "rollback", "done", "dropped"}

\* A row is in the table only after the INSERT of the request it is named after.
RowsHaveOwners ==
    \A r \in Requests :
        locks[r] # NoLock => Inserted(r) /\ call[r].kind \in {"lock", "reserve"}

\* The rows a request found at its check were all inserted by then, so none of
\* them can be inserted later; an idle request has found none.
BeforeIsPast ==
    \A r \in Requests :
        /\ pc[r] = "idle" => before[r] = {}
        /\ \A l \in before[r] : Inserted(l)

\* A row lists what its request asked createLock for: for a reservation, the
\* blockees of the reserving service.
RowsListBlockees ==
    \A r \in Requests :
        /\ locks[r] # NoLock => locks[r].serviceIds = lockRequest[r].services
        /\ call[r].kind = "reserve" /\ (pc[r] = "insert" \/ locks[r] # NoLock) =>
             \A s \in Services : call[r].services = {s} =>
                 s \in DOMAIN Blockees /\ lockRequest[r].services = Blockees[s]

\* The kind of the call and the program counter of its handler agree.
KindsAgree ==
    \A r \in Requests :
        /\ pc[r] \in {"fetch", "verify", "rollback"} => call[r].kind = "reserve"
        /\ pc[r] = "insert" => call[r].kind \in {"lock", "reserve"}

IInv ==
    /\ TypeOK
    /\ KindsAgree
    /\ RowsHaveOwners
    /\ BeforeIsPast
    /\ RowsListBlockees
    /\ NoOverlookedLock

\* What one step of the handler of r may do to the table and to the locals.
TableEffect(r) ==
    \/ /\ pc[r] = "insert" /\ CreateLock(r) /\ Inserted(r)'
       /\ call[r].kind \in {"lock", "reserve"}
       /\ UNCHANGED <<lockRequest, before>>
    \/ (\E l \in Requests : DeleteLock(l)) /\ UNCHANGED <<lockRequest, before>>
    \/ UNCHANGED locks

CheckEffect(r) ==
    \/ UNCHANGED before
    \/ /\ FindNonexpiredLocks(call[r].services) = {}
       /\ before' = [before EXCEPT ![r] = {l \in Requests : locks[l] # NoLock}]
       /\ UNCHANGED <<locks, lockRequest>>

FetchEffect(r) ==
    \/ UNCHANGED lockRequest /\ (pc'[r] = "insert" => call[r].kind = "lock")
    \/ /\ pc[r] = "fetch"
       /\ \E s \in call[r].services, e \in Nat :
            /\ s \in DOMAIN Blockees
            /\ lockRequest' = [lockRequest EXCEPT
                                 ![r] = [services |-> Blockees[s], expiration |-> e]]
       /\ UNCHANGED locks

Shape(r) ==
    /\ UNCHANGED call
    /\ \E p \in Waiting \cup {"done", "dropped"} : pc' = [pc EXCEPT ![r] = p]
    /\ Inserted(r) => Inserted(r)'
    /\ pc'[r] \in {"fetch", "verify", "rollback"} => call[r].kind = "reserve"
    /\ pc'[r] = "insert" => call[r].kind \in {"lock", "reserve"}
    /\ TableEffect(r)
    /\ CheckEffect(r)
    /\ FetchEffect(r)

\* Every step of a handler, and its crash, has that shape.
LEMMA StepShape ==
    ASSUME TypeOK, KindsAgree, NEW r \in Requests, Step(r) \/ Crash(r)
    PROVE  Shape(r)
<1> USE LockIdType, LockyAssumptions DEF Shape, Inserted, At
<1>0. LocalsOK /\ pc \in [Requests -> Waiting \cup {"idle", "done", "dropped"}]
  BY DEF TypeOK, LocalsOK
<1>1. CASE LockCheck(r)
  BY <1>0, <1>1 DEF LockCheck, Answer, PassCheck, TableEffect, CheckEffect, FetchEffect, Waiting
<1>2. CASE LockInsert(r)
  BY <1>0, <1>2 DEF LockInsert, Answer, TableEffect, CheckEffect, FetchEffect, Waiting
<1>3. CASE UnlockFind(r)
  BY <1>0, <1>3 DEF UnlockFind, Answer, Goto, TableEffect, CheckEffect, FetchEffect, Waiting
<1>4. CASE UnlockDelete(r)
  BY <1>0, <1>4 DEF UnlockDelete, Answer, TableEffect, CheckEffect, FetchEffect, Waiting
<1>5. CASE ReserveCheck(r)
  BY <1>0, <1>5 DEF ReserveCheck, Answer, PassCheck, TableEffect, CheckEffect, FetchEffect, Waiting
<1>6. CASE ReserveFetch(r)
  BY <1>0, <1>6 DEF ReserveFetch, Answer, TableEffect, CheckEffect, FetchEffect, Waiting
<1>7. CASE ReserveInsert(r)
  BY <1>0, <1>7 DEF ReserveInsert, TableEffect, CheckEffect, FetchEffect, Waiting
<1>8. CASE \E b \in Services : ReserveVerify(r, b)
  BY <1>0, <1>8 DEF ReserveVerify, Throw, TableEffect, CheckEffect, FetchEffect, Waiting
<1>9. CASE ReserveGrant(r)
  BY <1>0, <1>9 DEF ReserveGrant, Answer, TableEffect, CheckEffect, FetchEffect, Waiting
<1>10. CASE ReserveRollback(r)
  BY <1>0, <1>10 DEF ReserveRollback, Goto, TableEffect, CheckEffect, FetchEffect, Waiting
<1>11. CASE ReadRejects(r)
  BY <1>0, <1>11 DEF ReadRejects, Answer, TableEffect, CheckEffect, FetchEffect, Waiting
<1>12. CASE VerifyRejects(r)
  BY <1>0, <1>12 DEF VerifyRejects, Throw, TableEffect, CheckEffect, FetchEffect, Waiting
<1>13. CASE InsertRejects(r)
  BY <1>0, <1>13 DEF InsertRejects, Answer, TableEffect, CheckEffect, FetchEffect, Waiting, KindsAgree
<1>14. CASE DeleteRejects(r)
  BY <1>0, <1>14 DEF DeleteRejects, Answer, TableEffect, CheckEffect, FetchEffect, Waiting
<1>15. CASE Crash(r)
  BY <1>0, <1>15 DEF Crash, TableEffect, CheckEffect, FetchEffect, Waiting
<1> QED
  BY <1>1, <1>2, <1>3, <1>4, <1>5, <1>6, <1>7, <1>8, <1>9, <1>10, <1>11, <1>12,
     <1>13, <1>14, <1>15 DEF Step

\* A step of that shape preserves the invariant: a row that comes into force
\* belongs to a request nobody has found yet, and a check that passes finds only
\* rows that are not in force on its services.
LEMMA ShapeKeepsIInv ==
    ASSUME IInv, TypeOK', NEW r \in Requests, Shape(r)
    PROVE  IInv'
<1>1. PICK p \in Waiting \cup {"done", "dropped"} : pc' = [pc EXCEPT ![r] = p]
  BY DEF Shape
<1>2. \A q \in Requests : q # r => pc'[q] = pc[q]
  BY <1>1 DEF IInv, TypeOK
<1>3. \A q \in Requests : Inserted(q) => Inserted(q)'
  BY <1>2 DEF Shape, Inserted
<1>4. UNCHANGED call /\ TableEffect(r) /\ CheckEffect(r) /\ FetchEffect(r)
  BY DEF Shape
<1>5. KindsAgree'
  BY <1>2, <1>4 DEF IInv, KindsAgree, Shape
<1>6. RowsHaveOwners'
  BY <1>3, <1>4 DEF IInv, TypeOK, RowsHaveOwners, TableEffect, CreateLock, DeleteLock
<1>7. BeforeIsPast'
  <2>1. pc'[r] # "idle"
    BY <1>1 DEF Waiting, IInv, TypeOK
  <2>2. CASE UNCHANGED before
    BY <1>2, <1>3, <2>1, <2>2 DEF IInv, TypeOK, BeforeIsPast
  <2>3. CASE before' = [before EXCEPT ![r] = {l \in Requests : locks[l] # NoLock}]
    BY <1>2, <1>3, <2>1, <2>3 DEF IInv, TypeOK, BeforeIsPast, RowsHaveOwners
  <2> QED
    BY <1>4, <2>2, <2>3 DEF CheckEffect
<1>8. RowsListBlockees'
  <2>1. CASE pc[r] = "insert" /\ CreateLock(r) /\ Inserted(r)' /\ UNCHANGED lockRequest
    BY <1>2, <1>4, <2>1 DEF IInv, TypeOK, RowsListBlockees, CreateLock, Inserted, Lock
  <2>2. CASE (\E l \in Requests : DeleteLock(l)) /\ UNCHANGED lockRequest
    BY <1>2, <1>4, <2>2 DEF IInv, TypeOK, RowsListBlockees, DeleteLock, FetchEffect
  <2>3. CASE UNCHANGED locks /\ UNCHANGED lockRequest
    BY <1>2, <1>4, <2>3 DEF IInv, TypeOK, RowsListBlockees, FetchEffect
  <2>4. CASE UNCHANGED locks /\ ~ UNCHANGED lockRequest
    <3>1. locks[r] = NoLock
      BY <1>4, <2>4 DEF FetchEffect, IInv, RowsHaveOwners, Inserted
    <3> QED
      BY <1>2, <1>4, <2>4, <3>1 DEF IInv, TypeOK, RowsListBlockees, FetchEffect
  <2> QED
    BY <1>4, <2>1, <2>2, <2>3, <2>4 DEF TableEffect
<1>9. NoOverlookedLock'
  <2> SUFFICES ASSUME NEW q \in Requests, NEW l \in before'[q], NonExpired(l)'
               PROVE  (locks[l].serviceIds \cap call[q].services = {})'
    BY DEF NoOverlookedLock
  <2>0. l \in Requests
    BY DEF TypeOK
  <2>1. CASE CreateLock(r) /\ pc[r] = "insert" /\ UNCHANGED before
    <3>1. l # r
      BY <2>1 DEF IInv, BeforeIsPast, Inserted
    <3> QED
      BY <1>4, <2>0, <2>1, <3>1 DEF IInv, TypeOK, NoOverlookedLock, CreateLock, NonExpired
  <2>2. CASE (\E m \in Requests : DeleteLock(m)) /\ UNCHANGED before
    BY <1>4, <2>0, <2>2 DEF IInv, TypeOK, NoOverlookedLock, DeleteLock, NonExpired
  <2>3. CASE UNCHANGED locks /\ UNCHANGED before
    BY <1>4, <2>0, <2>3 DEF IInv, TypeOK, NoOverlookedLock, NonExpired
  <2>4. CASE UNCHANGED locks /\ FindNonexpiredLocks(call[r].services) = {}
             /\ before' = [before EXCEPT ![r] = {m \in Requests : locks[m] # NoLock}]
    BY <1>4, <2>0, <2>4 DEF IInv, TypeOK, NoOverlookedLock, NonExpired, FindNonexpiredLocks
  <2> QED
    BY <1>4, <2>1, <2>2, <2>3, <2>4 DEF TableEffect, CheckEffect
<1> QED
  BY <1>5, <1>6, <1>7, <1>8, <1>9 DEF IInv

\* The clock only ends locks.
LEMMA TickKeepsIInv == ASSUME IInv, TypeOK', Tick PROVE IInv'
<1>1. UNCHANGED locals
  BY DEF Tick
<1>2. \A l \in Requests :
        /\ locks'[l] = NoLock <=> locks[l] = NoLock
        /\ locks[l] # NoLock => locks'[l].serviceIds = locks[l].serviceIds
        /\ NonExpired(l)' => NonExpired(l)
  <2> SUFFICES ASSUME NEW l \in Requests, locks[l] # NoLock, locks[l].ttl > 0
               PROVE  /\ locks'[l] # NoLock
                      /\ locks'[l].serviceIds = locks[l].serviceIds
                      /\ NonExpired(l)
    BY DEF Tick, NonExpired
  <2>1. locks[l] \in Lock /\ locks'[l] = [locks[l] EXCEPT !.ttl = @ - 1]
    BY DEF Tick, IInv, TypeOK
  <2>2. locks'[l] \in Lock
    BY <2>1 DEF Lock, Never
  <2>3. locks[l].ttl # 0
    BY <2>1 DEF Lock, Never
  <2> QED
    BY <2>1, <2>2, <2>3, LockyAssumptions DEF NonExpired, Lock
<1> QED
  BY <1>1, <1>2 DEF locals, IInv, KindsAgree, RowsHaveOwners, BeforeIsPast, Inserted,
     RowsListBlockees, NoOverlookedLock, TypeOK

\* A request that arrives has no row, and no other request has found it.
LEMMA ArriveKeepsIInv ==
    ASSUME IInv, TypeOK', NEW r \in Requests, Arrive(r)
    PROVE  IInv'
<1>1. PICK p \in {"check", "find"} : \E c, lr : Receive(r, p, c, lr)
  BY DEF Arrive, PostLock, PostReserve, DeleteLockId
<1>2. \A q \in Requests : q # r =>
        pc'[q] = pc[q] /\ call'[q] = call[q] /\ lockRequest'[q] = lockRequest[q]
  BY <1>1 DEF Receive, IInv, TypeOK
<1>3. pc[r] = "idle" /\ pc'[r] = p /\ UNCHANGED <<locks, before>>
  BY <1>1 DEF Receive, IInv, TypeOK
<1>4. locks[r] = NoLock /\ before[r] = {}
  BY <1>3 DEF IInv, RowsHaveOwners, BeforeIsPast, Inserted
<1>5. \A q \in Requests : r \notin before[q]
  BY <1>3 DEF IInv, BeforeIsPast, Inserted
<1>6. KindsAgree' /\ RowsHaveOwners' /\ BeforeIsPast' /\ RowsListBlockees'
  BY <1>2, <1>3, <1>4, <1>5 DEF IInv, KindsAgree, RowsHaveOwners, BeforeIsPast,
     RowsListBlockees, Inserted, TypeOK
<1>7. NoOverlookedLock'
  BY <1>2, <1>3, <1>4 DEF IInv, NoOverlookedLock, NonExpired, TypeOK
<1> QED
  BY <1>6, <1>7 DEF IInv

\* Every step of the system preserves the invariant.
LEMMA NextKeepsIInv == IInv /\ TypeOK' /\ [Next]_vars => IInv'
<1> SUFFICES ASSUME IInv, TypeOK', [Next]_vars PROVE IInv'
  OBVIOUS
<1>1. ASSUME NEW r \in Requests, Arrive(r) PROVE IInv'
  BY <1>1, ArriveKeepsIInv
<1>2. ASSUME NEW r \in Requests, Step(r) \/ Crash(r) PROVE IInv'
  BY <1>2, StepShape, ShapeKeepsIInv DEF IInv
<1>3. CASE Tick
  BY <1>3, TickKeepsIInv
<1>4. CASE UNCHANGED <<locks, locals>>
  BY <1>4 DEF locals, IInv, KindsAgree, RowsHaveOwners, BeforeIsPast, Inserted,
     RowsListBlockees, NoOverlookedLock, NonExpired
<1> QED
  BY <1>1, <1>2, <1>3, <1>4 DEF Next, vars, ActivityChanges

LEMMA InitIInv == Init => IInv
  BY InitTypes DEF Init, IInv, KindsAgree, RowsHaveOwners, BeforeIsPast, RowsListBlockees,
     NoOverlookedLock

\* The strengthened invariant is inductive.
THEOREM InductiveInvariant == Spec => []IInv
  BY InitIInv, TypeCorrect, NextKeepsIInv, PTL DEF Spec

\* Whatever the interleaving, the crashes and the failures, no request that
\* passed its check coexists with a lock in force that its check had to see.
THEOREM NoLockOverlooked == Spec => []NoOverlookedLock
  BY InductiveInvariant, PTL DEF IInv

\* Two services that block each other hold reservations together only if each
\* made its check before the other's row was inserted: the window the code
\* leaves open is exactly the one between the check and the INSERT.
THEOREM ConflictsAreRaces == Spec => []ConflictingGrantsRaced
<1>1. IInv => ConflictingGrantsRaced
  <2> SUFFICES ASSUME IInv, NEW q \in Requests, NEW k \in Requests,
                      NEW s \in Services, NEW t \in Services,
                      Holds(q, s), Holds(k, t), Blocks(s, t), Blocks(t, s), q # k
               PROVE  q \notin before[k] /\ k \notin before[q]
    BY DEF ConflictingGrantsRaced
  <2>1. t \in locks[q].serviceIds /\ s \in locks[k].serviceIds
    BY DEF IInv, RowsListBlockees, Holds, NonExpired, Blocks
  <2> QED
    BY <2>1 DEF IInv, NoOverlookedLock, Holds
<1> QED
  BY <1>1, InductiveInvariant, PTL

-----------------------------------------------------------------------------
(***************************************************************************)
(* Rows and leases: who may remove a row and when, and that each lock is a *)
(* lease: every step of Locky begins a lease, forgoes one, ends some, or   *)
(* leaves them alone.                                                      *)
(***************************************************************************)
\* A DELETE names a lock the client was told about, or no row at all.
UnlocksGranted ==
    \A u \in Requests : call[u].kind = "unlock" =>
        call[u].lockId = u \/ Granted(call[u].lockId)

\* A reservation that is still being verified has its row: nobody else knows it.
VerifiedHasRow == \A r \in Requests : pc[r] = "verify" => locks[r] # NoLock

\* A reservation is rolled back only to be refused.
RollbackRefuses == \A r \in Requests : pc[r] = "rollback" => answer[r] \in {409, 500}

\* A DELETE finds and deletes, and nobody else does.
UnlocksDelete ==
    \A r \in Requests :
        /\ pc[r] \in {"find", "delete"} => call[r].kind = "unlock"
        /\ pc[r] \in {"idle", "check"} => call[r].kind # "unlock"

RowInv ==
    /\ UnlocksGranted
    /\ VerifiedHasRow
    /\ RollbackRefuses
    /\ UnlocksDelete
    /\ RefusalLeavesNoRow
    /\ GrantedLockKept
    /\ ReleasedStaysReleased

-----------------------------------------------------------------------------
\* What a step of the handler of r does to rows and answers, according to where
\* the handler stands.
Advance(r) ==
    /\ pc[r] \in {"check", "fetch"} /\ UNCHANGED locks
    /\ \/ pc'[r] \in {"fetch", "insert", "dropped"}
       \/ pc'[r] = "done" /\ answer'[r] # 201

MakeRow(r) ==
    /\ pc[r] = "insert" /\ CreateLock(r)
    /\ \/ pc'[r] = "verify"
       \/ pc'[r] = "done" /\ answer'[r] \in {201, 500}

GiveUpRow(r) ==
    /\ pc[r] = "insert" /\ UNCHANGED locks
    /\ pc'[r] = "dropped" \/ (pc'[r] = "done" /\ answer'[r] = 500)

KeepRow(r) ==
    /\ pc[r] = "verify" /\ UNCHANGED locks
    /\ \/ pc'[r] \in {"verify", "dropped"}
       \/ pc'[r] = "rollback" /\ answer'[r] \in {409, 500}
       \/ pc'[r] = "done" /\ answer'[r] = 201

TakeBack(r) ==
    /\ pc[r] = "rollback"
    /\ \/ DeleteLock(r) /\ pc'[r] = "done" /\ answer'[r] \in {answer[r], 500}
       \/ UNCHANGED locks /\ pc'[r] = "done" /\ answer'[r] = 500
       \/ UNCHANGED locks /\ pc'[r] = "dropped"

LookUp(r) ==
    /\ pc[r] \in {"find", "delete"} /\ UNCHANGED locks
    /\ \/ pc'[r] \in {"delete", "dropped"}
       \/ pc'[r] = "done" /\ answer'[r] = 500
       \/ pc'[r] = "done" /\ answer'[r] = 404 /\ locks[call[r].lockId] = NoLock

Remove(r) ==
    /\ pc[r] = "delete" /\ call[r].kind = "unlock" /\ DeleteLock(call[r].lockId)
    /\ pc'[r] = "done" /\ answer'[r] \in {204, 500}

Move(r) ==
    /\ pc[r] \in Waiting
    /\ UNCHANGED call
    /\ \A q \in Requests : q # r => pc'[q] = pc[q] /\ answer'[q] = answer[q]
    /\ \/ Advance(r) \/ MakeRow(r) \/ GiveUpRow(r) \/ KeepRow(r)
       \/ TakeBack(r) \/ LookUp(r) \/ Remove(r)

\* Every step of a handler, and its crash, is such a move.
LEMMA StepMoves ==
    ASSUME TypeOK, KindsAgree, UnlocksDelete, NEW r \in Requests, Step(r) \/ Crash(r)
    PROVE  Move(r)
<1> USE DEF Move, At, Waiting
<1>0. /\ pc \in [Requests -> Waiting \cup {"idle", "done", "dropped"}]
      /\ answer \in [Requests -> {0, 201, 204, 404, 409, 500}]
  BY DEF TypeOK
<1>1. CASE LockCheck(r)
  BY <1>0, <1>1 DEF LockCheck, Answer, PassCheck, Advance
<1>2. CASE LockInsert(r)
  BY <1>0, <1>2 DEF LockInsert, Answer, MakeRow
<1>3. CASE UnlockFind(r)
  BY <1>0, <1>3 DEF UnlockFind, Answer, Goto, LookUp
<1>4. CASE UnlockDelete(r)
  BY <1>0, <1>4 DEF UnlockDelete, Answer, Remove
<1>5. CASE ReserveCheck(r)
  BY <1>0, <1>5 DEF ReserveCheck, Answer, PassCheck, Advance
<1>6. CASE ReserveFetch(r)
  BY <1>0, <1>6 DEF ReserveFetch, Answer, Advance
<1>7. CASE ReserveInsert(r)
  BY <1>0, <1>7 DEF ReserveInsert, MakeRow
<1>8. CASE \E b \in Services : ReserveVerify(r, b)
  BY <1>0, <1>8 DEF ReserveVerify, Throw, KeepRow
<1>9. CASE ReserveGrant(r)
  BY <1>0, <1>9 DEF ReserveGrant, Answer, KeepRow
<1>10. CASE ReserveRollback(r)
  BY <1>0, <1>10 DEF ReserveRollback, Goto, TakeBack
<1>11. CASE ReadRejects(r)
  BY <1>0, <1>11 DEF ReadRejects, Answer, Advance, LookUp
<1>12. CASE VerifyRejects(r)
  BY <1>0, <1>12 DEF VerifyRejects, Throw, KeepRow
<1>13. CASE InsertRejects(r)
  BY <1>0, <1>13 DEF InsertRejects, Answer, MakeRow, GiveUpRow
<1>14. CASE DeleteRejects(r)
  BY <1>0, <1>14 DEF DeleteRejects, Answer, TakeBack, LookUp, Remove
<1>15. CASE Crash(r)
  BY <1>0, <1>15 DEF Crash, Advance, GiveUpRow, KeepRow, TakeBack, LookUp
<1> QED
  BY <1>1, <1>2, <1>3, <1>4, <1>5, <1>6, <1>7, <1>8, <1>9, <1>10, <1>11, <1>12,
     <1>13, <1>14, <1>15 DEF Step

\* The uuid of a row is that of the request that makes it.
LEMMA RowChanges ==
    ASSUME TypeOK, NEW r \in Requests, Move(r), NEW l \in Requests, locks'[l] # locks[l]
    PROVE  \/ l = r /\ pc[r] \in {"insert", "rollback"}
           \/ l = call[r].lockId /\ Remove(r)
<1>1. locks \in [Requests -> Lock \cup {NoLock}] /\ call[r].lockId \in Requests
  BY DEF TypeOK, Call
<1> QED
  BY <1>1 DEF Move, Advance, MakeRow, GiveUpRow, KeepRow, TakeBack, LookUp, Remove,
     CreateLock, DeleteLock

\* A request that was answered stays as it is.
LEMMA DoneIsFinal ==
    ASSUME NEW r \in Requests, Move(r), NEW q \in Requests, pc[q] = "done"
    PROVE  pc'[q] = "done" /\ answer'[q] = answer[q]
  BY DEF Move, Waiting

\* A move keeps the invariant.
LEMMA MoveKeepsRowInv ==
    ASSUME IInv, RowInv, TypeOK', NEW r \in Requests, Move(r)
    PROVE  RowInv'
<1> USE DEF IInv
<1>0. /\ locks \in [Requests -> Lock \cup {NoLock}] /\ call[r].lockId \in Requests
      /\ UNCHANGED call
  BY DEF TypeOK, Call, Move
<1>1. UnlocksGranted'
  <2> SUFFICES ASSUME NEW u \in Requests, call[u].kind = "unlock", call[u].lockId # u
               PROVE  Granted(call[u].lockId)'
    BY <1>0 DEF UnlocksGranted
  <2>1. call[u].lockId \in Requests /\ Granted(call[u].lockId)
    BY DEF RowInv, UnlocksGranted, TypeOK, Call
  <2> QED
    BY <1>0, <2>1, DoneIsFinal DEF Granted, Answered
<1>2. VerifiedHasRow'
  <2> SUFFICES ASSUME NEW q \in Requests, pc'[q] = "verify" PROVE locks'[q] # NoLock
    BY DEF VerifiedHasRow
  <2>1. CASE MakeRow(r) /\ q = r
    <3>1. lockRequest[r] \in LockRequest
      BY DEF TypeOK
    <3>2. locks'[r] = [serviceIds |-> lockRequest[r].services, ttl |-> lockRequest[r].expiration]
      BY <1>0, <2>1 DEF MakeRow, CreateLock
    <3> QED
      BY <2>1, <3>1, <3>2, LockyAssumptions DEF LockRequest, Lock
  <2>2. CASE ~ (MakeRow(r) /\ q = r)
    <3>1. pc[q] = "verify"
      BY <2>2 DEF Move, Advance, GiveUpRow, KeepRow, TakeBack, LookUp, Remove
    <3>2. locks[q] # NoLock
      BY <3>1 DEF RowInv, VerifiedHasRow
    <3>3. ~ (q = call[r].lockId /\ Remove(r))
      BY <3>1 DEF RowInv, UnlocksGranted, Granted, Answered, Remove
    <3>4. ~ (q = r /\ pc[r] \in {"insert", "rollback"})
      BY <3>1
    <3> QED
      BY <3>2, <3>3, <3>4, RowChanges
  <2> QED
    BY <2>1, <2>2
<1>3. RollbackRefuses'
  BY DEF RowInv, RollbackRefuses, Move, Advance, MakeRow, GiveUpRow, KeepRow, TakeBack,
     LookUp, Remove
<1>4. UnlocksDelete'
  BY <1>0 DEF RowInv, UnlocksDelete, Move, Advance, MakeRow, GiveUpRow, KeepRow, TakeBack,
     LookUp, Remove
<1>5. RefusalLeavesNoRow'
  <2> SUFFICES ASSUME NEW q \in Requests, pc'[q] = "done", answer'[q] \in {204, 404, 409}
               PROVE  locks'[q] = NoLock
    BY DEF RefusalLeavesNoRow, Answered
  <2>1. CASE pc[q] = "done"
    <3>1. locks[q] = NoLock
      BY <2>1, DoneIsFinal DEF RowInv, RefusalLeavesNoRow, Answered
    <3>2. CASE q = call[r].lockId /\ Remove(r)
      BY <1>0, <3>2 DEF Remove, DeleteLock
    <3> QED
      BY <2>1, <3>1, <3>2, RowChanges
  <2>2. CASE pc[q] # "done"
    <3>1. q = r
      BY <2>2 DEF Move
    <3>2. CASE TakeBack(r)
      BY <1>0, <3>1, <3>2 DEF TakeBack, DeleteLock
    <3>3. CASE ~ TakeBack(r)
      <4>1. pc[r] \in {"check", "fetch", "find", "delete"}
        BY <3>1, <3>3 DEF Move, Advance, MakeRow, GiveUpRow, KeepRow, LookUp, Remove
      <4>2. locks[r] = NoLock
        BY <4>1 DEF RowsHaveOwners, Inserted
      <4>3. locks'[r] = NoLock
        BY <1>0, <4>1, <4>2 DEF Move, Advance, MakeRow, GiveUpRow, KeepRow, TakeBack, LookUp,
           Remove, DeleteLock
      <4> QED
        BY <3>1, <4>3
    <3> QED
      BY <3>2, <3>3
  <2> QED
    BY <2>1, <2>2
<1>6. GrantedLockKept'
  <2> SUFFICES ASSUME NEW l \in Requests, Granted(l)',
                      \A u \in Requests : call[u].kind = "unlock" /\ call[u].lockId = l
                                            => pc'[u] = "find"
               PROVE  locks'[l] # NoLock
    BY <1>0 DEF GrantedLockKept
  <2>1. ~ (l = call[r].lockId /\ Remove(r))
    BY DEF Remove
  <2>2. CASE Granted(l)
    <3>1. \A u \in Requests : call[u].kind = "unlock" /\ call[u].lockId = l => pc[u] = "find"
      BY DEF Move, Advance, MakeRow, GiveUpRow, KeepRow, TakeBack, LookUp, Remove
    <3>2. locks[l] # NoLock
      BY <2>2, <3>1 DEF RowInv, GrantedLockKept
    <3> QED
      BY <2>1, <2>2, <3>2, RowChanges DEF Granted, Answered
  <2>3. CASE ~ Granted(l)
    <3>1. l = r
      BY <2>3 DEF Move, Granted, Answered
    <3>2. KeepRow(r) \/ MakeRow(r)
      BY <3>1 DEF Move, Granted, Answered, Advance, GiveUpRow, TakeBack, LookUp, Remove, RowInv,
         RollbackRefuses
    <3>3. CASE KeepRow(r)
      BY <3>1, <3>3 DEF KeepRow, RowInv, VerifiedHasRow
    <3>4. CASE MakeRow(r)
      <4>1. lockRequest[r] \in LockRequest
        BY DEF TypeOK
      <4>2. locks'[r] = [serviceIds |-> lockRequest[r].services, ttl |-> lockRequest[r].expiration]
        BY <1>0, <3>4 DEF MakeRow, CreateLock
      <4> QED
        BY <3>1, <4>1, <4>2, LockyAssumptions DEF LockRequest, Lock
    <3> QED
      BY <3>2, <3>3, <3>4
  <2> QED
    BY <2>2, <2>3
<1>7. ReleasedStaysReleased'
  <2> SUFFICES ASSUME NEW u \in Requests, call[u].kind = "unlock", pc'[u] = "done",
                      answer'[u] \in {204, 404}
               PROVE  locks'[call[u].lockId] = NoLock
    BY <1>0 DEF ReleasedStaysReleased, Answered
  <2>0. call[u].lockId \in Requests
    BY DEF TypeOK, Call
  <2>1. CASE u = r /\ Remove(r)
    BY <1>0, <2>0, <2>1 DEF Remove, DeleteLock
  <2>2. CASE u = r /\ LookUp(r)
    BY <2>2 DEF LookUp
  <2>3. CASE u = r /\ ~ Remove(r) /\ ~ LookUp(r)
    <3>1. pc[r] \in {"check", "fetch"} /\ UNCHANGED locks
      BY <2>3 DEF Move, Advance, MakeRow, GiveUpRow, KeepRow, TakeBack, KindsAgree
    <3> QED
      BY <2>3, <3>1 DEF KindsAgree, RowInv, UnlocksDelete
  <2>4. CASE u # r
    <3>1. locks[call[u].lockId] = NoLock
      BY <2>4 DEF Move, RowInv, ReleasedStaysReleased, Answered
    <3>2. ~ (call[u].lockId = r /\ pc[r] \in {"insert", "rollback"})
      BY <2>4 DEF RowInv, UnlocksGranted, Granted, Answered
    <3> QED
      BY <1>0, <2>0, <3>1, <3>2, RowChanges DEF Remove, DeleteLock
  <2> QED
    BY <2>1, <2>2, <2>3, <2>4
<1> QED
  BY <1>1, <1>2, <1>3, <1>4, <1>5, <1>6, <1>7 DEF RowInv

\* An arrival keeps the invariant: a DELETE names a lock its client was given.
LEMMA ArriveKeepsRowInv ==
    ASSUME IInv, RowInv, NEW r \in Requests, Arrive(r)
    PROVE  RowInv'
<1> USE DEF IInv
<1> DEFINE Arrived(p, c) ==
        /\ pc[r] = "idle" /\ pc' = [pc EXCEPT ![r] = p] /\ call' = [call EXCEPT ![r] = c]
        /\ UNCHANGED <<locks, answer>>
        /\ p \in {"check", "find"}
        /\ p = "find" <=> c.kind = "unlock"
        /\ c.kind = "unlock" => c.lockId = r \/ Granted(c.lockId)
<1>1. \E p, c : Arrived(p, c)
  <2>1. ASSUME NEW body, PostLock(r, body)
        PROVE  Arrived("check", [kind |-> "lock", services |-> body.services, lockId |-> r])
    BY <2>1 DEF PostLock, Receive
  <2>2. ASSUME NEW s, PostReserve(r, s)
        PROVE  Arrived("check", [kind |-> "reserve", services |-> {s}, lockId |-> r])
    BY <2>2 DEF PostReserve, Receive
  <2>3. ASSUME NEW l, DeleteLockId(r, l)
        PROVE  Arrived("find", [kind |-> "unlock", services |-> {}, lockId |-> l])
    BY <2>3 DEF DeleteLockId, Receive
  <2> HIDE DEF Arrived
  <2> QED
    BY <2>1, <2>2, <2>3 DEF Arrive
<1>2. \A q \in Requests : q # r => pc'[q] = pc[q] /\ call'[q] = call[q]
  BY <1>1 DEF TypeOK
<1>3. /\ pc[r] = "idle" /\ pc'[r] \in {"check", "find"} /\ UNCHANGED <<locks, answer>>
      /\ pc'[r] = "find" <=> call'[r].kind = "unlock"
      /\ call'[r].kind = "unlock" => call'[r].lockId = r \/ Granted(call'[r].lockId)
  BY <1>1 DEF TypeOK
<1>4. \A l \in Requests : /\ Granted(l) => Granted(l)'
                         /\ Granted(l)' => Granted(l)
  BY <1>1, <1>2, <1>3 DEF Granted, Answered
<1>5. UnlocksGranted'
  <2> SUFFICES ASSUME NEW u \in Requests, call'[u].kind = "unlock", call'[u].lockId # u
               PROVE  Granted(call[u].lockId)'
    BY DEF UnlocksGranted
  <2>1. Granted(call'[u].lockId)
    BY <1>2, <1>3 DEF RowInv, UnlocksGranted
  <2>2. call'[u].lockId # r
    BY <1>1, <2>1 DEF Granted, Answered
  <2> QED
    BY <1>1, <2>1, <2>2 DEF Granted, Answered, TypeOK
<1>6. VerifiedHasRow' /\ RollbackRefuses' /\ UnlocksDelete'
  BY <1>1, <1>2, <1>3 DEF RowInv, VerifiedHasRow, RollbackRefuses, UnlocksDelete
<1>7. RefusalLeavesNoRow'
  BY <1>1, <1>2, <1>3 DEF RowInv, RefusalLeavesNoRow, Answered
<1>8. GrantedLockKept'
  BY <1>2, <1>3, <1>4 DEF RowInv, GrantedLockKept, UnlocksDelete
<1>9. ReleasedStaysReleased'
  BY <1>1, <1>2, <1>3 DEF RowInv, ReleasedStaysReleased, Answered
<1> QED
  BY <1>5, <1>6, <1>7, <1>8, <1>9 DEF RowInv

\* The clock removes no row.
LEMMA TickKeepsRowInv == ASSUME IInv, RowInv, TypeOK', Tick PROVE RowInv'
<1>1. \A l \in Requests : locks'[l] = NoLock <=> locks[l] = NoLock
  <2> SUFFICES ASSUME NEW l \in Requests, locks[l] # NoLock, locks[l].ttl > 0
               PROVE  locks'[l] # NoLock
    BY DEF Tick
  <2>1. locks[l] \in Lock /\ locks'[l] = [locks[l] EXCEPT !.ttl = @ - 1]
    BY DEF Tick, IInv, TypeOK
  <2>2. locks'[l] \in Lock
    BY <2>1 DEF Lock, Never
  <2> QED
    BY <2>2, LockyAssumptions
<1>2. UNCHANGED locals
  BY DEF Tick
<1>3. \A u \in Requests : call[u].lockId \in Requests
  BY DEF IInv, TypeOK, Call
<1> QED
  BY <1>1, <1>2, <1>3 DEF locals, RowInv, UnlocksGranted, VerifiedHasRow, RollbackRefuses,
     UnlocksDelete, RefusalLeavesNoRow, GrantedLockKept, ReleasedStaysReleased, Granted, Answered

\* Every step of the system keeps the invariant.
LEMMA NextKeepsRowInv == IInv /\ RowInv /\ TypeOK' /\ [Next]_vars => RowInv'
<1> SUFFICES ASSUME IInv, RowInv, TypeOK', [Next]_vars PROVE RowInv'
  OBVIOUS
<1>1. ASSUME NEW r \in Requests, Arrive(r) PROVE RowInv'
  BY <1>1, ArriveKeepsRowInv
<1>2. ASSUME NEW r \in Requests, Step(r) \/ Crash(r) PROVE RowInv'
  BY <1>2, StepMoves, MoveKeepsRowInv DEF IInv, RowInv
<1>3. CASE Tick
  BY <1>3, TickKeepsRowInv
<1>4. CASE UNCHANGED <<locks, locals>>
  BY <1>4 DEF locals, RowInv, UnlocksGranted, VerifiedHasRow, RollbackRefuses,
     UnlocksDelete, RefusalLeavesNoRow, GrantedLockKept, ReleasedStaysReleased, Granted, Answered
<1> QED
  BY <1>1, <1>2, <1>3, <1>4 DEF Next, vars, ActivityChanges

\* RowInv is inductive together with IInv.
LEMMA RowInvInductive ==
    /\ Init => IInv /\ RowInv
    /\ IInv /\ RowInv /\ [Next]_vars => IInv' /\ RowInv'
<1>1. Init => RowInv
  BY DEF Init, RowInv, UnlocksGranted, VerifiedHasRow, RollbackRefuses, UnlocksDelete,
     RefusalLeavesNoRow, GrantedLockKept, ReleasedStaysReleased, Granted, Answered
<1>2. IInv /\ [Next]_vars => TypeOK'
  BY NextKeepsTypes DEF IInv
<1> QED
  BY <1>1, <1>2, InitIInv, NextKeepsIInv, NextKeepsRowInv

\* RowInv holds in every state of Locky.
THEOREM RowInvariant == Spec => []RowInv
  BY RowInvInductive, PTL DEF Spec

\* No refusal of locky blocks anybody: whatever fails, an answer 204, 404 or 409
\* means that the request has no row.
THEOREM RefusalsLeaveNoRow == Spec => []RefusalLeavesNoRow
  BY RowInvariant, PTL DEF RowInv

\* A lock whose id was handed out is not removed behind the client's back.
THEOREM GrantedLocksKept == Spec => []GrantedLockKept
  BY RowInvariant, PTL DEF RowInv

\* A lock whose DELETE was answered is gone for good.
THEOREM ReleasedLocksGone == Spec => []ReleasedStaysReleased
  BY RowInvariant, PTL DEF RowInv

-----------------------------------------------------------------------------
\* A blockee that is active.  A reservation of a service that it keeps out waits for
\* its answer, which does not let the reservation pass.
IsOf(r, s) == call[r].kind = "reserve" /\ call[r].services = {s}

KeptOut(r, b) ==
    /\ pc[r] = "insert" => b \in lockRequest[r].services
    /\ pc[r] = "verify" => b \in pending[r]
    /\ ~ Granted(r)

\* A step leaves the locals of the other requests alone.
LEMMA OthersLeftAlone ==
    ASSUME TypeOK, NEW r \in Requests, Step(r) \/ Crash(r), NEW q \in Requests \ {r}
    PROVE  /\ pc'[q] = pc[q] /\ answer'[q] = answer[q]
           /\ lockRequest'[q] = lockRequest[q] /\ pending'[q] = pending[q]
  BY DEF TypeOK, Step, Crash, LockCheck, LockInsert, UnlockFind, UnlockDelete,
     ReserveCheck, ReserveFetch, ReserveInsert, ReserveVerify, ReserveGrant, ReserveRollback,
     ReadRejects, VerifyRejects, InsertRejects, DeleteRejects, Goto, Answer, PassCheck, Throw

LEMMA StepKeepsOut ==
    ASSUME IInv, RowInv, NEW r \in Requests, Step(r) \/ Crash(r),
           NEW q \in Requests, NEW s \in Services, NEW b \in active, IsOf(q, s), Blocks(s, b),
           KeptOut(q, b)
    PROVE  KeptOut(q, b)'
<1>0. /\ TypeOK /\ KindsAgree
      /\ pc[r] = "rollback" => answer[r] \in {409, 500}
  BY DEF IInv, RowInv, RollbackRefuses
<1>1. CASE q # r
  BY <1>0, <1>1, OthersLeftAlone DEF KeptOut, Granted, Answered
<1>2. CASE q = r
  <2>0. call[r].kind = "reserve" /\ call[r].services = {s} /\ s \in DOMAIN Blockees /\ b \in Blockees[s]
    BY <1>2 DEF IsOf, Blocks
  <2> USE <1>0, <1>2, <2>0 DEF TypeOK, KindsAgree, At, KeptOut, Granted, Answered, Answer, Goto
  <2>1. CASE ReserveCheck(r) \/ ReadRejects(r)
    BY <2>1 DEF ReserveCheck, ReadRejects, PassCheck
  <2>2. CASE ReserveFetch(r)
    BY <2>2 DEF ReserveFetch
  <2>3. CASE ReserveInsert(r) \/ InsertRejects(r)
    BY <2>3 DEF ReserveInsert, InsertRejects
  <2>4. CASE (\E t \in Services : ReserveVerify(r, t)) \/ VerifyRejects(r)
    BY <2>4 DEF ReserveVerify, VerifyRejects, Throw
  <2>5. CASE ReserveGrant(r) \/ ReserveRollback(r) \/ DeleteRejects(r) \/ Crash(r)
    BY <2>5 DEF ReserveGrant, ReserveRollback, DeleteRejects, Crash, Waiting
  <2> QED
    BY <2>1, <2>2, <2>3, <2>4, <2>5 DEF Step, LockCheck, LockInsert, UnlockFind, UnlockDelete
<1> QED
  BY <1>1, <1>2

\* An arrival is kept out, too, and changes nothing of the others.
LEMMA ArriveKeepsOut ==
    ASSUME TypeOK, NEW r \in Requests, Arrive(r)
    PROVE  /\ \A b : KeptOut(r, b)'
           /\ \A q \in Requests \ {r} : call'[q] = call[q] /\ \A b : KeptOut(q, b) => KeptOut(q, b)'
           /\ UNCHANGED before
<1>1. /\ pc'[r] \in {"check", "find"} /\ UNCHANGED <<answer, pending, before>>
      /\ \A q \in Requests \ {r} : /\ pc'[q] = pc[q] /\ call'[q] = call[q]
                                   /\ lockRequest'[q] = lockRequest[q]
  BY DEF TypeOK, Arrive, PostLock, PostReserve, DeleteLockId, Receive
<1> QED
  BY <1>1 DEF KeptOut, Granted, Answered

\* What a DELETE answered by 404 found, and why a reservation is refused.
LEMMA NotFoundReason ==
    ASSUME TypeOK, NEW r \in Requests, Step(r) \/ Crash(r), call[r].kind = "unlock",
           Answered(r, 404)'
    PROVE  pc[r] = "find" /\ locks[call[r].lockId] = NoLock
<1> QED
  BY DEF TypeOK, Step, Crash, LockCheck, LockInsert, UnlockFind, UnlockDelete, ReserveCheck,
     ReserveFetch, ReserveInsert, ReserveVerify, ReserveGrant, ReserveRollback, ReadRejects,
     VerifyRejects, InsertRejects, DeleteRejects, Goto, Answer, PassCheck, Throw, At, Answered

LEMMA RefusalReason ==
    ASSUME IInv, RowInv, NEW r \in Requests, Step(r) \/ Crash(r),
           NEW s \in Services, IsOf(r, s)
    PROVE  /\ pc'[r] = "verify" =>
                \/ pc[r] = "verify" /\ pending'[r] \subseteq pending[r]
                \/ pending'[r] = Blockees[s]
           /\ pc'[r] \in {"rollback", "done"} /\ answer'[r] = 409 =>
                \/ pc[r] = "rollback" /\ answer[r] = 409
                \/ FindNonexpiredLocks({s}) # {}
                \/ pc[r] = "verify" /\ \E b \in pending[r] : b \in active
<1>0. TypeOK /\ KindsAgree /\ call[r].kind = "reserve" /\ call[r].services = {s}
  BY DEF IInv, IsOf
<1> USE <1>0 DEF TypeOK, At, Goto, Answer
<1>1. CASE ReserveCheck(r)
  <2>1. \/ FindNonexpiredLocks({s}) # {} /\ Answer(r, 409)
        \/ PassCheck(r, "fetch")
    BY ONLY <1>0, <1>1 DEF ReserveCheck
  <2>2. PassCheck(r, "fetch") => pc'[r] = "fetch"
    BY DEF PassCheck
  <2>3. Answer(r, 409) => pc'[r] = "done"
    OBVIOUS
  <2> QED
    BY <2>1, <2>2, <2>3
<1>2. CASE ReserveFetch(r) \/ ReadRejects(r) \/ InsertRejects(r) \/ DeleteRejects(r)
  BY <1>2 DEF ReserveFetch, ReadRejects, InsertRejects, DeleteRejects
<1>3. CASE ReserveInsert(r)
  <2>1. pc[r] = "insert" /\ pending'[r] = lockRequest[r].services
    BY <1>3 DEF ReserveInsert
  <2>2. lockRequest[r].services = Blockees[s]
    BY <2>1 DEF IInv, RowsListBlockees
  <2> QED
    BY <1>3, <2>1, <2>2 DEF ReserveInsert
<1>4. CASE (\E b \in Services : ReserveVerify(r, b)) \/ VerifyRejects(r)
  BY <1>4 DEF ReserveVerify, VerifyRejects, Throw
<1>5. CASE ReserveGrant(r) \/ ReserveRollback(r) \/ Crash(r)
  BY <1>5 DEF ReserveGrant, ReserveRollback, Crash, Waiting
<1> QED
  BY <1>1, <1>2, <1>3, <1>4, <1>5 DEF Step, LockCheck, LockInsert, UnlockFind, UnlockDelete

\* A service that is active all along keeps every service it blocks out, in whatever
\* order its answer and the other answers arrive.
THEOREM BusyKeepsOut == Spec => BusyBlockeeRefuses
<1> SUFFICES ASSUME NEW b \in Services
             PROVE  Spec => ([](b \in active) =>
                       [](\A r \in Requests, s \in Services :
                            call[r].kind = "reserve" /\ call[r].services = {s} /\ Blocks(s, b)
                                => ~ Granted(r)))
  BY DEF BusyBlockeeRefuses
<1> DEFINE AllKeptOut ==
      \A r \in Requests, s \in Services : IsOf(r, s) /\ Blocks(s, b) => KeptOut(r, b)
<1>1. Init => AllKeptOut
  BY DEF Init, IsOf
<1>2. IInv /\ RowInv /\ b \in active /\ AllKeptOut /\ [Next]_vars => AllKeptOut'
  <2> SUFFICES ASSUME IInv, RowInv, b \in active, AllKeptOut, [Next]_vars,
                      NEW q \in Requests, NEW s \in Services, IsOf(q, s)', Blocks(s, b)
               PROVE  KeptOut(q, b)'
    BY DEF Blocks
  <2>1. CASE UNCHANGED locals
    BY <2>1 DEF IsOf, KeptOut, Granted, Answered, locals
  <2>2. ASSUME NEW r \in Requests, Arrive(r) PROVE KeptOut(q, b)'
    BY <2>2, ArriveKeepsOut DEF IInv, IsOf
  <2>3. ASSUME NEW r \in Requests, Step(r) \/ Crash(r) PROVE KeptOut(q, b)'
    <3>1. UNCHANGED call
      BY <2>3, StepMoves DEF IInv, RowInv, Move
    <3> QED
      BY <2>3, <3>1, StepKeepsOut DEF IsOf
  <2> QED
    BY <2>1, <2>2, <2>3 DEF Next, Tick, ActivityChanges, vars
<1>3. AllKeptOut => \A r \in Requests, s \in Services :
        call[r].kind = "reserve" /\ call[r].services = {s} /\ Blocks(s, b) => ~ Granted(r)
  BY DEF IsOf, KeptOut
<1> HIDE DEF AllKeptOut
<1> QED
  BY <1>1, <1>2, <1>3, InductiveInvariant, RowInvariant, PTL DEF Spec

-----------------------------------------------------------------------------
\* Locky implements Leases.

\* Where the lock of l stands.
LEMMA LeaseOf ==
    ASSUME NEW l \in Requests
    PROVE  lease[l] = IF NonExpired(l) THEN "held"
                      ELSE IF pc[l] \in {"idle", "check", "fetch", "insert"}
                           THEN "unused" ELSE "over"
  BY DEF lease

\* and after the step.
LEMMA LeaseOfNext ==
    ASSUME NEW l \in Requests
    PROVE  lease'[l] = IF NonExpired(l)' THEN "held"
                       ELSE IF pc'[l] \in {"idle", "check", "fetch", "insert"}
                            THEN "unused" ELSE "over"
  BY DEF lease

\* A step that changes the lease of one request in an order Leases knows is a
\* step of Leases.
LEMMA OneLeaseSteps ==
    ASSUME NEW r \in Requests, \A l \in Requests : l # r => lease'[l] = lease[l],
           \/ lease'[r] = lease[r]
           \/ lease[r] = "unused" /\ lease'[r] \in {"held", "over"}
           \/ lease[r] = "held" /\ lease'[r] = "over"
    PROVE  [Lease!Next]_lease
<1>1. /\ lease = [l \in Requests |-> lease[l]]
      /\ lease' = [l \in Requests |-> lease'[l]]
  BY DEF lease
<1> HIDE DEF lease
<1>2. CASE lease'[r] = lease[r]
  <2>1. lease' = lease
    BY <1>1, <1>2
  <2> QED
    BY <2>1
<1>3. CASE lease[r] = "unused" /\ lease'[r] = "held"
  <2>1. lease' = [lease EXCEPT ![r] = "held"]
    BY <1>1, <1>3
  <2> QED
    BY <1>3, <2>1 DEF Lease!Next, Lease!Grant
<1>4. CASE lease[r] = "unused" /\ lease'[r] = "over"
  <2>1. lease' = [lease EXCEPT ![r] = "over"]
    BY <1>1, <1>4
  <2> QED
    BY <1>4, <2>1 DEF Lease!Next, Lease!Forgo
<1>5. CASE lease[r] = "held" /\ lease'[r] = "over"
  <2>1. lease' = [l \in Requests |-> IF l \in {r} THEN "over" ELSE lease[l]]
    BY <1>1, <1>5
  <2>2. Lease!End({r})
    BY <1>5, <2>1 DEF Lease!End
  <2> QED
    BY <2>2 DEF Lease!Next
<1> QED
  BY <1>2, <1>3, <1>4, <1>5

\* A request without a row has not begun its lease, or has forgone it.
LEMMA NoRowNoLease ==
    ASSUME IInv, NEW r \in Requests, ~ Inserted(r)
    PROVE  locks[r] = NoLock /\ ~ NonExpired(r)
  BY DEF IInv, RowsHaveOwners, NonExpired

\* Every move of a handler is a step of Leases, or leaves the leases alone.
LEMMA MoveOfLeases ==
    ASSUME IInv, RowInv, TypeOK', NEW r \in Requests, Move(r)
    PROVE  [Lease!Next]_lease
<1>0. /\ locks \in [Requests -> Lock \cup {NoLock}] /\ call[r].lockId \in Requests
      /\ \A q \in Requests : q # r => pc'[q] = pc[q]
  BY DEF IInv, TypeOK, Call, Move
<1>1. ASSUME NEW l \in Requests, l # r, ~ (Remove(r) /\ l = call[r].lockId)
      PROVE  lease'[l] = lease[l]
  <2>1. locks'[l] = locks[l] /\ pc'[l] = pc[l]
    BY <1>0, <1>1, RowChanges DEF IInv
  <2> QED
    BY <2>1, LeaseOf, LeaseOfNext DEF NonExpired
<1>2. CASE Advance(r)
  <2>1. ~ NonExpired(r) /\ ~ NonExpired(r)'
    BY <1>2, NoRowNoLease DEF Advance, Inserted, NonExpired
  <2>2. ~ Remove(r)
    BY <1>2 DEF Advance, Remove
  <2> QED
    BY <1>1, <1>2, <2>1, <2>2, LeaseOf, LeaseOfNext, OneLeaseSteps DEF Advance
<1>3. CASE MakeRow(r)
  <2>1. lease[r] = "unused"
    BY <1>3, NoRowNoLease, LeaseOf DEF MakeRow, Inserted
  <2>2. lease'[r] \in {"held", "over"}
    BY <1>3, LeaseOfNext DEF MakeRow
  <2>3. ~ Remove(r)
    BY <1>3 DEF MakeRow, Remove
  <2> QED
    BY <1>1, <2>1, <2>2, <2>3, OneLeaseSteps
<1>4. CASE GiveUpRow(r)
  <2>1. lease[r] = "unused"
    BY <1>4, NoRowNoLease, LeaseOf DEF GiveUpRow, Inserted
  <2>2. lease'[r] = "over"
    BY <1>4, NoRowNoLease, LeaseOfNext DEF GiveUpRow, Inserted, NonExpired
  <2>3. ~ Remove(r)
    BY <1>4 DEF GiveUpRow, Remove
  <2> QED
    BY <1>1, <2>1, <2>2, <2>3, OneLeaseSteps
<1>5. CASE KeepRow(r) \/ LookUp(r)
  <2>1. UNCHANGED locks /\ pc[r] \notin {"idle", "check", "fetch", "insert"}
        /\ pc'[r] \notin {"idle", "check", "fetch", "insert"}
    BY <1>5 DEF KeepRow, LookUp
  <2>2. lease'[r] = lease[r]
    BY <2>1, LeaseOf, LeaseOfNext DEF NonExpired
  <2>3. \A l \in Requests : l # r => lease'[l] = lease[l]
    BY <1>0, <2>1, LeaseOf, LeaseOfNext DEF NonExpired
  <2> QED
    BY <2>2, <2>3, OneLeaseSteps
<1>6. CASE TakeBack(r)
  <2>1. lease[r] \in {"held", "over"}
    BY <1>6, LeaseOf DEF TakeBack
  <2>2. lease'[r] = "over" \/ lease'[r] = lease[r]
    BY <1>0, <1>6, LeaseOf, LeaseOfNext DEF TakeBack, DeleteLock, NonExpired
  <2>3. ~ Remove(r)
    BY <1>6 DEF TakeBack, Remove
  <2> QED
    BY <1>1, <2>1, <2>2, <2>3, OneLeaseSteps
<1>7. CASE Remove(r)
  <2> DEFINE k == call[r].lockId
  <2>1. k = r \/ Granted(k)
    BY <1>7 DEF RowInv, UnlocksGranted, Remove
  <2>2. locks' = [locks EXCEPT ![k] = NoLock]
    BY <1>7 DEF Remove, DeleteLock
  <2>3. pc[k] \in {"delete", "done"} /\ pc'[k] = "done"
    BY <1>0, <1>7, <2>1 DEF Granted, Answered, Remove
  <2>4. lease[k] \in {"held", "over"} /\ lease'[k] = "over"
    BY <1>0, <2>2, <2>3, LeaseOf, LeaseOfNext DEF NonExpired
  <2>5. lease'[r] = "over" /\ (k # r => lease[r] = "over")
    <3>1. locks[r] = NoLock
      BY <1>7 DEF IInv, RowsHaveOwners, Remove
    <3>2. locks'[r] = NoLock /\ pc[r] = "delete" /\ pc'[r] = "done"
      BY <1>0, <1>7, <2>2, <3>1 DEF Remove
    <3> QED
      BY <3>1, <3>2, LeaseOf, LeaseOfNext DEF NonExpired
  <2>6. \A l \in Requests : l # k => lease'[l] = lease[l]
    BY <1>1, <2>5
  <2> QED
    BY <1>0, <2>4, <2>6, OneLeaseSteps
<1> QED
  BY <1>2, <1>3, <1>4, <1>5, <1>6, <1>7 DEF Move

\* A request that arrives goes on to its check, or needs no lease.
LEMMA ArriveOfLeases ==
    ASSUME IInv, NEW r \in Requests, Arrive(r)
    PROVE  [Lease!Next]_lease
<1>1. pc[r] = "idle" /\ UNCHANGED locks /\ \E p \in {"check", "find"} : pc' = [pc EXCEPT ![r] = p]
  BY DEF Arrive, PostLock, PostReserve, DeleteLockId, Receive
<1>2. \A l \in Requests : l # r => pc'[l] = pc[l]
  BY <1>1 DEF IInv, TypeOK
<1>3. \A l \in Requests : l # r => lease'[l] = lease[l]
  BY <1>1, <1>2, LeaseOf, LeaseOfNext DEF NonExpired
<1>4. lease[r] = "unused" /\ lease'[r] \in {"unused", "over"}
  BY <1>1, NoRowNoLease, LeaseOf, LeaseOfNext DEF Inserted, NonExpired
<1> QED
  BY <1>3, <1>4, OneLeaseSteps

\* The clock ends the leases of the locks that expire at the same instant.
LEMMA TickOfLeases == ASSUME IInv, TypeOK', Tick PROVE [Lease!Next]_lease
<1> DEFINE S == {l \in Requests : NonExpired(l) /\ ~ NonExpired(l)'}
<1>1. UNCHANGED locals
  BY DEF Tick
<1>2. ASSUME NEW l \in Requests, l \in S PROVE lease[l] = "held" /\ lease'[l] = "over"
  BY <1>1, <1>2, LeaseOf, LeaseOfNext DEF IInv, RowsHaveOwners, Inserted, NonExpired, locals
<1>3. ASSUME NEW l \in Requests, l \notin S PROVE lease'[l] = lease[l]
  <2>1. NonExpired(l)' <=> NonExpired(l)
    <3>1. CASE NonExpired(l)
      BY <1>3, <3>1
    <3>2. CASE ~ NonExpired(l)
      <4>1. locks'[l] = locks[l]
        <5> SUFFICES ASSUME locks[l] # NoLock, locks[l].ttl > 0 PROVE FALSE
          BY DEF Tick
        <5> QED
          BY <3>2 DEF NonExpired
      <4> QED
        BY <3>2, <4>1 DEF NonExpired
    <3> QED
      BY <3>1, <3>2
  <2> QED
    BY <1>1, <2>1, LeaseOf, LeaseOfNext DEF locals
<1>4. lease' = [l \in Requests |-> IF l \in S THEN "over" ELSE lease[l]]
  <2>1. lease' = [l \in Requests |-> lease'[l]]
    BY DEF lease
  <2> HIDE DEF lease, S
  <2> QED
    BY <1>2, <1>3, <2>1
<1>5. Lease!End(S)
  BY <1>2, <1>4 DEF Lease!End
<1> QED
  BY <1>5 DEF Lease!Next

\* Every step of the system is a step of Leases, or leaves the leases alone.
LEMMA NextOfLeases == IInv /\ RowInv /\ TypeOK' /\ [Next]_vars => [Lease!Next]_lease
<1> SUFFICES ASSUME IInv, RowInv, TypeOK', [Next]_vars PROVE [Lease!Next]_lease
  OBVIOUS
<1>1. ASSUME NEW r \in Requests, Arrive(r) PROVE [Lease!Next]_lease
  BY <1>1, ArriveOfLeases
<1>2. ASSUME NEW r \in Requests, Step(r) \/ Crash(r) PROVE [Lease!Next]_lease
  BY <1>2, StepMoves, MoveOfLeases DEF IInv, RowInv
<1>3. CASE Tick
  BY <1>3, TickOfLeases
<1>4. CASE UNCHANGED <<locks, locals>>
  <2>1. lease' = lease
    BY <1>4 DEF locals, lease, NonExpired
  <2> QED
    BY <2>1
<1> QED
  BY <1>1, <1>2, <1>3, <1>4 DEF Next, vars, ActivityChanges

\* Locky implements Leases: whatever races, fails or crashes, no lock comes into
\* force twice, or after its request was over.
THEOREM LeasesImplemented == Spec => ImplementsLeases
<1>1. Init => Lease!Init
  BY DEF Init, Lease!Init, lease, NonExpired
<1> QED
  BY <1>1, TypeCorrect, InductiveInvariant, RowInvariant, NextOfLeases, PTL
     DEF Spec, ImplementsLeases, Lease!Spec

=============================================================================
