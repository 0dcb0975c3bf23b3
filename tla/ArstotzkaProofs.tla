-------------------------- MODULE ArstotzkaProofs --------------------------
(***************************************************************************)
(* The theorem about the services together, for any number of services and *)
(* of instances of StatefulMediator, any programs, retries and bounds: two *)
(* services that block each other are active together only if their        *)
(* reservations raced or an action came after its lock had ended.  It      *)
(* rests on the invariants of locky and of actiony, which clients call     *)
(* within what either expects.                                             *)
(***************************************************************************)
EXTENDS Arstotzka, SequenceTheorems, TLAPS

P == INSTANCE LockyProofs WITH
       LockBodies <- {}, MaxInFlight <- LockyInFlight,
       call <- lockCall, pc <- lockPc, answer <- lockAnswer, before <- lockBefore,
       active <- {s \in Services : A!ActiveOf(s) # {}}

Q == INSTANCE ActionyProofs WITH
       BodyStatuses <- {"completed"}, MaxInFlight <- ActionyInFlight,
       call <- actionCall, pc <- actionPc, answer <- actionAnswer, before <- actionBefore

-----------------------------------------------------------------------------
\* L and P are one instance, and so are A and Q.
LEMMA SameLocky ==
    /\ \A q : L!Step(q) => P!Step(q)
    /\ \A q : L!Crash(q) => P!Crash(q)
    /\ L!Tick => P!Tick
    /\ L!Init => P!Init
    /\ \A q, s : L!PostReserve(q, s) => P!PostReserve(q, s)
    /\ \A q, l : L!DeleteLockId(q, l) => P!DeleteLockId(q, l)
    /\ \A q, c : L!Answered(q, c) = P!Answered(q, c)
    /\ \A q : L!Granted(q) = P!Granted(q)
    /\ \A q : L!NonExpired(q) = P!NonExpired(q)
<1>1. \A q : L!Step(q) => P!Step(q)
  BY DEF P!Step, L!Step, P!LockCheck, L!LockCheck, P!LockInsert, L!LockInsert,
     P!UnlockFind, L!UnlockFind, P!UnlockDelete, L!UnlockDelete,
     P!ReserveCheck, L!ReserveCheck, P!ReserveFetch, L!ReserveFetch,
     P!ReserveInsert, L!ReserveInsert, P!ReserveVerify, L!ReserveVerify,
     P!ReserveGrant, L!ReserveGrant, P!ReserveRollback, L!ReserveRollback,
     P!ReadRejects, L!ReadRejects, P!VerifyRejects, L!VerifyRejects,
     P!InsertRejects, L!InsertRejects, P!DeleteRejects, L!DeleteRejects, P!At, L!At,
     P!Answer, L!Answer, P!Goto, L!Goto, P!PassCheck, L!PassCheck, P!Throw, L!Throw,
     P!CreateLock, L!CreateLock, P!DeleteLock, L!DeleteLock,
     P!FindNonexpiredLocks, L!FindNonexpiredLocks, P!NonExpired, L!NonExpired,
     P!Waiting, L!Waiting
<1>2. \A q : L!Crash(q) => P!Crash(q)
  BY DEF P!Crash, L!Crash, P!Waiting, L!Waiting
<1>3. L!Tick => P!Tick
  BY DEF P!Tick, L!Tick, P!locals, L!locals
<1>4. L!Init => P!Init
  BY DEF P!Init, L!Init, P!NoLockRequest, L!NoLockRequest
<1>5. \A S : L!Cardinality(S) = P!Cardinality(S)
  BY DEF L!Cardinality, P!Cardinality
<1>6. /\ \A q, s : L!PostReserve(q, s) => P!PostReserve(q, s)
      /\ \A q, l : L!DeleteLockId(q, l) => P!DeleteLockId(q, l)
      /\ \A q, c : L!Answered(q, c) = P!Answered(q, c)
      /\ \A q : L!Granted(q) = P!Granted(q)
      /\ \A q : L!NonExpired(q) = P!NonExpired(q)
  BY <1>5 DEF P!PostReserve, L!PostReserve, P!DeleteLockId, L!DeleteLockId, P!Answered, L!Answered,
     P!Granted, L!Granted, P!Receive, L!Receive, P!NoLockRequest, L!NoLockRequest,
     P!InFlight, L!InFlight, P!Waiting, L!Waiting, P!NonExpired, L!NonExpired
<1> QED
  BY <1>1, <1>2, <1>3, <1>4, <1>6

LEMMA SameActiony ==
    /\ \A q : A!Step(q) => Q!Step(q)
    /\ \A q : A!Crash(q) => Q!Crash(q)
    /\ A!Init => Q!Init
    /\ \A q, s, m : A!PostAction(q, s, m) => Q!PostAction(q, s, m)
    /\ \A q, a, s, m : A!PatchAction(q, a, s, m) => Q!PatchAction(q, a, s, m)
<1>0. \A S : A!Cardinality(S) = Q!Cardinality(S)
  BY DEF A!Cardinality, Q!Cardinality
<1>1. /\ \A s : A!ActiveOf(s) = Q!ActiveOf(s)
      /\ \A S : A!Latest(S) = Q!Latest(S)
      /\ \A q, n : A!NewAction(q, n) = Q!NewAction(q, n)
      /\ \A r, s, m : A!Updated(r, s, m) = Q!Updated(r, s, m)
      /\ A!Rows = Q!Rows
  BY DEF A!ActiveOf, Q!ActiveOf, A!Active, Q!Active, A!Rows, Q!Rows, A!Latest, Q!Latest,
     A!NewAction, Q!NewAction, A!Updated, Q!Updated, A!ClosedStatuses, Q!ClosedStatuses,
     A!Unset, Q!Unset
<1>2. \A s : A!ExceedsLimitation(s) = Q!ExceedsLimitation(s)
  BY <1>0, <1>1 DEF A!ExceedsLimitation, Q!ExceedsLimitation
<1>3. \A q : A!Step(q) => Q!Step(q)
  BY <1>1, <1>2 DEF A!Step, Q!Step, A!CreateFetch, Q!CreateFetch, A!CreateCount, Q!CreateCount,
     A!CreateInsert, Q!CreateInsert, A!ReplaceBegin, Q!ReplaceBegin, A!ReplaceSelect,
     Q!ReplaceSelect, A!ReplaceCommit, Q!ReplaceCommit, A!UpdateFind, Q!UpdateFind,
     A!ReadRow, Q!ReadRow, A!Overwritten, Q!Overwritten, A!Written, Q!Written,
     A!UpdateWrite, Q!UpdateWrite, A!ReadRejects, Q!ReadRejects, A!WriteRejects, Q!WriteRejects,
     A!At, Q!At, A!Goto, Q!Goto, A!Answer, Q!Answer, A!PassCount, Q!PassCount, A!NoWrite, Q!NoWrite,
     A!Insert, Q!Insert, A!Replace, Q!Replace, A!Update, Q!Update,
     A!ClosedStatuses, Q!ClosedStatuses
<1>4. /\ \A q : A!Crash(q) => Q!Crash(q)
      /\ A!Init => Q!Init
      /\ \A q, s, m : A!PostAction(q, s, m) => Q!PostAction(q, s, m)
      /\ \A q, a, s, m : A!PatchAction(q, a, s, m) => Q!PatchAction(q, a, s, m)
  BY <1>0, <1>1 DEF A!Crash, Q!Crash, A!Init, Q!Init, A!PostAction, Q!PostAction, A!PatchAction,
     Q!PatchAction, A!Receive, Q!Receive, A!InFlight, Q!InFlight, A!Waiting, Q!Waiting,
     A!Goto, Q!Goto, A!NoWrite, Q!NoWrite, A!NoCall, Q!NoCall, A!Unset, Q!Unset
<1> QED
  BY <1>3, <1>4

LEMMA ServersAssumed == P!LockyAssumptions /\ Q!ActionyAssumptions
<1>1. P!LockyAssumptions
  BY ServersAssumptions DEF P!LockyAssumptions, L!LockyAssumptions, P!LockRequest, L!LockRequest,
     P!Lock, L!Lock, P!Never, L!Never
<1>2. Q!ActionyAssumptions
  BY ServersAssumptions DEF Q!ActionyAssumptions, A!ActionyAssumptions, Q!Statuses, A!Statuses,
     Q!ClosedStatuses, A!ClosedStatuses, Q!Action, A!Action
<1> QED
  BY <1>1, <1>2

-----------------------------------------------------------------------------
\* What the clients do: types, and what they send.
Outcomes == {"awaited", "resolved", "notFound", "conflict", "failed"}
Record == [method : Methods, attempt : 1 .. scenario.retries + 1, outcome : Outcomes]

CInv ==
    /\ scenario \in Scenarios
    /\ lockId \in [Clients -> Requests \cup {None}]
    /\ actionId \in [Clients -> Requests \cup {None}]
    /\ calls \in [Clients -> Seq(Record)]
    /\ \A c \in Clients : Len(calls[c]) <= Len(Program(c))
    /\ late \subseteq Requests

Own(q) == ServiceOf(q[1])

\* An attempt is a request, and a request is of an instance that serves a service.
LEMMA RequestTypes ==
    ASSUME scenario \in Scenarios
    PROVE  /\ scenario.serviceOf \in [Clients -> Services] /\ scenario.retries \in Nat
           /\ \A c \in Clients : Program(c) \in Seq(SUBSET Methods) /\ Len(Program(c)) \in Nat
           /\ \A q \in Requests : q[1] \in Clients /\ Own(q) \in Services
           /\ \A c \in Clients : \A n \in 1 .. Len(Program(c)), k \in 1 .. scenario.retries + 1 :
                <<c, n, k>> \in Requests
<1>1. scenario \in Scenario
  BY ArstotzkaAssumptions
<1>2. /\ scenario.serviceOf \in [Clients -> Services] /\ scenario.retries \in Nat
      /\ \A c \in Clients : Program(c) \in Seq(SUBSET Methods) /\ Len(Program(c)) \in Nat
  BY <1>1, LenProperties DEF Scenario, Program
<1>3. ASSUME NEW q \in Requests PROVE q[1] \in Clients
  <2>1. PICK x \in Scenarios : q \in Sent(x)
    BY DEF Requests
  <2>2. PICK c \in Clients : q \in {c} \X (1 .. Len(x.program[c])) \X (1 .. x.retries + 1)
    BY <2>1 DEF Sent
  <2> QED
    BY <2>2
<1>4. ASSUME NEW c \in Clients, NEW n \in 1 .. Len(Program(c)), NEW k \in 1 .. scenario.retries + 1
      PROVE  <<c, n, k>> \in Requests
  <2>1. <<c, n, k>> \in {c} \X (1 .. Len(scenario.program[c])) \X (1 .. scenario.retries + 1)
    BY DEF Program
  <2>2. <<c, n, k>> \in Sent(scenario)
    BY <2>1 DEF Sent
  <2> QED
    BY <2>2 DEF Requests
<1> QED
  BY <1>2, <1>3, <1>4 DEF Own, ServiceOf

\* A client step sends at most one request, within what the servers expect.
SendsToLocky(q) ==
    /\ P!PostReserve(q, Own(q)) \/ \E l \in Requests : P!DeleteLockId(q, l)
    /\ UNCHANGED actionyVars

SendsToActiony(q) ==
    /\ Q!PostAction(q, Own(q), {}) \/ \E a \in Requests : Q!PatchAction(q, a, "completed", {})
    /\ UNCHANGED lockyVars

Sending ==
    \/ \E q \in Requests : SendsToLocky(q) \/ SendsToActiony(q)
    \/ UNCHANGED <<lockyVars, actionyVars>>

\* A call is added to the others of its instance,
LEMMA InvokeTypes ==
    ASSUME CInv, scenario' = scenario, NEW c \in Clients, NEW m \in Methods, NEW o \in Outcomes,
           Invoke(c, m, o)
    PROVE  CInv' /\ First(c) \in Requests /\ First(c)[1] = c /\ late' = late
<1> DEFINE new == [method |-> m, attempt |-> 1, outcome |-> o]
<1>1. scenario \in Scenarios /\ calls[c] \in Seq(Record) /\ Len(Program(c)) \in Nat
      /\ scenario.retries \in Nat
  BY RequestTypes DEF CInv
<1>2. new \in Record
  BY <1>1 DEF Record
<1>3. Len(calls[c]) \in Nat /\ Append(calls[c], new) \in Seq(Record)
      /\ Len(Append(calls[c], new)) = Len(calls[c]) + 1
  BY <1>1, <1>2, LenProperties, AppendProperties
<1>4. calls' = [calls EXCEPT ![c] = Append(calls[c], new)] /\ Len(calls[c]) < Len(Program(c))
      /\ UNCHANGED <<lockId, actionId, late>>
  BY DEF Invoke
<1> HIDE DEF new
<1>5. calls' \in [Clients -> Seq(Record)]
  BY <1>3, <1>4 DEF CInv
<1>6. \A d \in Clients : Len(calls'[d]) <= Len(Program(d))
  BY <1>1, <1>3, <1>4 DEF CInv
<1>7. Record' = Record /\ \A d : Program(d)' = Program(d)
  BY DEF Record, Program
<1>8. CInv'
  BY <1>4, <1>5, <1>6, <1>7 DEF CInv
<1>9. First(c) \in Requests
  <2>1. Len(calls[c]) + 1 \in 1 .. Len(Program(c)) /\ 1 \in 1 .. scenario.retries + 1
    BY <1>1, <1>3, <1>4
  <2> QED
    BY <1>1, <2>1, RequestTypes DEF First
<1> QED
  BY <1>4, <1>8, <1>9 DEF First

\* a call is settled, or sent again,
LEMMA SettledTypes ==
    ASSUME CInv, NEW c \in Clients, NEW n \in Made(c), scenario' = scenario, UNCHANGED late,
           lockId' \in [Clients -> Requests \cup {None}],
           actionId' \in [Clients -> Requests \cup {None}],
           \/ \E o \in Outcomes : calls' = [calls EXCEPT ![c][n].outcome = o]
           \/ /\ calls[c][n].attempt <= scenario.retries
              /\ calls' = [calls EXCEPT ![c][n].attempt = @ + 1]
    PROVE  CInv'
<1>1. scenario \in Scenarios /\ calls[c] \in Seq(Record) /\ scenario.retries \in Nat
  BY RequestTypes DEF CInv
<1>2. n \in 1 .. Len(calls[c]) /\ calls[c][n] \in Record
  BY <1>1, LenProperties, ElementOfSeq DEF Made
<1>3. PICK new \in Record : calls' = [calls EXCEPT ![c] = [calls[c] EXCEPT ![n] = new]]
  <2>1. CASE \E o \in Outcomes : calls' = [calls EXCEPT ![c][n].outcome = o]
    <3>1. PICK o \in Outcomes : calls' = [calls EXCEPT ![c][n].outcome = o]
      BY <2>1
    <3>2. [calls[c][n] EXCEPT !.outcome = o] \in Record
      BY <1>2 DEF Record
    <3> QED
      BY <3>1, <3>2
  <2>2. CASE /\ calls[c][n].attempt <= scenario.retries
             /\ calls' = [calls EXCEPT ![c][n].attempt = @ + 1]
    <3>1. calls[c][n].attempt \in 1 .. scenario.retries + 1
      BY <1>2 DEF Record
    <3>2. calls[c][n].attempt + 1 \in 1 .. scenario.retries + 1
      BY <1>1, <2>2, <3>1
    <3>3. [calls[c][n] EXCEPT !.attempt = calls[c][n].attempt + 1] \in Record
      BY <1>2, <3>2 DEF Record
    <3> QED
      BY <2>2, <3>3
  <2> QED
    BY <2>1, <2>2
<1>4. /\ [calls[c] EXCEPT ![n] = new] \in Seq(Record)
      /\ Len([calls[c] EXCEPT ![n] = new]) = Len(calls[c])
  BY <1>1, <1>2, ExceptSeq
<1>5. calls' \in [Clients -> Seq(Record)]
  BY <1>3, <1>4 DEF CInv
<1>6. \A d \in Clients : Len(calls'[d]) <= Len(Program(d))
  BY <1>3, <1>4 DEF CInv
<1>7. Record' = Record /\ \A d : Program(d)' = Program(d)
  BY DEF Record, Program
<1> QED
  BY <1>5, <1>6, <1>7 DEF CInv

\* and the attempts of a call are requests of its instance.
LEMMA AttemptsAreRequests ==
    ASSUME CInv, NEW c \in Clients, NEW n \in Made(c)
    PROVE  /\ <<c, n, 1>> \in Requests /\ Last(c, n) \in Requests
           /\ calls[c][n].attempt <= scenario.retries => <<c, n, calls[c][n].attempt + 1>> \in Requests
<1>1. scenario \in Scenarios /\ calls[c] \in Seq(Record) /\ scenario.retries \in Nat
      /\ Len(calls[c]) <= Len(Program(c)) /\ Len(Program(c)) \in Nat
  BY RequestTypes DEF CInv
<1>2. n \in 1 .. Len(calls[c]) /\ calls[c][n] \in Record /\ Len(calls[c]) \in Nat
  BY <1>1, LenProperties, ElementOfSeq DEF Made
<1>3. n \in 1 .. Len(Program(c)) /\ calls[c][n].attempt \in 1 .. scenario.retries + 1
  BY <1>1, <1>2 DEF Record
<1>4. /\ 1 \in 1 .. scenario.retries + 1
      /\ calls[c][n].attempt <= scenario.retries =>
           calls[c][n].attempt + 1 \in 1 .. scenario.retries + 1
  BY <1>1, <1>3
<1> QED
  BY <1>1, <1>3, <1>4, RequestTypes DEF Last

LEMMA ClientSteps ==
    ASSUME CInv, P!TypeOK, NEW c \in Clients, scenario' = scenario,
           \/ ReserveAccess(c) \/ RemoveLock(c) \/ CreateAction(c) \/ UpdateAction(c)
           \/ \E n \in Awaited(c) : Settle(c, n)
    PROVE  CInv' /\ late' = late /\ Sending
<1> USE SameLocky, SameActiony
<1>1. \A m \in Methods, o \in Outcomes : Invoke(c, m, o) =>
        CInv' /\ late' = late /\ First(c) \in Requests /\ First(c)[1] = c
  BY InvokeTypes
<1>2. lockId[c] \in Requests \cup {None} /\ actionId[c] \in Requests \cup {None}
  BY DEF CInv
<1>3. CASE ReserveAccess(c)
  <2>1. Invoke(c, "reserveAccess", "awaited") /\ P!PostReserve(First(c), ServiceOf(c))
        /\ UNCHANGED actionyVars
    BY <1>3 DEF ReserveAccess
  <2>2. CInv' /\ late' = late /\ First(c) \in Requests /\ First(c)[1] = c
    BY <1>1, <2>1 DEF Methods, Outcomes
  <2> QED
    BY <2>1, <2>2 DEF Sending, SendsToLocky, Own
<1>4. CASE RemoveLock(c)
  <2>1. CASE Invoke(c, "removeLock", "resolved") /\ UNCHANGED lockyVars /\ UNCHANGED actionyVars
    BY <1>1, <2>1 DEF Methods, Outcomes, Sending
  <2>2. CASE /\ lockId[c] # None /\ Invoke(c, "removeLock", "awaited")
             /\ L!DeleteLockId(First(c), lockId[c]) /\ UNCHANGED actionyVars
    <3>1. CInv' /\ late' = late /\ First(c) \in Requests
      BY <1>1, <2>2 DEF Methods, Outcomes
    <3> QED
      BY <1>2, <2>2, <3>1 DEF Sending, SendsToLocky
  <2> QED
    BY <1>4, <2>1, <2>2 DEF RemoveLock
<1>5. CASE CreateAction(c)
  <2>1. Invoke(c, "createAction", "awaited") /\ Q!PostAction(First(c), ServiceOf(c), {})
        /\ UNCHANGED lockyVars
    BY <1>5 DEF CreateAction
  <2>2. CInv' /\ late' = late /\ First(c) \in Requests /\ First(c)[1] = c
    BY <1>1, <2>1 DEF Methods, Outcomes
  <2> QED
    BY <2>1, <2>2 DEF Sending, SendsToActiony, Own
<1>6. CASE UpdateAction(c)
  <2>1. CASE Invoke(c, "updateAction", "resolved") /\ UNCHANGED lockyVars /\ UNCHANGED actionyVars
    BY <1>1, <2>1 DEF Methods, Outcomes, Sending
  <2>2. CASE /\ actionId[c] # None /\ Invoke(c, "updateAction", "awaited")
             /\ A!PatchAction(First(c), actionId[c], "completed", {}) /\ UNCHANGED lockyVars
    <3>1. CInv' /\ late' = late /\ First(c) \in Requests
      BY <1>1, <2>2 DEF Methods, Outcomes
    <3> QED
      BY <1>2, <2>2, <3>1 DEF Sending, SendsToActiony
  <2> QED
    BY <1>6, <2>1, <2>2 DEF UpdateAction
<1>7. ASSUME NEW n \in Awaited(c), Settle(c, n) PROVE CInv' /\ late' = late /\ Sending
  <2>0. n \in Made(c) /\ Last(c, n) \in Requests
    BY AttemptsAreRequests DEF Awaited
  <2>1. ASSUME NEW o \in Outcomes, Ends(c, n, o), lockId' \in [Clients -> Requests \cup {None}],
               actionId' \in [Clients -> Requests \cup {None}]
        PROVE  CInv' /\ late' = late /\ Sending
    BY <2>0, <2>1, SettledTypes DEF Ends, Sending
  <2>2. CASE ReserveResolves(c, n) \/ RemoveResolves(c, n) \/ CreateResolves(c, n)
              \/ UpdateResolves(c, n)
    <3>1. Ends(c, n, "resolved")
      BY <2>2 DEF ReserveResolves, RemoveResolves, CreateResolves, UpdateResolves
    <3>2. /\ lockId' \in [Clients -> Requests \cup {None}]
          /\ actionId' \in [Clients -> Requests \cup {None}]
      BY <2>0, <2>2 DEF ReserveResolves, RemoveResolves, CreateResolves, UpdateResolves, CInv
    <3> QED
      BY <2>1, <3>1, <3>2 DEF Outcomes
  <2>3. CASE (\E code \in {404, 409, 500} : Refused(c, n, code)) \/ GivesUp(c, n)
    <3>1. \E o \in Outcomes : Ends(c, n, o)
      BY <2>3 DEF Refused, GivesUp, Outcomes
    <3>2. UNCHANGED <<lockId, actionId>>
      BY <2>3 DEF Refused, GivesUp, Keeps
    <3> QED
      BY <2>1, <3>1, <3>2 DEF CInv
  <2>4. CASE SendAgain(c, n)
    <3> DEFINE q == <<c, n, calls[c][n].attempt + 1>>
    <3>1. CInv' /\ late' = late
      BY <2>0, <2>4, SettledTypes DEF SendAgain, CInv
    <3>2. q \in Requests /\ q[1] = c /\ lockCall[<<c, n, 1>>].lockId \in Requests
      BY <2>0, <2>4, AttemptsAreRequests DEF SendAgain, P!TypeOK, P!Call
    <3>3. \/ L!PostReserve(q, ServiceOf(c)) /\ UNCHANGED actionyVars
          \/ L!DeleteLockId(q, lockCall[<<c, n, 1>>].lockId) /\ UNCHANGED actionyVars
          \/ A!PostAction(q, ServiceOf(c), {}) /\ UNCHANGED lockyVars
          \/ /\ A!PatchAction(q, actionCall[<<c, n, 1>>].actionId, "completed", {})
             /\ UNCHANGED lockyVars
      BY <2>4 DEF SendAgain
    <3>4. ASSUME NEW a, Q!PatchAction(q, a, "completed", {}) PROVE a \in Requests
      BY <3>2, <3>4 DEF Q!PatchAction, Q!Rows
    <3> HIDE DEF q
    <3> QED
      BY <3>1, <3>2, <3>3, <3>4 DEF Sending, SendsToLocky, SendsToActiony, Own
  <2> QED
    BY <1>7, <2>2, <2>3, <2>4 DEF Settle
<1> QED
  BY <1>3, <1>4, <1>5, <1>6, <1>7

-----------------------------------------------------------------------------
\* What the servers know of the clients: only reservations of an instance's own
\* service are granted or look for locks, and its actions are of that service.
LockCalls ==
    \A q \in Requests :
        /\ lockCall[q].kind \in {"none", "reserve", "unlock"}
        /\ lockCall[q].kind = "reserve" => lockCall[q].services = {Own(q)}
        /\ P!Granted(q) \/ lockBefore[q] # {} => lockCall[q].kind = "reserve"

ActionCalls ==
    \A q \in Requests :
        /\ actionCall[q].kind = "create" => actionCall[q].serviceId = Own(q)
        /\ actionCall[q].kind = "update" => actionCall[q].status = "completed"
        /\ Inserted(q) => actions[q].serviceId = Own(q) /\ actionPc[q] \in {"done", "dropped"}

\* The rows a request found change only when its check passes.
LEMMA ChecksFind ==
    ASSUME P!IInv, LockCalls, NEW r \in Requests, P!Step(r) \/ P!Crash(r)
    PROVE  /\ \A q \in Requests \ {r} : lockBefore'[q] = lockBefore[q]
           /\ \/ lockBefore'[r] = lockBefore[r]
              \/ lockPc'[r] = "fetch" /\ lockCall[r].kind = "reserve"
<1>0. P!TypeOK /\ P!KindsAgree /\ lockCall[r].kind # "lock"
  BY DEF P!IInv, LockCalls
<1>1. CASE P!ReserveCheck(r)
  BY <1>0, <1>1 DEF P!ReserveCheck, P!At, P!Answer, P!PassCheck, P!TypeOK
<1>2. CASE ~ P!ReserveCheck(r)
  BY <1>0, <1>2 DEF P!Step, P!Crash, P!LockCheck, P!LockInsert, P!UnlockFind, P!UnlockDelete,
     P!ReserveFetch, P!ReserveInsert, P!ReserveVerify, P!ReserveGrant, P!ReserveRollback,
     P!ReadRejects, P!VerifyRejects, P!InsertRejects, P!DeleteRejects, P!Goto, P!Answer,
     P!Throw, P!At
<1> QED
  BY <1>1, <1>2

\* A step of a locky handler keeps what is known of the calls,
LEMMA StepKeepsLockCalls ==
    ASSUME P!IInv, P!RowInv, LockCalls, scenario' = scenario,
           NEW r \in Requests, P!Step(r) \/ P!Crash(r)
    PROVE  LockCalls'
<1>1. P!Move(r)
  BY ServersAssumed, P!StepMoves DEF P!IInv, P!RowInv
<1>2. UNCHANGED lockCall /\ \A q \in Requests : Own(q)' = Own(q)
  BY <1>1 DEF P!Move, Own, ServiceOf
<1>3. ASSUME NEW q \in Requests, P!Granted(q)' \/ lockBefore'[q] # {}
      PROVE  lockCall[q].kind = "reserve"
  <2>1. CASE q # r
    BY <1>1, <1>3, <2>1, ChecksFind DEF P!Move, P!Granted, P!Answered, LockCalls
  <2>2. CASE q = r /\ P!Granted(r)'
    <3>1. P!Granted(r) \/ lockPc[r] \in {"insert", "verify", "rollback"}
      BY <1>1, <2>2 DEF P!Move, P!Advance, P!MakeRow, P!GiveUpRow, P!KeepRow, P!TakeBack,
         P!LookUp, P!Remove, P!Granted, P!Answered
    <3> QED
      BY <2>2, <3>1 DEF LockCalls, P!IInv, P!KindsAgree
  <2>3. CASE q = r /\ lockBefore'[r] # {}
    BY <2>3, ChecksFind DEF LockCalls
  <2> QED
    BY <1>3, <2>1, <2>2, <2>3
<1> QED
  BY <1>2, <1>3 DEF LockCalls

\* and so does the arrival of what a client sends.
LEMMA SentKeepsLockCalls ==
    ASSUME P!IInv, LockCalls, scenario' = scenario, NEW r \in Requests,
           P!PostReserve(r, Own(r)) \/ \E l \in Requests : P!DeleteLockId(r, l)
    PROVE  LockCalls'
<1>1. PICK p \in {"check", "find"}, k \in {"reserve", "unlock"}, S \in {{}, {Own(r)}}, l \in Requests :
        /\ k = "reserve" => S = {Own(r)}
        /\ P!Receive(r, p, [kind |-> k, services |-> S, lockId |-> l], P!NoLockRequest)
  BY DEF P!PostReserve, P!DeleteLockId
<1>2. /\ lockPc[r] = "idle" /\ lockPc'[r] \in {"check", "find"} /\ UNCHANGED <<lockBefore, lockAnswer>>
      /\ lockCall'[r].kind = k /\ lockCall'[r].services = S
      /\ \A q \in Requests : q # r => lockCall'[q] = lockCall[q] /\ lockPc'[q] = lockPc[q]
  BY <1>1 DEF P!Receive, P!IInv, P!TypeOK
<1>3. lockBefore[r] = {}
  BY <1>2 DEF P!IInv, P!BeforeIsPast
<1>4. \A q \in Requests : Own(q)' = Own(q)
  BY DEF Own, ServiceOf
<1> QED
  BY <1>1, <1>2, <1>3, <1>4 DEF LockCalls, P!Granted, P!Answered

\* What a step of an actiony handler leaves in the table: an action that is
\* open afterwards was open before, or is the one just inserted.
LEMMA OpenAfter ==
    ASSUME Q!TInv, ActionCalls, NEW r \in Requests, Q!Step(r) \/ Q!Crash(r)
    PROVE  /\ UNCHANGED actionCall /\ ~ Inserted(r)
           /\ \A q \in Requests \ {r} : actionPc'[q] = actionPc[q]
           /\ \A q \in Requests : Inserted(q)' =>
                \/ Inserted(q) /\ actions'[q].serviceId = actions[q].serviceId
                \/ /\ q = r /\ ~ Inserted(r) /\ actionCall[r].kind = "create"
                   /\ actions'[r].serviceId = actionCall[r].serviceId
           /\ (actionPc'[r] \in {"done", "dropped"} \/ UNCHANGED actions)
           /\ \A q \in Requests : Acting(q)' => Acting(q) \/ ~ Inserted(q)
<1>0. Q!Shape(r) /\ actionPc[r] \in Q!Waiting
  BY ServersAssumed, Q!StepShape DEF Q!Shape, Q!Fetched, Q!Counted, Q!ReplaceBegin,
     Q!SelectedNone, Q!SelectedLatest, Q!Found, Q!Waiting, Q!At, Q!TInv, Q!KindsAgree
<1>1. /\ UNCHANGED actionCall
      /\ \E p \in Q!Waiting \cup {"done", "dropped"} : actionPc' = [actionPc EXCEPT ![r] = p]
  BY <1>0 DEF Q!Shape, Q!Ends, Q!Fetched, Q!Counted, Q!ReplaceBegin, Q!SelectedNone,
     Q!SelectedLatest, Q!Found, Q!ReadsRow, Q!ReadRow, Q!Goto, Q!PassCount, Q!Waiting
<1>2. \A q \in Requests \ {r} : actionPc'[q] = actionPc[q]
  BY <1>1 DEF Q!TInv, Q!TypeOK
<1>3. ~ Inserted(r)
  BY <1>0 DEF ActionCalls, Q!Waiting
<1>4. CASE ~ Q!Ends(r)
  BY <1>0, <1>1, <1>2, <1>3, <1>4, ServersAssumed, Q!ReadersWriteNothing DEF Inserted, Acting, A!Active
<1>5. CASE Q!Ends(r)
  <2>1. actionPc'[r] \in {"done", "dropped"} /\ Q!TableEffect(r)
    BY <1>5 DEF Q!Ends, Q!TInv, Q!TypeOK
  <2>2. ASSUME NEW q \in Requests, Inserted(q)'
        PROVE  \/ Inserted(q) /\ actions'[q] = actions[q]
               \/ /\ q = r /\ actionCall[r].kind = "create"
                  /\ actions'[r].serviceId = actionCall[r].serviceId
               \/ /\ Inserted(q) /\ actions'[q].serviceId = actions[q].serviceId
                  /\ actions'[q].status # "active"
    <3>1. q \in Q!Rows'
      BY <2>2 DEF Q!Rows, Inserted
    <3>2. \/ q \in Q!Rows /\ actions'[q] = actions[q]
          \/ /\ q = r /\ actionCall[r] \in Q!CreateCall
             /\ \E n \in Nat : actions'[q] = Q!NewAction(r, n)
          \/ /\ q \in Q!Rows
             /\ actions'[q] = Q!Updated(actions[q], "canceled", read[r] \cup {r})
          \/ /\ q \in Q!Rows /\ actionCall[r] \in Q!UpdateCall
             /\ actions'[q] = Q!Updated(actions[q], actionCall[r].status, read[r] \cup actionCall[r].metadata)
      BY <2>1, <3>1, ServersAssumed, Q!RowsAfter
    <3>3. actionCall[r] \in Q!UpdateCall => actionCall[r].status = "completed"
      BY DEF ActionCalls, Q!UpdateCall
    <3>4. ASSUME NEW n, actions'[q] = Q!NewAction(r, n), q = r, actionCall[r] \in Q!CreateCall
          PROVE  actionCall[r].kind = "create" /\ actions'[r].serviceId = actionCall[r].serviceId
      BY <3>4 DEF Q!NewAction, Q!CreateCall
    <3>5. ASSUME NEW st \in {"canceled", "completed"}, NEW m, actions'[q] = Q!Updated(actions[q], st, m)
          PROVE  actions'[q].serviceId = actions[q].serviceId /\ actions'[q].status # "active"
      BY <3>5 DEF Q!Updated, Q!Unset
    <3>6. q \in Q!Rows => Inserted(q)
      BY DEF Q!Rows, Inserted
    <3> QED
      BY <3>2, <3>3, <3>4, <3>5, <3>6
  <2> QED
    BY <1>1, <1>2, <1>3, <2>1, <2>2 DEF Acting, A!Active, Inserted
<1> QED
  BY <1>4, <1>5

LEMMA StepKeepsActionCalls ==
    ASSUME Q!TInv, ActionCalls, scenario' = scenario, NEW r \in Requests, Q!Step(r) \/ Q!Crash(r)
    PROVE  ActionCalls'
<1>1. \A q \in Requests : Own(q)' = Own(q)
  BY DEF Own, ServiceOf
<1> QED
  BY <1>1, OpenAfter DEF ActionCalls, Inserted

LEMMA SentKeepsActionCalls ==
    ASSUME Q!TInv, ActionCalls, scenario' = scenario, NEW r \in Requests,
           Q!PostAction(r, Own(r), {}) \/ \E a \in Requests : Q!PatchAction(r, a, "completed", {})
    PROVE  ActionCalls' /\ UNCHANGED actions
<1>1. /\ actionPc[r] = "idle" /\ UNCHANGED actions
      /\ actionCall'[r].kind = "create" => actionCall'[r].serviceId = Own(r)
      /\ actionCall'[r].kind = "update" => actionCall'[r].status = "completed"
      /\ \A q \in Requests : q # r => actionCall'[q] = actionCall[q] /\ actionPc'[q] = actionPc[q]
  BY DEF Q!PostAction, Q!PatchAction, Q!Receive, Q!NoWrite, Q!TInv, Q!TypeOK
<1>2. \A q \in Requests : Own(q)' = Own(q)
  BY DEF Own, ServiceOf
<1> QED
  BY <1>1, <1>2 DEF ActionCalls, Inserted

-----------------------------------------------------------------------------
\* An open action that was not late is backed by a granted lock of its instance
\* that keeps out every reservation that found it and that the action conflicts with.
Mutually(p, q) == Blocks(Own(p), Own(q)) /\ Blocks(Own(q), Own(p))

Backed(p, a) ==
    /\ a[1] = p[1] /\ P!Granted(a)
    /\ \A b \in Requests : a \in lockBefore[b] /\ Mutually(p, b) => P!KeptOut(b, Own(p))

Covered == \A p \in Requests : Acting(p) /\ p \notin late => \E a \in Requests : Backed(p, a)

\* An open action shows its service active to locky.
LEMMA ActingIsActive ==
    ASSUME scenario \in Scenarios, ActionCalls, NEW p \in Requests, Acting(p)
    PROVE  Own(p) \in {s \in Services : A!ActiveOf(s) # {}}
<1>1. Own(p) \in Services
  BY RequestTypes
<1>2. p \in A!ActiveOf(Own(p))
  BY DEF ActionCalls, Acting, A!Active, A!ActiveOf, A!Rows, Inserted
<1> QED
  BY <1>1, <1>2

\* A step of a locky handler keeps the open actions backed,
LEMMA StepKeepsCovered ==
    ASSUME CInv, P!IInv, P!RowInv, LockCalls, ActionCalls, Covered,
           scenario' = scenario, UNCHANGED late, UNCHANGED actions,
           NEW r \in Requests, P!Step(r) \/ P!Crash(r)
    PROVE  Covered'
<1>1. P!Move(r)
  BY ServersAssumed, P!StepMoves DEF P!IInv, P!RowInv
<1>2. SUFFICES ASSUME NEW p \in Requests, Acting(p), NEW a \in Requests, Backed(p, a)
               PROVE  Backed(p, a)'
  BY DEF Covered, Acting, A!Active
<1>3. P!Granted(a)'
  BY <1>1, <1>2, ServersAssumed, P!DoneIsFinal DEF Backed, P!Granted, P!Answered
<1>4. /\ \A q : Own(q)' = Own(q)
      /\ \A q : Mutually(p, q)' <=> Mutually(p, q)
  BY DEF Own, ServiceOf, Mutually, Blocks
<1>5. ASSUME NEW b \in Requests, a \in lockBefore'[b], Mutually(p, b) PROVE P!KeptOut(b, Own(p))'
  <2>1. CASE a \in lockBefore[b]
    <3>1. P!KeptOut(b, Own(p)) /\ lockCall[b].kind = "reserve" /\ lockCall[b].services = {Own(b)}
      BY <1>2, <1>5, <2>1 DEF Backed, LockCalls
    <3>2. /\ P!IsOf(b, Own(b)) /\ P!Blocks(Own(b), Own(p)) /\ Own(b) \in Services
          /\ Own(p) \in {s \in Services : A!ActiveOf(s) # {}}
      BY <1>2, <1>5, <3>1, RequestTypes, ActingIsActive DEF P!IsOf, P!Blocks, Mutually, Blocks, CInv
    <3>3. \A t \in {s \in Services : A!ActiveOf(s) # {}} :
            P!Blocks(Own(b), t) /\ P!KeptOut(b, t) => P!KeptOut(b, t)'
      BY <3>2, ServersAssumed, P!StepKeepsOut
    <3> QED
      BY <1>4, <3>1, <3>2, <3>3 DEF P!KeptOut
  <2>2. CASE a \notin lockBefore[b]
    <3>1. lockPc'[b] = "fetch"
      BY <1>5, <2>2, ChecksFind
    <3> QED
      BY <3>1 DEF P!KeptOut, P!Granted, P!Answered
  <2> QED
    BY <2>1, <2>2
<1> QED
  BY <1>2, <1>3, <1>4, <1>5 DEF Backed

\* so does an arrival,
LEMMA SentKeepsCovered ==
    ASSUME P!IInv, Covered,
           scenario' = scenario, UNCHANGED late, UNCHANGED actions,
           NEW r \in Requests, P!Arrive(r)
    PROVE  Covered'
<1>1. SUFFICES ASSUME NEW p \in Requests, Acting(p), NEW a \in Requests, Backed(p, a)
               PROVE  Backed(p, a)'
  BY DEF Covered, Acting, A!Active
<1>2. /\ \A b : P!KeptOut(r, b)'
      /\ \A q \in Requests \ {r} : \A b : P!KeptOut(q, b) => P!KeptOut(q, b)'
      /\ UNCHANGED lockBefore
  BY ServersAssumed, P!ArriveKeepsOut DEF P!IInv
<1>3. P!Granted(a)'
  BY <1>1 DEF Backed, P!Granted, P!Answered, P!Arrive, P!PostLock, P!PostReserve, P!DeleteLockId,
     P!Receive, P!IInv, P!TypeOK
<1>4. /\ \A q : Own(q)' = Own(q)
      /\ \A q : Mutually(p, q)' <=> Mutually(p, q)
  BY DEF Own, ServiceOf, Mutually, Blocks
<1>5. ASSUME NEW b \in Requests, a \in lockBefore'[b], Mutually(p, b) PROVE P!KeptOut(b, Own(p))'
  <2>1. P!KeptOut(b, Own(p))
    BY <1>1, <1>2, <1>5 DEF Backed
  <2>2. \A t : P!KeptOut(b, t) => P!KeptOut(b, t)'
    BY <1>2
  <2> QED
    BY <1>4, <2>1, <2>2 DEF P!KeptOut
<1> QED
  BY <1>1, <1>3, <1>4, <1>5 DEF Backed

\* and a new action is backed by the lock its instance holds: no row that found
\* this lock in force is of a service it blocks.
LEMMA InsertionCovered ==
    ASSUME scenario \in Scenarios, P!IInv, LockCalls, Q!TInv, ActionCalls, Covered, ActionyStep,
           scenario' = scenario
    PROVE  Covered'
<1>0. UNCHANGED lockyVars /\ late \subseteq late'
  BY DEF ActionyStep
<1>1. \A q : Own(q)' = Own(q)
  BY DEF Own, ServiceOf
<1>2. \A p, a : Backed(p, a) => Backed(p, a)'
  BY <1>0, <1>1 DEF Backed, Mutually, Blocks, P!KeptOut, P!Granted, P!Answered, lockyVars
<1>3. PICK r \in Requests : Q!Step(r) \/ Q!Crash(r)
  BY SameActiony DEF ActionyStep, A!InFlight
<1>4. SUFFICES ASSUME NEW p \in Requests, Acting(p)', p \notin late'
               PROVE  \E a \in Requests : Backed(p, a)
  BY <1>2 DEF Covered
<1>5. CASE Inserted(p)
  <2>1. Acting(p) /\ p \notin late
    BY <1>0, <1>3, <1>4, <1>5, OpenAfter
  <2> QED
    BY <2>1 DEF Covered
<1>6. CASE ~ Inserted(p)
  <2>1. Inserted(p)' /\ HoldsLock(p[1])
    BY <1>4, <1>6 DEF ActionyStep, Acting, A!Active, Inserted
  <2>2. PICK a \in Requests : a[1] = p[1] /\ P!Granted(a) /\ P!NonExpired(a)
    BY <2>1, SameLocky DEF HoldsLock
  <2>3. Own(a) = Own(p) /\ Own(a) \in Services
    BY <2>2, RequestTypes DEF Own
  <2>4. lockCall[a].kind = "reserve" /\ lockCall[a].services = {Own(a)} /\ locks[a] # NoLock
    BY <2>2 DEF LockCalls, P!NonExpired
  <2>5. locks[a].serviceIds = Blockees[Own(p)]
    BY <2>3, <2>4 DEF P!IInv, P!RowsListBlockees
  <2>6. ASSUME NEW b \in Requests, a \in lockBefore[b], Mutually(p, b) PROVE FALSE
    <3>1. lockCall[b].services = {Own(b)}
      BY <2>6 DEF LockCalls
    <3>2. Own(b) \in Blockees[Own(p)]
      BY <2>6 DEF Mutually, Blocks
    <3>3. locks[a].serviceIds \cap lockCall[b].services = {}
      BY <2>2, <2>6 DEF P!IInv, P!NoOverlookedLock
    <3> QED
      BY <2>5, <3>1, <3>2, <3>3
  <2> QED
    BY <2>2, <2>6 DEF Backed
<1> QED
  BY <1>5, <1>6

-----------------------------------------------------------------------------
\* The inductive invariant.
Inv == CInv /\ P!IInv /\ P!RowInv /\ Q!TInv /\ LockCalls /\ ActionCalls /\ Covered

LEMMA InitInv == Init => Inv
<1> SUFFICES ASSUME Init PROVE Inv
  OBVIOUS
<1>1. P!IInv /\ P!RowInv /\ Q!TInv
  <2>1. P!Init /\ Q!Init
    BY SameLocky, SameActiony DEF Init
  <2> QED
    BY <2>1, ServersAssumed, P!RowInvInductive, Q!TInvInductive
<1>2. CInv
  BY RequestTypes, EmptySeq DEF Init, CInv
<1>3. LockCalls /\ ActionCalls /\ Covered
  BY DEF Init, L!Init, A!Init, LockCalls, ActionCalls, Covered, P!Granted, P!Answered, Inserted,
     Acting, A!Active, A!NoCall
<1> QED
  BY <1>1, <1>2, <1>3 DEF Inv

\* Locky's view of the actions changes at any time, and its invariants do not mind.
LEMMA LockyLeftAlone ==
    ASSUME P!IInv, P!RowInv, UNCHANGED lockyVars
    PROVE  P!IInv' /\ P!RowInv'
<1> USE DEF lockyVars
<1>1. P!TypeOK'
  BY DEF P!IInv, P!TypeOK
<1>2. P!IInv'
  BY <1>1 DEF P!IInv, P!KindsAgree, P!RowsHaveOwners, P!BeforeIsPast, P!Inserted,
     P!RowsListBlockees, P!NoOverlookedLock, P!NonExpired
<1>3. P!RowInv'
  BY DEF P!RowInv, P!UnlocksGranted, P!VerifiedHasRow, P!RollbackRefuses, P!UnlocksDelete,
     P!RefusalLeavesNoRow, P!GrantedLockKept, P!ReleasedStaysReleased, P!Granted, P!Answered
<1> QED
  BY <1>2, <1>3

\* Nor does actiony mind what the others do.
LEMMA ActionyLeftAlone ==
    ASSUME UNCHANGED actionyVars
    PROVE  /\ Q!TInv => Q!TInv'
           /\ scenario' = scenario /\ ActionCalls => ActionCalls'
           /\ UNCHANGED actions
<1> USE DEF actionyVars
<1>1. Q!TInv => Q!TInv'
  BY DEF Q!TInv, Q!TypeOK, Q!TargetsExist, Q!KindsAgree, Q!TimesPassed, Q!Rows
<1>2. scenario' = scenario /\ ActionCalls => ActionCalls'
  BY DEF ActionCalls, Inserted, Own, ServiceOf
<1> QED
  BY <1>1, <1>2

LEMMA LockCallsLeftAlone ==
    ASSUME UNCHANGED lockyVars, scenario' = scenario
    PROVE  /\ LockCalls => LockCalls'
           /\ UNCHANGED <<actions, late>> /\ Covered => Covered'
<1>1. \A q : Own(q)' = Own(q)
  BY DEF Own, ServiceOf
<1>2. LockCalls => LockCalls'
  BY <1>1 DEF LockCalls, lockyVars, P!Granted, P!Answered
<1>3. \A p, a : Backed(p, a) => Backed(p, a)'
  BY <1>1 DEF Backed, Mutually, Blocks, P!KeptOut, P!Granted, P!Answered, lockyVars
<1> QED
  BY <1>2, <1>3 DEF Covered, Acting, A!Active

\* A handler of locky, or the clock, takes a step.
LEMMA LockyKeepsInv ==
    ASSUME Inv, LockyStep, scenario' = scenario
    PROVE  Inv'
<1>0. UNCHANGED <<lockId, actionId, calls, late, actionyVars>>
  BY DEF LockyStep
<1>1. CInv'
  BY <1>0 DEF Inv, CInv, Record, Program
<1>2. Q!TInv' /\ ActionCalls' /\ UNCHANGED actions
  BY <1>0, ActionyLeftAlone DEF Inv
<1>3. UNCHANGED {s \in Services : A!ActiveOf(s) # {}}
  BY <1>2 DEF A!ActiveOf, A!Rows, A!Active
<1>4. ASSUME P!Next PROVE P!IInv' /\ P!RowInv'
  BY <1>4, ServersAssumed, P!RowInvInductive DEF Inv
<1>5. CASE L!Tick
  <2>1. P!Tick /\ UNCHANGED <<lockCall, lockPc, lockRequest, pending, lockAnswer, lockBefore>>
    BY <1>5, SameLocky DEF P!Tick, P!locals
  <2>2. P!IInv' /\ P!RowInv'
    BY <1>3, <1>4, <2>1 DEF P!Next
  <2>3. LockCalls'
    BY <2>1 DEF Inv, LockCalls, P!Granted, P!Answered, Own, ServiceOf
  <2>4. Covered'
    BY <1>0, <1>2, <2>1 DEF Inv, Covered, Acting, A!Active, Backed, Mutually, Blocks, P!KeptOut,
       P!Granted, P!Answered, Own, ServiceOf
  <2> QED
    BY <1>1, <1>2, <2>2, <2>3, <2>4 DEF Inv
<1>6. ASSUME NEW r \in L!InFlight, L!Step(r) \/ L!Crash(r) PROVE Inv'
  <2>1. r \in Requests /\ (P!Step(r) \/ P!Crash(r))
    BY <1>6, SameLocky DEF L!InFlight
  <2>2. P!IInv' /\ P!RowInv'
    BY <1>3, <1>4, <2>1 DEF P!Next
  <2>3. LockCalls' /\ Covered'
    BY <1>0, <1>2, <2>1, StepKeepsLockCalls, StepKeepsCovered DEF Inv
  <2> QED
    BY <1>1, <1>2, <2>2, <2>3 DEF Inv
<1> QED
  BY <1>5, <1>6 DEF LockyStep

\* A handler of actiony takes a step.
LEMMA ActionyKeepsInv ==
    ASSUME Inv, ActionyStep, scenario' = scenario
    PROVE  Inv'
<1>0. UNCHANGED <<lockId, actionId, calls, lockyVars>> /\ late' \subseteq late \cup Requests
  BY DEF ActionyStep
<1>1. CInv'
  BY <1>0 DEF Inv, CInv, Record, Program
<1>2. P!IInv' /\ P!RowInv' /\ LockCalls'
  BY <1>0, LockyLeftAlone, LockCallsLeftAlone DEF Inv
<1>3. PICK r \in Requests : Q!Step(r) \/ Q!Crash(r)
  BY SameActiony DEF ActionyStep, A!InFlight
<1>4. Q!TInv'
  BY <1>3, ServersAssumed, Q!TInvInductive DEF Inv, Q!Next
<1>5. ActionCalls'
  BY <1>3, StepKeepsActionCalls DEF Inv
<1>6. Covered'
  BY InsertionCovered DEF Inv, CInv
<1> QED
  BY <1>1, <1>2, <1>4, <1>5, <1>6 DEF Inv

\* An instance calls, or learns what became of a call.
LEMMA ClientKeepsInv ==
    ASSUME Inv, CInv', late' = late, Sending, scenario' = scenario
    PROVE  Inv'
<1>1. CASE UNCHANGED <<lockyVars, actionyVars>>
  BY <1>1, LockyLeftAlone, ActionyLeftAlone, LockCallsLeftAlone DEF Inv
<1>2. ASSUME NEW q \in Requests, SendsToLocky(q) PROVE Inv'
  <2>1. P!Arrive(q)
    BY <1>2, RequestTypes DEF SendsToLocky, P!Arrive, Inv, CInv
  <2>2. Q!TInv' /\ ActionCalls' /\ UNCHANGED actions
    BY <1>2, ActionyLeftAlone DEF Inv, SendsToLocky
  <2>3. UNCHANGED {s \in Services : A!ActiveOf(s) # {}}
    BY <2>2 DEF A!ActiveOf, A!Rows, A!Active
  <2>4. P!Next
    BY <2>1, <2>3 DEF P!Next
  <2>5. P!IInv' /\ P!RowInv'
    BY <2>4, ServersAssumed, P!RowInvInductive DEF Inv
  <2>6. LockCalls' /\ Covered'
    BY <1>2, <2>1, <2>2, SentKeepsLockCalls, SentKeepsCovered DEF Inv, SendsToLocky
  <2> QED
    BY <2>2, <2>5, <2>6 DEF Inv
<1>3. ASSUME NEW q \in Requests, SendsToActiony(q) PROVE Inv'
  <2>1. Q!Arrive(q)
    BY <1>3, RequestTypes DEF SendsToActiony, Q!Arrive, Inv, CInv
  <2>2. Q!TInv'
    BY <2>1, ServersAssumed, Q!TInvInductive DEF Inv, Q!Next
  <2>3. ActionCalls' /\ UNCHANGED actions
    BY <1>3, SentKeepsActionCalls DEF Inv, SendsToActiony
  <2> QED
    BY <1>3, <2>2, <2>3, LockyLeftAlone, LockCallsLeftAlone DEF Inv, SendsToActiony
<1> QED
  BY <1>1, <1>2, <1>3 DEF Sending

LEMMA NextKeepsInv == Inv /\ [Next]_vars => Inv'
<1> SUFFICES ASSUME Inv, [Next]_vars PROVE Inv'
  OBVIOUS
<1>1. CASE UNCHANGED vars
  <2>1. CInv' /\ late' = late /\ scenario' = scenario /\ UNCHANGED <<lockyVars, actionyVars>>
    BY <1>1 DEF vars, Inv, CInv, Record, Program
  <2> QED
    BY <2>1, ClientKeepsInv DEF Sending
<1>2. ASSUME NEW c \in Clients, scenario' = scenario,
             \/ ReserveAccess(c) \/ RemoveLock(c) \/ CreateAction(c) \/ UpdateAction(c)
             \/ \E n \in Awaited(c) : Settle(c, n)
      PROVE  Inv'
  <2>1. CInv' /\ late' = late /\ Sending
    BY <1>2, ClientSteps DEF Inv, P!IInv
  <2> QED
    BY <1>2, <2>1, ClientKeepsInv
<1> QED
  BY <1>1, <1>2, LockyKeepsInv, ActionyKeepsInv DEF Next

LEMMA Invariant == Spec => []Inv
  BY InitInv, NextKeepsInv, PTL DEF Spec

\* What an instance remembers and its calls keep their types.
THEOREM TypeCorrect == Spec => []TypeOK
<1>1. Inv => TypeOK
  BY DEF Inv, CInv, TypeOK, Record, Outcomes
<1> QED
  BY <1>1, Invariant, PTL

\* Whatever the two servers, the network and the clients do, and in whatever order:
\* services that block each other are active together only after a race of their
\* reservations, or because an action came after its lock had ended.
THEOREM ConflictsAreRacesOrLate == Spec => []ConflictIsRaceOrLate
<1>1. Inv => ConflictIsRaceOrLate
  <2> SUFFICES ASSUME Inv, NEW p \in Requests, NEW q \in Requests, Acting(p), Acting(q),
                      Mutually(p, q), p \notin late, q \notin late
               PROVE  Raced(p[1], q[1])
    BY DEF ConflictIsRaceOrLate, Mutually, Own
  <2>1. PICK a \in Requests : Backed(p, a)
    BY DEF Inv, Covered
  <2>2. PICK b \in Requests : Backed(q, b)
    BY DEF Inv, Covered
  <2>3. Own(a) = Own(p) /\ Own(b) = Own(q)
    BY <2>1, <2>2 DEF Backed, Own
  <2>4. a \notin lockBefore[b]
    <3>1. Mutually(p, b) /\ P!Granted(b)
      BY <2>2, <2>3 DEF Mutually, Backed
    <3> QED
      BY <2>1, <3>1 DEF Backed, P!KeptOut
  <2>5. b \notin lockBefore[a]
    <3>1. Mutually(q, a) /\ P!Granted(a)
      BY <2>1, <2>3 DEF Mutually, Backed
    <3> QED
      BY <2>2, <3>1 DEF Backed, P!KeptOut
  <2> QED
    BY <2>1, <2>2, <2>4, <2>5, SameLocky DEF Raced, Backed
<1> QED
  BY <1>1, Invariant, PTL

=============================================================================
