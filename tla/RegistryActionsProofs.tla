----------------------- MODULE RegistryActionsProofs -----------------------
(***************************************************************************)
(* Theorems about RegistryRaces, for every scenario, that rest on the      *)
(* locks of rotates: an open action keeps the rotation of its service      *)
(* unless a rotate slipped past its run, and the tree stays in step unless *)
(* two rotates were not kept apart.  Rotates and runs call locky and       *)
(* actiony within what either expects, so that the invariants of both hold *)
(* of what they share.                                                     *)
(***************************************************************************)
EXTENDS RegistryRacesProofs

Actions == {create(c) : c \in Runs} \cup {update(c) : c \in Runs}

Q == INSTANCE ActionyProofs WITH
       Requests <- {create(c) : c \in Runs} \cup {update(c) : c \in Runs},
       BodyStatuses <- {"completed"}, MaxInFlight <- ActionyInFlight,
       call <- actionCall, pc <- actionPc, answer <- actionAnswer, before <- actionBefore

-----------------------------------------------------------------------------
\* A, of which RotatedActions is built, and Q, of which the theorems about Actiony
\* are known, are the same instance.
LEMMA SameActiony ==
    /\ \A q : A!Step(q) => Q!Step(q)
    /\ \A q : A!Crash(q) => Q!Crash(q)
    /\ A!Init => Q!Init
    /\ \A q, s, m : A!PostAction(q, s, m) => Q!PostAction(q, s, m)
    /\ \A q, a, s, m : A!PatchAction(q, a, s, m) => Q!PatchAction(q, a, s, m)
    /\ A!InFlight \subseteq Actions
<1>0. \A S : A!Cardinality(S) = Q!Cardinality(S)
  BY DEF A!Cardinality, Q!Cardinality
<1>1. /\ \A s : A!ActiveOf(s) = Q!ActiveOf(s)
      /\ \A S : A!Latest(S) = Q!Latest(S)
      /\ \A q, n : A!NewAction(q, n) = Q!NewAction(q, n)
      /\ \A r, s, m : A!Updated(r, s, m) = Q!Updated(r, s, m)
      /\ A!Rows = Q!Rows
  BY DEF A!ActiveOf, Q!ActiveOf, A!Active, Q!Active, A!Rows, Q!Rows, A!Latest, Q!Latest,
     A!NewAction, Q!NewAction, A!Updated, Q!Updated, A!ClosedStatuses, Q!ClosedStatuses,
     A!Unset, Q!Unset
<1>2. \A s : A!ExceedsLimitation(s) = Q!ExceedsLimitation(s)
  BY <1>0, <1>1 DEF A!ExceedsLimitation, Q!ExceedsLimitation
<1>3. \A q : A!Step(q) => Q!Step(q)
  BY <1>1, <1>2 DEF A!Step, Q!Step, A!CreateFetch, Q!CreateFetch, A!CreateCount, Q!CreateCount,
     A!CreateInsert, Q!CreateInsert, A!ReplaceBegin, Q!ReplaceBegin, A!ReplaceSelect,
     Q!ReplaceSelect, A!ReplaceCommit, Q!ReplaceCommit, A!UpdateFind, Q!UpdateFind,
     A!ReadRow, Q!ReadRow, A!Overwritten, Q!Overwritten, A!Written, Q!Written,
     A!UpdateWrite, Q!UpdateWrite, A!ReadRejects, Q!ReadRejects, A!WriteRejects, Q!WriteRejects,
     A!At, Q!At, A!Goto, Q!Goto, A!Answer, Q!Answer, A!PassCount, Q!PassCount, A!NoWrite, Q!NoWrite,
     A!Insert, Q!Insert, A!Replace, Q!Replace, A!Update, Q!Update,
     A!ClosedStatuses, Q!ClosedStatuses
<1>4. /\ \A q : A!Crash(q) => Q!Crash(q)
      /\ A!Init => Q!Init
      /\ \A q, s, m : A!PostAction(q, s, m) => Q!PostAction(q, s, m)
      /\ \A q, a, s, m : A!PatchAction(q, a, s, m) => Q!PatchAction(q, a, s, m)
  BY <1>0, <1>1 DEF A!Crash, Q!Crash, A!Init, Q!Init, A!PostAction, Q!PostAction, A!PatchAction,
     Q!PatchAction, A!Receive, Q!Receive, A!InFlight, Q!InFlight, A!Waiting, Q!Waiting,
     A!Goto, Q!Goto, A!NoWrite, Q!NoWrite, A!NoCall, Q!NoCall, A!Unset, Q!Unset
<1> QED
  BY <1>3, <1>4 DEF A!InFlight, Actions

LEMMA ActionyAssumedOfQ == Q!ActionyAssumptions
  BY ActionyAssumed DEF Q!ActionyAssumptions, A!ActionyAssumptions, Q!Statuses, A!Statuses,
     Q!ClosedStatuses, A!ClosedStatuses, Q!Action, A!Action

-----------------------------------------------------------------------------
\* What locky was sent: a rotate asks for its descendants, and for the removal of
\* its lock only when it is through; runs ask for access to services that block
\* nobody.
Sent(r) ==
    /\ pc[r] \in {"idle", "find", "descendants"} => \A n \in Attempts : lockPc[post(r, n)] = "idle"
    /\ pc[r] \in {"idle", "find", "descendants", "lock", "verify", "tree", "current", "insert"} =>
         \A n \in Attempts : lockPc[delete(r, n)] = "idle"
    /\ \A n \in Attempts : lockPc[post(r, n)] # "idle" =>
         /\ lockCall[post(r, n)].kind = "lock"
         /\ lockCall[post(r, n)].services = descendants[r]
         /\ lockRequest[post(r, n)].services = descendants[r]

Reserved(c) ==
    lockPc[reserve(c)] # "idle" =>
        /\ lockCall[reserve(c)].kind = "reserve" /\ lockCall[reserve(c)].services = {ServiceOf[c]}
        /\ lockPc[reserve(c)] \in {"check", "fetch", "done", "dropped"}

SentInv ==
    /\ LInv /\ active = ActiveServices
    /\ \A r \in Rotates : Sent(r)
    /\ \A c \in Runs : Reserved(c)

-----------------------------------------------------------------------------
\* A run creates an action after it was admitted, and the row comes after the
\* rotation was fetched.
Acts(c) ==
    /\ actionPc[create(c)] # "idle" =>
         /\ actionCall[create(c)].kind = "create" /\ actionCall[create(c)].serviceId = ServiceOf[c]
         /\ Admitted(c) /\ c \in scenario.runs
    /\ carried[c] # {} => actionPc[create(c)] \notin {"idle", "fetch"}
    /\ actionPc[create(c)] \in {"count", "insert", "begin", "select", "commit"} \/ Inserted(c) =>
         carried[c] # {}

ActsInv == Q!TInv /\ Q!RInv /\ \A c \in Runs : Acts(c)

\* How far a rotate has come.
Early(r) ==
    /\ pc[r] \in {"idle", "find", "descendants", "lock", "verify", "tree"} => tree[r] = {}
    /\ pc[r] \in {"tree", "current", "insert"} => pending[r] = {}
    /\ late[r] \cap DOMAIN scenario.tree = {}

\* A rotate that has found the service of a run idle met the run before its check,
\* which then saw the lock, or after the end of its action; or it missed it.
Watched(r, c) ==
    /\ pc[r] \in {"verify", "tree", "current", "insert"}
    /\ ServiceOf[c] \in descendants[r] \ pending[r]
    => \/ <<c, r>> \in missed
       \/ Inserted(c) /\ ~ Acting(c)
       \/ ~ Inserted(c) /\ ~ Checked(c)
       \/ Expired(post(r, lockId[r]))

\* So the rotation a run has fetched stays until its action ends.
Keeps(c) ==
    carried[c] # {} /\ (Inserted(c) => Acting(c)) /\ ServiceOf[c] \in Registered =>
        \/ carried[c] = {CurrentOf(ServiceOf[c])}
        \/ \E r \in Rotates : ServiceOf[c] \in tree[r] /\ SlippedPast(r, c)

OpenInv ==
    /\ \A r \in Rotates : Early(r)
    /\ \A c \in Runs : Keeps(c) /\ \A r \in Rotates : Watched(r, c)

-----------------------------------------------------------------------------
\* The kinds of steps.
ByRotate(r) ==
    /\ (\E s \in Services : RotateService(r, s)) \/ Step(r) \/ Crash(r)
    /\ NoteMissed
    /\ UNCHANGED <<actionyVars, carried, active, parent, late, scenario>>

ByLocky ==
    /\ LockyStep /\ missed \subseteq missed'
    /\ UNCHANGED <<actionyVars, carried, active, parent, late, scenario>>

ByReserve(c) ==
    /\ L!PostReserve(reserve(c), ServiceOf[c])
    /\ UNCHANGED <<locals, rotations, outdated, missed, actionyVars, carried, active, parent, late,
                   scenario>>

ByActiony ==
    /\ \/ \E c \in scenario.runs : CreateAction(c) \/ UpdateAction(c)
       \/ ActionyStep
    /\ active' = ActiveServices'
    /\ UNCHANGED <<lockyVars, locals, rotations, outdated, missed, parent, late, scenario>>

BySeed ==
    /\ SeedMoves \/ UNCHANGED <<parent, rotations, late>>
    /\ UNCHANGED <<lockyVars, locals, outdated, missed, actionyVars, carried, active, scenario>>

LEMMA SameActivity == UNCHANGED actionyVars => ActiveServices' = ActiveServices
  BY DEF actionyVars, ActiveServices, A!ActiveOf, A!Rows, A!Active

LEMMA Participants ==
    ASSUME SeedOK
    PROVE  scenario.rotates \subseteq Rotates /\ scenario.runs \subseteq Runs
  BY RegistryRacesAssumptions DEF SeedOK, Scenario

LEMMA StepKinds ==
    ASSUME SeedOK, active = ActiveServices, [RacesNext]_allVars
    PROVE  \/ \E r \in Rotates : ByRotate(r)
           \/ ByLocky
           \/ \E c \in Runs : ByReserve(c)
           \/ ByActiony
           \/ BySeed
<1>1. CASE UNCHANGED allVars
  BY <1>1 DEF allVars, vars, seedVars, BySeed
<1>2. CASE RacesNext
  <2>0. active' = ActiveServices' /\ scenario' = scenario
    BY <1>2 DEF RacesNext
  <2>1. ASSUME RotateStep, UNCHANGED <<parent, seedVars>>
        PROVE  (\E r \in Rotates : ByRotate(r)) \/ ByLocky
    <3>1. active' = active
      BY <2>0, <2>1, SameActivity DEF RotateStep
    <3>2. missed \subseteq missed'
      BY <2>1 DEF RotateStep, NoteMissed
    <3> QED
      BY <2>0, <2>1, <3>1, <3>2, Participants DEF RotateStep, ByRotate, ByLocky, seedVars
  <2>2. ASSUME ClientStep, UNCHANGED <<parent, seedVars>>
        PROVE  (\E c \in Runs : ByReserve(c)) \/ ByActiony
    <3>1. ASSUME NEW c \in scenario.runs, ReserveAccess(c) PROVE ByReserve(c)
      BY <2>0, <2>2, <3>1, SameActivity DEF ClientStep, ReserveAccess, ByReserve, seedVars
    <3> QED
      BY <2>0, <2>2, <3>1, Participants
         DEF ClientStep, ByActiony, CreateAction, UpdateAction, ActionyStep, seedVars
  <2>3. ASSUME SeedMoves PROVE BySeed
    BY <2>0, <2>3, SameActivity DEF SeedMoves, BySeed
  <2> QED
    BY <1>2, <2>1, <2>2, <2>3 DEF RacesNext
<1> QED
  BY <1>1, <1>2

-----------------------------------------------------------------------------
\* Calls of locky.
LEMMA DistinctCalls ==
    ASSUME NEW r \in Rotates, NEW n \in Attempts
    PROVE  /\ \A q \in Rotates, m \in Attempts :
                /\ post(r, n) # delete(q, m)
                /\ post(r, n) = post(q, m) => r = q
                /\ delete(r, n) = delete(q, m) => r = q
           /\ \A c \in Runs : post(r, n) # reserve(c) /\ delete(r, n) # reserve(c)
           /\ \A c, d \in Runs : reserve(c) = reserve(d) => c = d
           /\ post(r, n) \in Calls /\ delete(r, n) \in Calls
           /\ \A c \in Runs : reserve(c) \in Calls
<1>1. \A c \in Runs : reserve(c) \in Calls
  BY RotatedActionsAssumptions DEF Calls, Reservations
<1>2. \A a, b, c, d, e : <<a, b, c>> # <<d, e>>
  OBVIOUS
<1> QED
  BY <1>1, <1>2 DEF post, delete, reserve, Calls

\* A run asks locky as clients do.
LEMMA ReserveMovesLocky ==
    ASSUME NEW c \in Runs, L!PostReserve(reserve(c), ServiceOf[c])
    PROVE  /\ lockPc[reserve(c)] = "idle" /\ lockPc' = [lockPc EXCEPT ![reserve(c)] = "check"]
           /\ lockCall' = [lockCall EXCEPT ![reserve(c)] =
                [kind |-> "reserve", services |-> {ServiceOf[c]}, lockId |-> reserve(c)]]
           /\ \E b : lockRequest' = [lockRequest EXCEPT ![reserve(c)] = b]
           /\ UNCHANGED <<locks, lockAnswer, lockBefore>>
           /\ UNCHANGED active => [P!Next]_P!vars
<1>1. reserve(c) \in Calls /\ ServiceOf[c] \in Services
  BY RotatedActionsAssumptions DEF Calls, Reservations
<1>2. \A S : L!Cardinality(S) = P!Cardinality(S)
  BY DEF L!Cardinality, P!Cardinality
<1>3. P!PostReserve(reserve(c), ServiceOf[c])
  BY <1>2 DEF P!PostReserve, L!PostReserve, P!Receive, L!Receive, P!NoLockRequest,
     L!NoLockRequest, P!InFlight, L!InFlight, P!Waiting, L!Waiting
<1>4. UNCHANGED active => [P!Next]_P!vars
  BY <1>1, <1>3 DEF P!Next, P!Arrive, Calls
<1> QED
  BY <1>4 DEF L!PostReserve, L!Receive

\* A step of a rotate makes a call for its descendants, or a call of removal once
\* it is through, and changes no other call.
NewPost(r, q) ==
    /\ \E n \in Attempts : q = post(r, n)
    /\ pc[r] \in {"descendants", "lock"} /\ pc'[r] = "lock"
    /\ lockCall'[q].kind = "lock" /\ lockCall'[q].services = descendants'[r]
    /\ lockRequest'[q].services = descendants'[r]

NewDelete(r, q) == (\E n \in Attempts : q = delete(r, n)) /\ pc'[r] \in {"rollback", "unlock"}

SameCall(q) ==
    lockPc'[q] = lockPc[q] /\ lockCall'[q] = lockCall[q] /\ lockRequest'[q] = lockRequest[q]

LEMMA StepCalls ==
    ASSUME LocalsOK, LocalsOK', LInv, NEW r \in Rotates,
           (\E s \in Services : RotateService(r, s)) \/ Step(r) \/ Crash(r)
    PROVE  /\ UNCHANGED <<locks, lockAnswer, lockBefore>>
           /\ \A q \in Calls : SameCall(q) \/ NewPost(r, q) \/ NewDelete(r, q)
<1> DEFINE Made == /\ UNCHANGED <<locks, lockAnswer, lockBefore>>
                   /\ \A q \in Calls : SameCall(q) \/ NewPost(r, q) \/ NewDelete(r, q)
<1>0. /\ lockPc = [q \in Calls |-> lockPc[q]] /\ lockCall = [q \in Calls |-> lockCall[q]]
      /\ lockRequest = [q \in Calls |-> lockRequest[q]]
  BY DEF LInv, P!IInv, P!TypeOK, Calls
<1>1. ASSUME UNCHANGED lockyVars PROVE Made
  BY <1>1 DEF lockyVars, SameCall
<1>2. ASSUME NEW n \in Attempts, CreateLock(r, n), pc[r] \in {"descendants", "lock"},
            pc'[r] = "lock"
      PROVE  Made
  <2>1. PICK p \in Calls : p = post(r, n)
    BY DEF Calls
  <2>2. PICK D : D = descendants'[r]
    OBVIOUS
  <2>3. /\ lockPc' = [lockPc EXCEPT ![p] = "check"] /\ UNCHANGED <<locks, lockAnswer, lockBefore>>
        /\ lockCall' = [lockCall EXCEPT ![p] = [kind |-> "lock", services |-> D, lockId |-> p]]
        /\ lockRequest' = [lockRequest EXCEPT ![p] =
             [services |-> D, expiration |-> RotationLockExpiration]]
    BY <1>2, <2>1, <2>2 DEF CreateLock, L!PostLock, L!Receive
  <2>4. \A q \in Calls : q # p => SameCall(q)
    BY <1>0, <2>3 DEF SameCall
  <2>5. NewPost(r, p)
    BY <1>0, <1>2, <2>1, <2>2, <2>3 DEF NewPost
  <2> QED
    BY <2>3, <2>4, <2>5
<1>3. ASSUME NEW n \in Attempts, RemoveLock(r, n), pc'[r] \in {"rollback", "unlock"}
      PROVE  Made
  <2>1. PICK p \in Calls : p = delete(r, n)
    BY DEF Calls
  <2>2. PICK x, y : /\ lockPc' = [lockPc EXCEPT ![p] = "find"]
                    /\ UNCHANGED <<locks, lockAnswer, lockBefore>>
                    /\ lockCall' = [lockCall EXCEPT ![p] = x]
                    /\ lockRequest' = [lockRequest EXCEPT ![p] = y]
    BY <1>3, <2>1 DEF RemoveLock, L!DeleteLockId, L!Receive
  <2>3. \A q \in Calls : q # p => SameCall(q)
    BY <1>0, <2>2 DEF SameCall
  <2> QED
    BY <1>3, <2>1, <2>2, <2>3 DEF NewDelete
<1>4. 1 \in Attempts /\ Asked(r) /\ LocalsOK
  BY RegistryAssumptions DEF Attempts, LInv
<1> SUFFICES Made
  OBVIOUS
<1> HIDE DEF Made
<1>5. CASE RotateDescendants(r)
  BY <1>1, <1>2, <1>4, <1>5 DEF RotateDescendants, At, LocalsOK
<1>6. CASE \E s \in Services : RotateVerify(r, s)
  BY <1>1, <1>3, <1>4, <1>6 DEF RotateVerify, Throw, VerifyPasses, At, LocalsOK, Busy
<1>7. CASE RotateInsert(r)
  BY <1>1, <1>3, <1>4, <1>7 DEF RotateInsert, At, LocalsOK, Busy
<1>8. CASE SendAgain(r)
  <2>1. attempt[r] + 1 \in Attempts
    BY <1>4, <1>8, RegistryAssumptions DEF SendAgain, At, Asked, Attempts
  <2> QED
    BY <1>2, <1>3, <1>8, <2>1 DEF SendAgain, At
<1> QED
  BY <1>1, <1>5, <1>6, <1>7, <1>8 DEF Step, RotateService, RotateFind, RotateLocked, RotateVerified,
     RotateTree, RotateCurrent, RotateUnlocked, CallRejects, ReadRejects, InsertRejects, Crash

LEMMA RotateKeepsSent ==
    ASSUME LocalsOK, LocalsOK', LInv, \A q \in Rotates : Sent(q), NEW r \in Rotates,
           (\E s \in Services : RotateService(r, s)) \/ Step(r) \/ Crash(r)
    PROVE  \A q \in Rotates : Sent(q)'
<1>1. Course(r) /\ \A q \in Calls : SameCall(q) \/ NewPost(r, q) \/ NewDelete(r, q)
  BY StepCourse, StepCalls
<1>2. ASSUME NEW q \in Rotates \ {r} PROVE Sent(q)'
  <2>1. \A n \in Attempts : SameCall(post(q, n)) /\ SameCall(delete(q, n))
    BY <1>1, DistinctCalls DEF NewPost, NewDelete
  <2> QED
    BY <1>1, <2>1 DEF Course, Sent, SameCall
<1>3. Sent(r)'
  <2> DEFINE Start == {"idle", "find", "descendants"}
             Through == Start \cup {"lock", "verify", "tree", "current", "insert"}
  <2>1. /\ pc'[r] \in Start => (pc[r] \in Start /\ pc[r] # "descendants") \/ pc'[r] = pc[r]
        /\ pc'[r] \in Through => pc[r] \in Through
        /\ pc[r] \in Start \/ descendants'[r] = descendants[r]
    BY <1>1 DEF Course, Waits, Locks, ReadsTree, ReadsCurrent, Writes
  <2>2. ASSUME NEW n \in Attempts
        PROVE  /\ SameCall(post(r, n)) \/ NewPost(r, post(r, n))
               /\ SameCall(delete(r, n)) \/ pc'[r] \in {"rollback", "unlock"}
    BY <1>1, DistinctCalls DEF NewPost, NewDelete
  <2> QED
    BY <2>1, <2>2 DEF Sent, SameCall, NewPost
<1> QED
  BY <1>2, <1>3

\* A step of locky makes no call, and a reservation passes its check only while no
\* lock on its service is in force.
Passes(c) ==
    /\ lockPc[reserve(c)] = "check" /\ lockPc'[reserve(c)] = "fetch"
    /\ P!FindNonexpiredLocks({ServiceOf[c]}) = {} /\ locks' = locks

LEMMA HandlerCalls ==
    ASSUME LInv, NEW q \in Calls, P!Step(q) \/ P!Crash(q)
    PROVE  /\ P!Move(q)
           /\ lockCall' = lockCall
           /\ \A d \in Calls : d # q => /\ lockPc'[d] = lockPc[d] /\ lockAnswer'[d] = lockAnswer[d]
                                        /\ lockBefore'[d] = lockBefore[d]
           /\ lockPc[q] \notin {"idle", "done", "dropped"} /\ lockPc'[q] # "idle"
           /\ \A d \in Calls : lockCall[d].kind = "lock" => lockRequest'[d] = lockRequest[d]
<1>0. /\ P!TypeOK /\ P!KindsAgree /\ P!UnlocksDelete
      /\ lockPc \in [Calls -> P!Waiting \cup {"idle", "done", "dropped"}]
      /\ lockRequest = [d \in Calls |-> lockRequest[d]]
  BY DEF LInv, P!IInv, P!RowInv, P!TypeOK, Calls
<1>1. P!Move(q) /\ P!Shape(q)
  BY <1>0, P!StepMoves, P!StepShape, LockyAssumed DEF Calls
<1>2. lockPc'[q] # "idle"
  BY <1>0, <1>1 DEF P!Shape, P!Waiting
<1>3. \A d \in Calls : lockCall[d].kind = "lock" => lockRequest'[d] = lockRequest[d]
  <2>1. \/ lockRequest' = lockRequest
        \/ lockPc[q] = "fetch" /\ \E x : lockRequest' = [lockRequest EXCEPT ![q] = x]
    BY <1>1 DEF P!Shape, P!FetchEffect
  <2>2. lockPc[q] = "fetch" => lockCall[q].kind = "reserve"
    BY <1>0 DEF P!KindsAgree, Calls
  <2> QED
    BY <1>0, <2>1, <2>2
<1>4. \A d \in Calls : d # q => lockBefore'[d] = lockBefore[d]
  BY <1>0, <1>1 DEF P!Shape, P!CheckEffect, P!TypeOK, Calls
<1> QED
  BY <1>1, <1>2, <1>3, <1>4 DEF P!Move, P!Waiting, Calls

LEMMA ReserveSteps ==
    ASSUME LInv, NEW c \in Runs, Reserved(c),
           P!Step(reserve(c)) \/ P!Crash(reserve(c))
    PROVE  /\ lockPc'[reserve(c)] \in {"fetch", "done", "dropped"}
           /\ lockPc'[reserve(c)] = "fetch" => Passes(c)
           /\ lockPc'[reserve(c)] = "done" /\ lockAnswer'[reserve(c)] = 204 =>
                lockPc[reserve(c)] = "fetch"
           /\ locks' = locks
<1> DEFINE q == reserve(c)
<1>0. /\ q \in Calls /\ ServiceOf[c] \in Services
      /\ P!TypeOK /\ P!KindsAgree /\ P!UnlocksDelete
      /\ lockPc \in [Calls -> P!Waiting \cup {"idle", "done", "dropped"}]
      /\ lockAnswer = [d \in Calls |-> lockAnswer[d]]
  BY RotatedActionsAssumptions DEF LInv, P!IInv, P!RowInv, P!TypeOK, Calls, Reservations
<1>1. lockPc[q] \in {"check", "fetch"} /\ lockCall[q].kind = "reserve"
      /\ lockCall[q].services = {ServiceOf[c]}
  <2>1. lockPc[q] \notin {"idle", "done", "dropped"}
    BY <1>0, HandlerCalls
  <2> QED
    BY <2>1 DEF Reserved
<1> HIDE DEF q
<1> USE <1>0, <1>1 DEF P!At, P!Answer
<1>2. CASE P!ReserveCheck(q)
  BY <1>2 DEF P!ReserveCheck, P!PassCheck, Passes, q
<1>3. CASE P!ReserveFetch(q)
  BY <1>3 DEF P!ReserveFetch, q
<1>4. CASE P!ReadRejects(q)
  BY <1>4 DEF P!ReadRejects, q
<1>5. CASE P!Crash(q)
  BY <1>5 DEF P!Crash, q
<1>6. ~ (P!LockCheck(q) \/ P!LockInsert(q) \/ P!UnlockFind(q) \/ P!UnlockDelete(q)
         \/ P!ReserveInsert(q) \/ (\E b \in Services : P!ReserveVerify(q, b))
         \/ P!ReserveGrant(q) \/ P!ReserveRollback(q)
         \/ P!VerifyRejects(q) \/ P!InsertRejects(q) \/ P!DeleteRejects(q))
  BY DEF P!LockCheck, P!LockInsert, P!UnlockFind, P!UnlockDelete, P!ReserveInsert,
     P!ReserveVerify, P!ReserveGrant, P!ReserveRollback, P!VerifyRejects, P!InsertRejects,
     P!DeleteRejects
<1> QED
  BY <1>2, <1>3, <1>4, <1>5, <1>6 DEF P!Step, q

\* What locky does to the calls of rotates and runs.
LEMMA LockyCalls ==
    ASSUME LInv, \A c \in Runs : Reserved(c), LockyStep
    PROVE  /\ lockCall' = lockCall
           /\ \A q \in Calls : lockPc'[q] = "idle" <=> lockPc[q] = "idle"
           /\ \A q \in Calls : lockCall[q].kind = "lock" => lockRequest'[q] = lockRequest[q]
           /\ \A c \in Runs : /\ Reserved(c)'
                              /\ Admitted(c) => Admitted(c)'
                              /\ Checked(c)' => Checked(c) \/ Passes(c)
<1>0. \A c \in Runs : reserve(c) \in Calls
  BY RotatedActionsAssumptions DEF Calls, Reservations
<1>1. CASE P!Tick
  BY <1>1 DEF P!Tick, P!locals, Reserved, Checked, Admitted, L!Answered
<1>2. ASSUME NEW q \in Calls, P!Step(q) \/ P!Crash(q)
      PROVE  /\ lockCall' = lockCall
             /\ \A d \in Calls : lockPc'[d] = "idle" <=> lockPc[d] = "idle"
             /\ \A d \in Calls : lockCall[d].kind = "lock" => lockRequest'[d] = lockRequest[d]
             /\ \A c \in Runs : /\ Reserved(c)'
                                /\ Admitted(c) => Admitted(c)'
                                /\ Checked(c)' => Checked(c) \/ Passes(c)
  <2>1. /\ lockCall' = lockCall
        /\ \A d \in Calls : d # q => lockPc'[d] = lockPc[d] /\ lockAnswer'[d] = lockAnswer[d]
        /\ lockPc[q] \notin {"idle", "done", "dropped"} /\ lockPc'[q] # "idle"
        /\ \A d \in Calls : lockCall[d].kind = "lock" => lockRequest'[d] = lockRequest[d]
    BY <1>2, HandlerCalls
  <2>2. ASSUME NEW c \in Runs, reserve(c) # q
        PROVE  /\ Reserved(c)'
               /\ Admitted(c) => Admitted(c)'
               /\ Checked(c)' => Checked(c)
    BY <1>0, <2>1, <2>2 DEF Reserved, Checked, Admitted, L!Answered
  <2>3. ASSUME NEW c \in Runs, reserve(c) = q
        PROVE  /\ Reserved(c)'
               /\ ~ Admitted(c)
               /\ Checked(c)' => Checked(c) \/ Passes(c)
    BY <1>2, <2>1, <2>3, ReserveSteps DEF Reserved, Checked, Admitted, L!Answered
  <2> QED
    BY <2>1, <2>2, <2>3
<1> QED
  BY <1>1, <1>2, SameSteps DEF LockyStep

\* Calls others make leave what a rotate and a run asked as it is.
LEMMA SentLeftAlone ==
    ASSUME NEW r \in Rotates, Sent(r), pc'[r] = pc[r], descendants'[r] = descendants[r],
           lockCall' = lockCall,
           \A q \in Calls : lockPc'[q] = "idle" <=> lockPc[q] = "idle",
           \A q \in Calls : lockCall[q].kind = "lock" => lockRequest'[q] = lockRequest[q]
    PROVE  Sent(r)'
<1>1. \A n \in Attempts : post(r, n) \in Calls /\ delete(r, n) \in Calls
  BY DistinctCalls
<1> QED
  BY <1>1 DEF Sent

LEMMA LockyIgnoresActivity ==
    ASSUME P!IInv, P!RowInv, UNCHANGED lockyVars, active' \subseteq Services
    PROVE  P!IInv' /\ P!RowInv'
<1> USE DEF lockyVars
<1>1. P!TypeOK'
  BY DEF P!IInv, P!TypeOK
<1>2. P!IInv'
  BY <1>1 DEF P!IInv, P!KindsAgree, P!RowsHaveOwners, P!BeforeIsPast, P!Inserted,
     P!RowsListBlockees, P!NoOverlookedLock, P!NonExpired
<1>3. P!RowInv'
  BY DEF P!RowInv, P!UnlocksGranted, P!VerifiedHasRow, P!RollbackRefuses, P!UnlocksDelete,
     P!RefusalLeavesNoRow, P!GrantedLockKept, P!ReleasedStaysReleased, P!Granted, P!Answered
<1> QED
  BY <1>2, <1>3

LEMMA RotateKeepsSentInv ==
    ASSUME LocalsOK, LocalsOK', SentInv, NEW r \in Rotates, ByRotate(r)
    PROVE  SentInv'
<1>1. [P!Next]_P!vars
  BY RotateMovesLocky DEF SentInv, ByRotate
<1>2. P!IInv' /\ P!RowInv'
  BY <1>1, P!RowInvInductive, LockyAssumed DEF SentInv, LInv
<1>3. \A q \in Rotates : Asked(q)' /\ Sent(q)'
  BY StepKeepsAsked, RotateKeepsSent DEF SentInv, ByRotate
<1>4. ASSUME NEW c \in Runs PROVE Reserved(c)'
  <2>1. /\ reserve(c) \in Calls
        /\ \A n \in Attempts : post(r, n) # reserve(c) /\ delete(r, n) # reserve(c)
    BY DistinctCalls, RotatedActionsAssumptions DEF Calls, Reservations
  <2>2. SameCall(reserve(c))
    BY <2>1, StepCalls DEF SentInv, ByRotate, NewPost, NewDelete
  <2> QED
    BY <2>2 DEF SentInv, Reserved, SameCall
<1> QED
  BY <1>2, <1>3, <1>4, SameActivity DEF SentInv, LInv, ByRotate

LEMMA LockyKeepsSentInv ==
    ASSUME LocalsOK, SentInv, ByLocky
    PROVE  SentInv'
<1>0. LockyStep /\ UNCHANGED <<locals, active, actionyVars>> /\ LInv /\ \A c \in Runs : Reserved(c)
  BY DEF ByLocky, LockyStep, SentInv
<1>1. P!IInv' /\ P!RowInv'
  BY <1>0, LockyStepMovesLocky, P!RowInvInductive, LockyAssumed DEF LInv
<1>2. \A r \in Rotates : Asked(r)'
  BY <1>0, LockyKeepsAsked
<1>3. \A c \in Runs : Reserved(c)'
  BY <1>0, LockyCalls
<1>4. \A r \in Rotates : Sent(r)'
  BY <1>0, LockyCalls, SentLeftAlone DEF SentInv, locals
<1> QED
  BY <1>0, <1>1, <1>2, <1>3, <1>4, SameActivity DEF SentInv, LInv

LEMMA ReserveKeepsSentInv ==
    ASSUME LocalsOK, SentInv, NEW c \in Runs, ByReserve(c)
    PROVE  SentInv'
<1> DEFINE q == reserve(c)
<1>0. /\ UNCHANGED <<locals, active, actionyVars>> /\ LInv
      /\ q \in Calls
      /\ \A r \in Rotates, n \in Attempts : /\ post(r, n) # q /\ delete(r, n) # q
                                            /\ post(r, n) \in Calls /\ delete(r, n) \in Calls
      /\ \A d \in Runs : reserve(d) = q => d = c
      /\ \A d \in Runs : reserve(d) \in Calls
  BY DistinctCalls, RotatedActionsAssumptions DEF ByReserve, SentInv, Calls, Reservations, reserve
<1>1. /\ lockPc' = [lockPc EXCEPT ![q] = "check"] /\ lockPc[q] = "idle"
      /\ lockCall' = [lockCall EXCEPT ![q] =
           [kind |-> "reserve", services |-> {ServiceOf[c]}, lockId |-> q]]
      /\ \E b : lockRequest' = [lockRequest EXCEPT ![q] = b]
      /\ UNCHANGED <<locks, lockAnswer>>
      /\ [P!Next]_P!vars
  BY <1>0, ReserveMovesLocky DEF ByReserve
<1> HIDE DEF q
<1>2. P!IInv' /\ P!RowInv'
  BY <1>0, <1>1, P!RowInvInductive, LockyAssumed DEF LInv
<1>3. \A d \in Calls : d # q => SameCall(d)
  <2>1. /\ lockPc = [d \in Calls |-> lockPc[d]] /\ lockCall = [d \in Calls |-> lockCall[d]]
        /\ lockRequest = [d \in Calls |-> lockRequest[d]]
    BY <1>0 DEF LInv, P!IInv, P!TypeOK, Calls
  <2> QED
    BY <1>1, <2>1 DEF SameCall
<1>4. UNCHANGED <<pc, descendants, attempt, lockId, answer>>
  BY <1>0 DEF locals
<1>5. ASSUME NEW r \in Rotates PROVE Sent(r)' /\ Asked(r)'
  <2>1. \A n \in Attempts : SameCall(post(r, n)) /\ SameCall(delete(r, n))
    BY <1>0, <1>3
  <2>2. Sent(r)'
    BY <1>4, <2>1 DEF SentInv, Sent, SameCall
  <2>3. lockId[r] \in Attempts \cup {0}
    BY DEF LocalsOK
  <2>4. Asked(r)'
    BY <1>0, <1>1, <1>4, <2>1, <2>3 DEF LInv, Asked, SameCall, P!Granted, P!Answered
  <2> QED
    BY <2>2, <2>4
<1>6. ASSUME NEW d \in Runs PROVE Reserved(d)'
  <2>1. CASE d = c
    <3>1. reserve(d) = q /\ lockPc'[q] = "check" /\ lockCall'[q].kind = "reserve"
          /\ lockCall'[q].services = {ServiceOf[d]}
      BY <1>0, <1>1, <2>1 DEF q, LInv, P!IInv, P!TypeOK, Calls
    <3> QED
      BY <3>1 DEF Reserved
  <2>2. CASE d # c
    BY <1>0, <1>3, <2>2 DEF SentInv, Reserved, SameCall
  <2> QED
    BY <2>1, <2>2
<1> QED
  BY <1>0, <1>2, <1>5, <1>6, SameActivity DEF SentInv, LInv

LEMMA OthersKeepSentInv ==
    ASSUME LocalsOK, SentInv, ByActiony \/ BySeed
    PROVE  SentInv'
<1>1. /\ UNCHANGED <<lockyVars, locals>> /\ LInv
      /\ active' = ActiveServices' /\ active' \subseteq Services
  BY SameActivity DEF ByActiony, BySeed, SentInv, ActiveServices
<1>2. P!IInv' /\ P!RowInv'
  BY <1>1, LockyIgnoresActivity DEF LInv
<1>3. \A r \in Rotates : Asked(r)'
  BY <1>1, LockyKeepsAsked
<1>4. \A r \in Rotates : Sent(r)'
  BY <1>1, SentLeftAlone DEF SentInv, locals, lockyVars
<1>5. \A c \in Runs : Reserved(c)'
  BY <1>1 DEF SentInv, Reserved, lockyVars
<1> QED
  BY <1>1, <1>2, <1>3, <1>4, <1>5 DEF SentInv, LInv

LEMMA SentInvInductive ==
    /\ RacesInit => SentInv
    /\ RInv /\ RInv' /\ SentInv /\ [RacesNext]_allVars => SentInv'
<1>1. ASSUME RacesInit PROVE SentInv
  <2>1. Init /\ active = ActiveServices
    BY <1>1 DEF RacesInit, ActionsInit
  <2>2. LInv
    BY <2>1, LInvInductive
  <2>3. lockPc = [q \in Calls |-> "idle"]
    BY <2>1, SameSteps DEF Init, P!Init, Calls
  <2>4. \A r \in Rotates : Sent(r)
    BY <2>3, DistinctCalls DEF Sent
  <2>5. \A c \in Runs : Reserved(c)
    BY <2>3, RotatedActionsAssumptions DEF Reserved, Calls, Reservations
  <2> QED
    BY <2>1, <2>2, <2>4, <2>5 DEF SentInv
<1>2. ASSUME RInv, RInv', SentInv, [RacesNext]_allVars PROVE SentInv'
  <2>1. LocalsOK /\ LocalsOK' /\ SeedOK /\ active = ActiveServices
    BY <1>2 DEF RInv, SentInv
  <2> QED
    BY <1>2, <2>1, StepKinds, RotateKeepsSentInv, LockyKeepsSentInv, ReserveKeepsSentInv,
       OthersKeepSentInv
<1> QED
  BY <1>1, <1>2

-----------------------------------------------------------------------------
\* What runs ask of actiony is within what Actiony expects.
LEMMA ActionyMoves ==
    ASSUME SeedOK, ByActiony
    PROVE  [Q!Next]_Q!vars
<1>0. scenario.runs \subseteq Runs /\ ServiceOf \in [Runs -> Services]
  BY Participants, RotatedActionsAssumptions
<1>1. ASSUME NEW c \in scenario.runs, CreateAction(c) PROVE Q!Next
  <2>1. Q!PostAction(create(c), ServiceOf[c], {}) /\ create(c) \in Actions
    BY <1>0, <1>1, SameActiony DEF CreateAction, Actions
  <2> QED
    BY <1>0, <2>1 DEF Q!Next, Q!Arrive, Actions
<1>2. ASSUME NEW c \in scenario.runs, UpdateAction(c) PROVE Q!Next
  <2>1. /\ Q!PatchAction(update(c), create(c), "completed", {})
        /\ update(c) \in Actions /\ create(c) \in Actions
    BY <1>0, <1>2, SameActiony DEF UpdateAction, Actions
  <2>2. Q!Arrive(update(c))
    BY <2>1 DEF Q!Arrive, Actions
  <2> QED
    BY <2>1, <2>2 DEF Q!Next, Actions
<1>3. ASSUME ActionyStep PROVE Q!Next
  BY <1>3, SameActiony DEF ActionyStep, Q!Next, Actions
<1> QED
  BY <1>1, <1>2, <1>3 DEF ByActiony

LEMMA ActionyKept ==
    ASSUME SeedOK, Q!TInv, Q!RInv, ByActiony \/ UNCHANGED actionyVars
    PROVE  Q!TInv' /\ Q!RInv'
<1>1. [Q!Next]_Q!vars
  BY ActionyMoves DEF actionyVars, Q!vars, Q!locals
<1> QED
  BY <1>1, Q!TInvInductive, Q!RInvInductive, ActionyAssumedOfQ

\* The course of a create.
LEMMA ActionCourse ==
    ASSUME Q!TInv, Q!RInv, NEW q \in Actions, Q!Step(q) \/ Q!Crash(q)
    PROVE  /\ actionCall' = actionCall
           /\ \A d \in Actions \ {q} : actionPc'[d] = actionPc[d]
           /\ Q!Rows \subseteq Q!Rows' /\ Q!Rows' \subseteq Q!Rows \cup {q}
           /\ \A a \in Q!Rows : Q!Active(a)' => Q!Active(a)
           /\ q \in Q!Rows' => actionPc[q] \in {"insert", "commit"}
           /\ actionPc[q] # "idle" /\ actionPc'[q] \notin {"idle", "fetch"}
           /\ actionPc'[q] \in {"count", "insert", "begin", "select", "commit"} =>
                \/ actionPc[q] \in {"count", "insert", "begin", "select", "commit"}
                \/ actionPc[q] = "fetch" /\ actionPc'[q] \in {"count", "insert"}
<1>0. actionPc \in [Actions -> Q!Waiting \cup {"idle", "done", "dropped"}]
  BY DEF Q!TInv, Q!TypeOK, Actions
<1>1. Q!Shape(q)
  BY Q!StepShape, ActionyAssumedOfQ DEF Actions
<1>2. /\ actionCall' = actionCall /\ actionPc[q] \in Q!Waiting
      /\ \A d \in Actions \ {q} : actionPc'[d] = actionPc[d]
      /\ Q!Rows \subseteq Q!Rows' /\ Q!Rows' \subseteq Q!Rows \cup {q}
      /\ \A a \in Q!Rows : Q!Active(a)' => Q!Active(a)
      /\ q \in Q!Rows' => actionPc[q] \in {"insert", "commit"}
  BY <1>1, Q!StepFacts, ActionyAssumedOfQ DEF Actions
<1>3. /\ actionPc[q] # "idle" /\ actionPc'[q] \notin {"idle", "fetch"}
      /\ actionPc'[q] \in {"count", "insert", "begin", "select", "commit"} =>
           \/ actionPc[q] \in {"count", "insert", "begin", "select", "commit"}
           \/ actionPc[q] = "fetch" /\ actionPc'[q] \in {"count", "insert"}
  BY <1>0, <1>1, <1>2 DEF Q!Shape, Q!Ends, Q!Fetched, Q!Counted, Q!ReplaceBegin, Q!SelectedNone,
     Q!SelectedLatest, Q!Found, Q!ReadsRow, Q!ReadRow, Q!Goto, Q!PassCount, Q!At, Q!Waiting
<1> QED
  BY <1>2, <1>3

\* What the inventory of actions says of a run.
LEMMA RowsOfRuns ==
    ASSUME Q!TInv, Q!RInv, NEW c \in Runs
    PROVE  /\ create(c) \in Actions
           /\ Inserted(c) <=> create(c) \in Q!Rows
           /\ Acting(c) <=> Q!Active(create(c))
           /\ Inserted(c) => actionPc[create(c)] \in {"done", "dropped"}
           /\ Inserted(c) => actions[create(c)].serviceId = actionCall[create(c)].serviceId
<1>1. create(c) \in Actions /\ (Inserted(c) <=> create(c) \in Q!Rows)
  BY DEF Inserted, Q!Rows, Actions
<1> QED
  BY <1>1 DEF Acting, A!Active, Q!Active, Q!RInv, Q!RowsOfCreates

\* What a step of actiony, or of a run that calls it, does to an action.
ActionMoves(c) ==
    /\ Inserted(c) => Inserted(c)' /\ (Acting(c)' => Acting(c))
    /\ Inserted(c)' /\ ~ Inserted(c) => carried[c] # {}
    /\ carried'[c] = carried[c] \/ carried'[c] = {CurrentOf(ServiceOf[c])}

LEMMA ClientMoves ==
    ASSUME ActsInv, NEW d \in Runs, d \in scenario.runs, CreateAction(d) \/ UpdateAction(d),
           carried' = carried, UNCHANGED <<lockyVars, scenario>>, NEW c \in Runs
    PROVE  Acts(c)' /\ ActionMoves(c)
<1>0. /\ Q!TInv /\ Q!RInv /\ Acts(c) /\ Acts(d)
      /\ create(c) \in Actions /\ create(d) \in Actions /\ update(d) \in Actions
      /\ \A r \in Runs : create(c) # update(r) /\ (create(c) = create(r) => c = r)
      /\ actionCall = [a \in Actions |-> actionCall[a]]
      /\ actionPc = [a \in Actions |-> actionPc[a]]
      /\ Admitted(c)' = Admitted(c)
  BY DEF ActsInv, Q!TInv, Q!TypeOK, Actions, create, update, Admitted, L!Answered, lockyVars
<1>1. actions' = actions
  BY DEF CreateAction, UpdateAction, A!PostAction, A!PatchAction, A!Receive, A!NoWrite
<1>2. Inserted(c)' = Inserted(c) /\ Acting(c)' = Acting(c)
  BY <1>1 DEF Inserted, Acting, A!Active
<1>3. CASE c = d /\ CreateAction(d)
  <2>1. PICK q \in Actions : q = create(d)
    BY <1>0
  <2>2. /\ actionPc[q] = "idle" /\ actionPc' = [actionPc EXCEPT ![q] = "fetch"]
        /\ actionCall' = [actionCall EXCEPT
             ![q] = [kind |-> "create", serviceId |-> ServiceOf[d], metadata |-> {}]]
        /\ Admitted(d)
    BY <1>3, <2>1 DEF CreateAction, A!PostAction, A!Receive
  <2>3. ~ Inserted(c)
    BY <1>0, <1>3, <2>1, <2>2, RowsOfRuns
  <2>4. /\ actionPc'[create(c)] = "fetch" /\ actionCall'[create(c)].kind = "create"
        /\ actionCall'[create(c)].serviceId = ServiceOf[c]
    BY <1>0, <1>3, <2>1, <2>2
  <2>5. carried[c] = {}
    BY <1>0, <1>3, <2>1, <2>2 DEF Acts
  <2> QED
    BY <1>0, <1>2, <1>3, <2>2, <2>3, <2>4, <2>5 DEF Acts, ActionMoves
<1>4. CASE ~ (c = d /\ CreateAction(d))
  <2>1. actionPc'[create(c)] = actionPc[create(c)] /\ actionCall'[create(c)] = actionCall[create(c)]
    <3>1. CASE CreateAction(d)
      <4>1. PICK q \in Actions : q = create(d)
        BY <1>0
      <4>2. PICK x : /\ actionPc' = [actionPc EXCEPT ![q] = "fetch"]
                     /\ actionCall' = [actionCall EXCEPT ![q] = x]
        BY <3>1, <4>1 DEF CreateAction, A!PostAction, A!Receive
      <4> QED
        BY <1>0, <1>4, <3>1, <4>1, <4>2
    <3>2. CASE UpdateAction(d)
      <4>1. PICK q \in Actions : q = update(d)
        BY <1>0
      <4>2. PICK x : /\ actionPc' = [actionPc EXCEPT ![q] = "find"]
                     /\ actionCall' = [actionCall EXCEPT ![q] = x]
        BY <3>2, <4>1 DEF UpdateAction, A!PatchAction, A!Receive
      <4> QED
        BY <1>0, <4>1, <4>2
    <3> QED
      BY <3>1, <3>2
  <2> QED
    BY <1>0, <1>2, <2>1 DEF Acts, ActionMoves
<1> QED
  BY <1>3, <1>4

LEMMA StepActions ==
    ASSUME ActsInv, ActionyStep, UNCHANGED scenario, NEW c \in Runs
    PROVE  Acts(c)' /\ ActionMoves(c)
<1>0. /\ Q!TInv /\ Q!RInv /\ Acts(c) /\ create(c) \in Actions
      /\ Admitted(c)' = Admitted(c)
  BY DEF ActsInv, Actions, Admitted, L!Answered, ActionyStep, lockyVars
<1>1. PICK q \in Actions : Q!Step(q) \/ Q!Crash(q)
  BY SameActiony DEF ActionyStep
<1>2. /\ actionCall' = actionCall
      /\ \A d \in Actions \ {q} : actionPc'[d] = actionPc[d]
      /\ Q!Rows \subseteq Q!Rows' /\ Q!Rows' \subseteq Q!Rows \cup {q}
      /\ \A a \in Q!Rows : Q!Active(a)' => Q!Active(a)
      /\ q \in Q!Rows' => actionPc[q] \in {"insert", "commit"}
      /\ actionPc[q] # "idle" /\ actionPc'[q] \notin {"idle", "fetch"}
      /\ actionPc'[q] \in {"count", "insert", "begin", "select", "commit"} =>
           \/ actionPc[q] \in {"count", "insert", "begin", "select", "commit"}
           \/ actionPc[q] = "fetch" /\ actionPc'[q] \in {"count", "insert"}
  BY <1>0, <1>1, ActionCourse
<1>3. /\ Inserted(c) <=> create(c) \in Q!Rows
      /\ Inserted(c)' <=> create(c) \in Q!Rows'
      /\ Acting(c) <=> Q!Active(create(c))
      /\ Acting(c)' <=> Q!Active(create(c))'
  BY <1>0 DEF Inserted, Acting, A!Active, Q!Active, Q!Rows, Actions
<1>4. carried'[c] = IF Fetched(c) THEN {CurrentOf(ServiceOf[c])} ELSE carried[c]
  BY DEF ActionyStep, Carry
<1>5. Fetched(c) <=> /\ actionCall[create(c)].kind = "create" /\ actionPc[create(c)] = "fetch"
                     /\ actionPc'[create(c)] \in {"count", "insert"}
  BY DEF Fetched, A!At
<1>6. ActionMoves(c)
  BY <1>0, <1>2, <1>3, <1>4 DEF ActionMoves, Acts
<1>7. CASE create(c) = q
  BY <1>0, <1>2, <1>3, <1>4, <1>5, <1>6, <1>7 DEF Acts
<1>8. CASE create(c) # q
  BY <1>0, <1>2, <1>3, <1>4, <1>5, <1>6, <1>8 DEF Acts
<1> QED
  BY <1>6, <1>7, <1>8

LEMMA ActionySteps ==
    ASSUME SeedOK, ActsInv, ByActiony, NEW c \in Runs
    PROVE  Acts(c)' /\ ActionMoves(c)
<1>1. CASE ActionyStep
  BY <1>1, StepActions DEF ByActiony
<1>2. ASSUME NEW d \in scenario.runs, CreateAction(d) \/ UpdateAction(d)
      PROVE  Acts(c)' /\ ActionMoves(c)
  <2>1. d \in Runs /\ carried' = carried /\ UNCHANGED <<lockyVars, scenario>>
    BY <1>2, Participants DEF CreateAction, UpdateAction, ByActiony
  <2> QED
    BY <1>2, <2>1, ClientMoves
<1> QED
  BY <1>1, <1>2 DEF ByActiony

\* Nobody else touches actions, and an admission stays.
LEMMA OthersKeepActs ==
    ASSUME ActsInv, UNCHANGED <<actionyVars, carried, scenario>>,
           \A c \in Runs : Admitted(c) => Admitted(c)'
    PROVE  \A c \in Runs : Acts(c)'
BY DEF ActsInv, Acts, actionyVars, Inserted

LEMMA AdmissionsStay ==
    ASSUME LocalsOK, LocalsOK', SentInv,
           (\E r \in Rotates : ByRotate(r)) \/ ByLocky \/ (\E c \in Runs : ByReserve(c)) \/ BySeed
    PROVE  /\ \A c \in Runs : Admitted(c) => Admitted(c)'
           /\ \A c \in Runs : Checked(c)' => Checked(c) \/ (Passes(c) /\ LockyStep)
<1>0. \A c \in Runs : reserve(c) \in Calls
  BY RotatedActionsAssumptions DEF Calls, Reservations
<1>1. ASSUME NEW r \in Rotates, ByRotate(r), NEW c \in Runs
      PROVE  (Admitted(c) => Admitted(c)') /\ (Checked(c)' => Checked(c))
  <2>1. SameCall(reserve(c)) /\ lockAnswer' = lockAnswer
    BY <1>0, <1>1, StepCalls, DistinctCalls DEF SentInv, ByRotate, NewPost, NewDelete
  <2> QED
    BY <2>1 DEF SameCall, Admitted, Checked, L!Answered
<1>2. CASE ByLocky
  BY <1>2, LockyCalls DEF ByLocky, SentInv
<1>3. ASSUME NEW d \in Runs, ByReserve(d), NEW c \in Runs
      PROVE  (Admitted(c) => Admitted(c)') /\ (Checked(c)' => Checked(c))
  <2>1. PICK q \in Calls : q = reserve(d)
    BY <1>0
  <2>2. lockPc[q] = "idle" /\ lockPc' = [lockPc EXCEPT ![q] = "check"] /\ lockAnswer' = lockAnswer
    BY <1>3, <2>1, ReserveMovesLocky DEF ByReserve
  <2>3. lockPc = [x \in Calls |-> lockPc[x]]
    BY DEF SentInv, LInv, P!IInv, P!TypeOK, Calls
  <2>4. \A x \in Calls : lockPc'[x] = IF x = q THEN "check" ELSE lockPc[x]
    BY <2>2, <2>3
  <2> QED
    BY <1>0, <2>2, <2>4 DEF Admitted, Checked, L!Answered
<1>4. CASE BySeed
  BY <1>4 DEF BySeed, lockyVars, Admitted, Checked, L!Answered
<1> QED
  BY <1>1, <1>2, <1>3, <1>4

LEMMA ActsInvInductive ==
    /\ RacesInit => ActsInv
    /\ RInv /\ RInv' /\ SentInv /\ ActsInv /\ [RacesNext]_allVars => ActsInv'
<1>1. ASSUME RacesInit PROVE ActsInv
  <2>1. Q!Init /\ carried = [c \in Runs |-> {}]
    BY <1>1, SameActiony DEF RacesInit, ActionsInit
  <2>2. Q!TInv /\ Q!RInv
    BY <2>1, Q!TInvInductive, Q!RInvInductive, ActionyAssumedOfQ
  <2>3. \A c \in Runs : actionPc[create(c)] = "idle" /\ ~ Inserted(c)
    BY <2>1 DEF Q!Init, Inserted
  <2> QED
    BY <2>1, <2>2, <2>3 DEF ActsInv, Acts
<1>2. ASSUME RInv, RInv', SentInv, ActsInv, [RacesNext]_allVars PROVE ActsInv'
  <2>1. LocalsOK /\ LocalsOK' /\ SeedOK /\ active = ActiveServices
    BY <1>2 DEF RInv, SentInv
  <2>2. CASE ByActiony
    BY <1>2, <2>1, <2>2, ActionySteps, ActionyKept DEF ActsInv
  <2>3. CASE (\E r \in Rotates : ByRotate(r)) \/ ByLocky \/ (\E c \in Runs : ByReserve(c)) \/ BySeed
    <3>1. UNCHANGED <<actionyVars, carried, scenario>>
      BY <2>3 DEF ByRotate, ByLocky, ByReserve, BySeed
    <3>2. \A c \in Runs : Admitted(c) => Admitted(c)'
      BY <1>2, <2>1, <2>3, AdmissionsStay
    <3> QED
      BY <1>2, <2>1, <3>1, <3>2, ActionyKept, OthersKeepActs DEF ActsInv
  <2> QED
    BY <1>2, <2>1, <2>2, <2>3, StepKinds
<1> QED
  BY <1>1, <1>2

-----------------------------------------------------------------------------
\* While a rotate checks and inserts, its lock stands unless it expires.
Guarding == {"verify", "tree", "current", "insert"}

StartsChecks(r) == pc[r] = "lock" /\ pc'[r] = "verify" /\ pending'[r] = descendants[r]

FindsIdle(r, s) ==
    /\ pc[r] = "verify" /\ pc'[r] = "verify" /\ lockId'[r] = lockId[r]
    /\ s \in pending[r] /\ s \notin active /\ pending'[r] = pending[r] \ {s}

GoesOn(r) ==
    /\ pc[r] \in Guarding /\ lockId'[r] = lockId[r] /\ pending'[r] = pending[r]
    /\ pc[r] = "verify" /\ pc'[r] # "verify" => pending[r] = {}
    /\ pc'[r] = "verify" => pc[r] = "verify"

Checks(r) ==
    /\ \A q \in Rotates \ {r} : pending'[q] = pending[q] /\ lockId'[q] = lockId[q]
    /\ pc'[r] \in Guarding => StartsChecks(r) \/ (\E s \in Services : FindsIdle(r, s)) \/ GoesOn(r)

LEMMA StepChecks ==
    ASSUME LocalsOK, NEW r \in Rotates,
           (\E s \in Services : RotateService(r, s)) \/ Step(r) \/ Crash(r)
    PROVE  Checks(r)
<1> USE DEF Checks, Guarding, At, LocalsOK, Goto, Answer
<1>1. CASE \E s \in Services : RotateService(r, s)
  BY <1>1 DEF RotateService
<1>2. CASE RotateFind(r) \/ RotateDescendants(r) \/ RotateUnlocked(r) \/ CallRejects(r)
           \/ ReadRejects(r) \/ InsertRejects(r) \/ Crash(r)
  BY <1>2 DEF RotateFind, RotateDescendants, RotateUnlocked, CallRejects, ReadRejects,
     InsertRejects, Crash
<1>3. CASE RotateLocked(r)
  BY <1>3 DEF RotateLocked, StartsChecks
<1>4. ASSUME NEW s \in Services, RotateVerify(r, s) PROVE Checks(r)
  BY <1>4 DEF RotateVerify, Throw, VerifyPasses, FindsIdle
<1>5. CASE RotateVerified(r) \/ RotateTree(r) \/ RotateCurrent(r) \/ RotateInsert(r)
  BY <1>5 DEF RotateVerified, RotateTree, RotateCurrent, RotateInsert, GoesOn
<1>6. CASE SendAgain(r)
  BY <1>6 DEF SendAgain
<1> QED
  BY <1>1, <1>2, <1>3, <1>4, <1>5, <1>6 DEF Step

\* Nobody asks for the removal of the lock, whose row lists the descendants.
Stands(r, p) ==
    /\ p = post(r, lockId[r]) /\ lockPc[p] = "done"
    /\ locks[p] # NoLock /\ locks[p].serviceIds = descendants[r]
    /\ \A u \in Calls : lockCall[u].kind = "unlock" => lockCall[u].lockId # p

LEMMA LockStands ==
    ASSUME LocalsOK, SentInv, NEW r \in Rotates, pc[r] \in Guarding
    PROVE  \E p \in Calls : Stands(r, p)
<1>0. /\ Asked(r) /\ Sent(r) /\ lockId[r] \in Attempts /\ lockId[r] # 0
      /\ P!UnlocksDelete /\ P!GrantedLockKept /\ P!RowsListBlockees
  BY RegistryAssumptions DEF SentInv, LInv, Asked, Guarding, Attempts, P!RowInv, P!IInv
<1>1. PICK p \in Calls : p = post(r, lockId[r])
  BY <1>0 DEF Calls
<1>2. P!Granted(p) /\ lockPc[p] = "done"
  BY <1>0, <1>1 DEF Asked, P!Granted, P!Answered
<1>3. ASSUME NEW u \in Calls, lockCall[u].kind = "unlock" PROVE lockCall[u].lockId # p
  <2>1. lockPc[u] # "idle"
    BY <1>0, <1>3 DEF P!UnlocksDelete, Calls
  <2>2. CASE \E q \in Rotates, n \in Attempts : u = post(q, n)
    BY <1>3, <2>1, <2>2 DEF SentInv, Sent
  <2>3. ASSUME NEW q \in Rotates, NEW n \in Attempts, u = delete(q, n)
        PROVE  lockCall[u].lockId # p
    <3>1. lockCall[u].lockId = post(q, lockId[q]) /\ lockId[q] # 0 /\ lockId[q] \in Attempts \cup {0}
      BY <2>1, <2>3 DEF SentInv, LInv, Asked, LocalsOK
    <3>2. q # r
      BY <1>0, <2>1, <2>3 DEF Sent, Guarding
    <3> QED
      BY <1>0, <1>1, <3>1, <3>2, DistinctCalls
  <2>4. CASE u \in OtherRequests
    <3>1. PICK c \in Runs : u = reserve(c)
      BY <2>4, RotatedActionsAssumptions DEF Reservations
    <3> QED
      BY <1>3, <2>1, <3>1 DEF SentInv, Reserved
  <2> QED
    BY <2>2, <2>3, <2>4 DEF Calls
<1>4. locks[p] # NoLock
  BY <1>0, <1>2, <1>3 DEF P!GrantedLockKept, Calls
<1>5. locks[p].serviceIds = descendants[r]
  <2>1. lockRequest[p].services = descendants[r]
    BY <1>0, <1>1, <1>2 DEF Sent
  <2> QED
    BY <1>0, <1>4, <2>1 DEF P!RowsListBlockees, Calls
<1> QED
  BY <1>1, <1>2, <1>3, <1>4, <1>5 DEF Stands

\* A lock that has expired stays, and no run passes its check against one that
\* has not.
LEMMA ExpiryStays ==
    ASSUME SentInv, NEW r \in Rotates, NEW p \in Calls, Stands(r, p),
           LockyStep \/ locks' = locks
    PROVE  /\ Expired(p) => Expired(p)'
           /\ \A c \in Runs : Passes(c) /\ ServiceOf[c] \in descendants[r] => Expired(p)
<1>0. P!TypeOK /\ P!KindsAgree /\ P!UnlocksDelete /\ LInv
  BY DEF SentInv, LInv, P!IInv, P!RowInv
<1>1. ASSUME locks' = locks PROVE Expired(p) => Expired(p)'
  BY <1>1 DEF Expired, L!NonExpired
<1>2. ASSUME P!Tick PROVE Expired(p) => Expired(p)'
  <2>1. locks' = [l \in Calls |-> IF locks[l] # NoLock /\ locks[l].ttl > 0
                                  THEN [locks[l] EXCEPT !.ttl = @ - 1] ELSE locks[l]]
    BY <1>2 DEF P!Tick, Calls
  <2>2. Expired(p) => locks[p].ttl = 0
    BY DEF Expired, L!NonExpired
  <2>3. Expired(p) => locks'[p] = locks[p]
    BY <2>1, <2>2
  <2> QED
    BY <2>3 DEF Expired, L!NonExpired
<1>3. ASSUME NEW q \in Calls, P!Step(q) \/ P!Crash(q) PROVE Expired(p) => Expired(p)'
  <2>1. P!Move(q)
    BY <1>0, <1>3, HandlerCalls
  <2>2. locks'[p] # locks[p] => \/ p = q /\ lockPc[q] \in {"insert", "rollback"}
                                \/ p = lockCall[q].lockId /\ P!Remove(q)
    BY <1>0, <2>1, P!RowChanges, LockyAssumed DEF Calls
  <2>3. locks'[p] = locks[p]
    BY <2>2 DEF Stands, P!Remove
  <2> QED
    BY <2>3 DEF Expired, L!NonExpired
<1>4. Expired(p) => Expired(p)'
  BY <1>1, <1>2, <1>3, SameSteps DEF LockyStep
<1>5. ASSUME NEW c \in Runs, Passes(c), ServiceOf[c] \in descendants[r] PROVE Expired(p)
  <2>1. ~ P!NonExpired(p)
    BY <1>5 DEF Passes, Stands, P!FindNonexpiredLocks, Calls
  <2> QED
    BY <2>1 DEF Stands, Expired, P!NonExpired, L!NonExpired
<1> QED
  BY <1>4, <1>5

-----------------------------------------------------------------------------
LEMMA RotateKeepsEarly ==
    ASSUME \A q \in Rotates : Early(q), NEW r \in Rotates, Course(r), Checks(r),
           UNCHANGED <<late, scenario>>
    PROVE  \A q \in Rotates : Early(q)'
<1>1. ASSUME NEW q \in Rotates \ {r} PROVE Early(q)'
  BY DEF Course, Checks, Early
<1>2. Early(r)'
  <2> DEFINE Start == {"idle", "find", "descendants", "lock", "verify", "tree"}
  <2>1. pc'[r] \in Start => pc[r] \in Start /\ tree'[r] = tree[r]
    BY DEF Course, Waits, Locks, ReadsTree, ReadsCurrent, Writes
  <2>2. pc'[r] \in {"tree", "current", "insert"} => pending'[r] = {}
    BY DEF Checks, StartsChecks, FindsIdle, GoesOn, Guarding, Early
  <2> QED
    BY <2>1, <2>2 DEF Early
<1> QED
  BY <1>1, <1>2

LEMMA SeedKeepsEarly ==
    ASSUME RInv, \A q \in Rotates : Early(q), BySeed
    PROVE  \A q \in Rotates : Early(q)'
<1>0. UNCHANGED <<pc, tree, pending, scenario>> /\ SeedOK /\ RowsOK
  BY DEF BySeed, locals, RInv
<1>1. CASE UNCHANGED late
  BY <1>0, <1>1 DEF Early
<1>2. CASE SeedCommit
  <2>1. Committed /\ parent = scenario.tree
    BY <1>0, <1>2, SeedCommits DEF SeedOK, Committed
  <2>2. \A q \in Rotates : late'[q] \cap DOMAIN scenario.tree = {}
    BY <2>1 DEF Committed, Registered
  <2> QED
    BY <1>0, <2>2 DEF Early
<1> QED
  BY <1>0, <1>1, <1>2, SeedKeepsSeedOK DEF BySeed, SeedMoves

\* What a run does between its check and the end of its action.
LEMMA RunFacts ==
    ASSUME SeedOK, active = ActiveServices, ActsInv, NEW c \in Runs
    PROVE  /\ Acting(c) => Inserted(c) /\ ServiceOf[c] \in active
           /\ Inserted(c) => carried[c] # {}
           /\ carried[c] # {} => Checked(c) /\ ServiceOf[c] \in DOMAIN scenario.tree
<1>0. Acts(c) /\ Q!TInv /\ Q!RInv /\ ServiceOf[c] \in Services
  BY RotatedActionsAssumptions DEF ActsInv
<1>1. Acting(c) => Inserted(c)
  BY DEF Acting, A!Active, Inserted
<1>2. Inserted(c) => carried[c] # {}
  BY <1>0 DEF Acts
<1>3. carried[c] # {} =>
        /\ Checked(c) /\ c \in scenario.runs
        /\ actionCall[create(c)].serviceId = ServiceOf[c]
  BY <1>0 DEF Acts, Checked
<1>4. c \in scenario.runs => ServiceOf[c] \in DOMAIN scenario.tree
  BY RegistryRacesAssumptions DEF SeedOK
<1>5. Acting(c) => ServiceOf[c] \in active
  <2> SUFFICES ASSUME Acting(c) PROVE A!ActiveOf(ServiceOf[c]) # {}
    BY <1>0 DEF ActiveServices
  <2>1. actions[create(c)].serviceId = ServiceOf[c] /\ create(c) \in Actions
    BY <1>0, <1>1, <1>2, <1>3, RowsOfRuns
  <2>2. create(c) \in A!ActiveOf(ServiceOf[c])
    BY <2>1 DEF Acting, A!Active, A!ActiveOf, A!Rows, Actions
  <2> QED
    BY <2>2
<1> QED
  BY <1>1, <1>2, <1>3, <1>4, <1>5

\* A run is watched on unless it is found idle in this step.
LEMMA WatchedStays ==
    ASSUME LocalsOK, SentInv, NEW r \in Rotates, NEW c \in Runs, Watched(r, c),
           pc'[r] \in Guarding /\ ServiceOf[c] \in descendants'[r] \ pending'[r] =>
             /\ pc[r] \in Guarding /\ lockId'[r] = lockId[r]
             /\ ServiceOf[c] \in descendants[r] \ pending[r],
           missed \subseteq missed', LockyStep \/ locks' = locks,
           Inserted(c) /\ ~ Acting(c) => Inserted(c)' /\ ~ Acting(c)',
           Inserted(c)' => Inserted(c) \/ Checked(c),
           Checked(c)' => Checked(c) \/ Passes(c)
    PROVE  Watched(r, c)'
<1> SUFFICES ASSUME pc'[r] \in Guarding, ServiceOf[c] \in descendants'[r] \ pending'[r],
                    <<c, r>> \notin missed', ~ (Inserted(c)' /\ ~ Acting(c)'),
                    ~ (~ Inserted(c)' /\ ~ Checked(c)')
             PROVE  locks'[post(r, lockId'[r])] # NoLock /\ locks'[post(r, lockId'[r])].ttl = 0
  BY DEF Watched, Guarding, Expired, L!NonExpired
<1>1. PICK p \in Calls : Stands(r, p)
  BY LockStands
<1>2. \/ ~ Inserted(c) /\ ~ Checked(c)
      \/ Expired(p)
  BY <1>1 DEF Watched, Guarding, Stands
<1>3. Expired(p)
  BY <1>1, <1>2, ExpiryStays
<1>4. Expired(p)'
  BY <1>1, <1>3, ExpiryStays
<1> QED
  BY <1>1, <1>4 DEF Stands, Expired, L!NonExpired

LEMMA RotateKeepsWatched ==
    ASSUME RInv, SentInv, ActsInv, OpenInv, NEW r \in Rotates, ByRotate(r), Course(r), Checks(r),
           NEW q \in Rotates, NEW c \in Runs
    PROVE  Watched(q, c)'
<1>0. /\ LocalsOK /\ SeedOK /\ Watched(q, c) /\ missed \subseteq missed' /\ locks' = locks
      /\ Checked(c)' = Checked(c)
      /\ Inserted(c)' = Inserted(c) /\ Acting(c)' = Acting(c)
  <2>1. Readable /\ LocalsOK
    BY DEF RInv, RowsOK, TableOK, SeedOK, Forest, Registered, Readable
  <2>2. LocalsOK'
    BY <2>1, StepMoves DEF ByRotate, Moves
  <2>3. locks' = locks /\ SameCall(reserve(c)) /\ lockAnswer' = lockAnswer
    BY <2>1, <2>2, StepCalls, DistinctCalls, RotatedActionsAssumptions
       DEF ByRotate, SentInv, NewPost, NewDelete, Calls, Reservations
  <2> QED
    BY <2>3 DEF RInv, OpenInv, ByRotate, NoteMissed, actionyVars, Inserted, Acting, A!Active,
       SameCall, Checked, Admitted, L!Answered
<1>1. ASSUME pc'[q] \in Guarding /\ ServiceOf[c] \in descendants'[q] \ pending'[q] =>
               /\ pc[q] \in Guarding /\ lockId'[q] = lockId[q]
               /\ ServiceOf[c] \in descendants[q] \ pending[q]
      PROVE  Watched(q, c)'
  BY <1>0, <1>1, WatchedStays
<1>2. CASE q # r
  BY <1>1, <1>2 DEF Course, Checks
<1>3. CASE q = r /\ pc'[r] \in Guarding
  <2>0. descendants'[r] = descendants[r]
    BY <1>3 DEF Course, Waits, Locks, ReadsTree, ReadsCurrent, Writes, Guarding
  <2>1. CASE StartsChecks(r)
    BY <1>1, <1>3, <2>0, <2>1 DEF StartsChecks
  <2>2. CASE GoesOn(r)
    BY <1>1, <1>3, <2>0, <2>2 DEF GoesOn
  <2>3. ASSUME NEW s \in Services, FindsIdle(r, s), s # ServiceOf[c] PROVE Watched(q, c)'
    BY <1>1, <1>3, <2>0, <2>3 DEF FindsIdle, Guarding
  <2>4. ASSUME FindsIdle(r, ServiceOf[c]) PROVE Watched(q, c)'
    <3>1. ~ Acting(c)
      BY <1>0, <2>4, RunFacts DEF FindsIdle, SentInv
    <3>2. ServiceOf[c] \in FoundIdle(r)
      BY <2>4 DEF FindsIdle, FoundIdle, At, RInv, LocalsOK
    <3>3. Checked(c) /\ ~ Inserted(c) => <<c, r>> \in missed'
      BY <3>2 DEF ByRotate, NoteMissed
    <3> QED
      BY <1>0, <1>3, <3>1, <3>3 DEF Watched
  <2> QED
    BY <1>3, <2>1, <2>2, <2>3, <2>4 DEF Checks
<1>4. CASE q = r /\ pc'[r] \notin Guarding
  BY <1>4 DEF Watched, Guarding
<1> QED
  BY <1>2, <1>3, <1>4

\* The current rotation of a service changes with its rows.
LEMMA SameCurrent ==
    ASSUME NEW s, {x \in rotations' : x.serviceId = s} = {x \in rotations : x.serviceId = s}
    PROVE  CurrentOf(s)' = CurrentOf(s)
BY DEF CurrentOf, RotationsOf

LEMMA RotateKeepsKeeps ==
    ASSUME RInv, SentInv, ActsInv, OpenInv, NEW r \in Rotates, ByRotate(r), Course(r),
           NEW c \in Runs
    PROVE  Keeps(c)'
<1> DEFINE s == ServiceOf[c]
<1>0. /\ UNCHANGED <<carried, parent>> /\ Registered' = Registered
      /\ Inserted(c)' = Inserted(c) /\ Acting(c)' = Acting(c)
      /\ missed \subseteq missed' /\ outdated \subseteq outdated'
      /\ Keeps(c) /\ Watched(r, c) /\ Early(r) /\ Knows(r)
      /\ SeedOK /\ active = ActiveServices
  BY DEF RInv, SentInv, OpenInv, ByRotate, NoteMissed, actionyVars, Inserted, Acting, A!Active,
     Registered, Course, Waits, Locks, ReadsTree, ReadsCurrent, Writes, NoRotation, InsertRotations
<1>1. \A q \in Rotates : s \in tree[q] => s \in tree'[q]
  BY <1>0 DEF Course, Waits, Locks, ReadsTree, ReadsCurrent, Writes, Early
<1> SUFFICES ASSUME carried[c] # {}, Inserted(c) => Acting(c), s \in Registered
             PROVE  \/ carried[c] = {CurrentOf(s)'}
                    \/ \E q \in Rotates : s \in tree'[q] /\ SlippedPast(q, c)'
  BY <1>0 DEF Keeps
<1>2. \A q \in Rotates : SlippedPast(q, c) => SlippedPast(q, c)'
  BY <1>0 DEF SlippedPast
<1>3. CASE CurrentOf(s)' = CurrentOf(s)
  BY <1>0, <1>1, <1>2, <1>3 DEF Keeps
<1>4. CASE Writes(r) /\ s \in tree[r]
  <2>1. Checked(c) /\ s \in DOMAIN scenario.tree
    BY <1>0, RunFacts
  <2>2. s \in descendants[r] \ pending[r]
    BY <1>0, <1>4, <2>1 DEF Writes, Early, Knows
  <2>3. \/ <<c, r>> \in missed
        \/ Expired(post(r, lockId[r]))
    BY <1>0, <1>4, <2>1, <2>2 DEF Watched, Writes
  <2>4. SlippedPast(r, c)'
    BY <1>0, <1>4, <2>3 DEF SlippedPast, Writes, InsertRotations
  <2> QED
    BY <1>1, <1>4, <2>4
<1>5. CASE Writes(r) /\ s \notin tree[r]
  <2>1. /\ rotations' = rotations \cup NewRotations(r)
        /\ \A x \in NewRotations(r) : x.serviceId \in tree[r]
    <3>1. InsertRotations(r)
      BY <1>5 DEF Writes
    <3>2. \A x \in NewRotations(r) : \E y \in rotations : Follows(x, y, r)
      BY <3>1, NewRows
    <3> QED
      BY <3>1, <3>2 DEF InsertRotations, Follows
  <2>2. {x \in rotations' : x.serviceId = s} = {x \in rotations : x.serviceId = s}
    BY <1>5, <2>1
  <2> QED
    BY <1>3, <2>2, SameCurrent
<1>6. CASE ~ Writes(r)
  <2>1. rotations' = rotations
    BY <1>6 DEF Course, Waits, Locks, ReadsTree, ReadsCurrent, NoRotation
  <2> QED
    BY <1>3, <2>1, SameCurrent
<1> QED
  BY <1>4, <1>5, <1>6

\* Who writes no rotation keeps Keeps.
LEMMA SeedKeepsRotation ==
    ASSUME RInv, BySeed, NEW s \in DOMAIN scenario.tree, s \in Registered'
    PROVE  s \in Registered /\ CurrentOf(s)' = CurrentOf(s)
<1>0. SeedOK /\ RowsOK
  BY DEF RInv
<1>1. CASE UNCHANGED <<parent, rotations>>
  BY <1>1, SameCurrent DEF Registered
<1>2. CASE SeedCommit
  <2>1. Committed /\ s \in Registered
    BY <1>0, <1>2, SeedCommits DEF SeedOK, Committed, Registered
  <2>2. {x \in rotations' : x.serviceId = s} = {x \in rotations : x.serviceId = s}
    BY <2>1 DEF Committed
  <2> QED
    BY <2>1, <2>2, SameCurrent
<1> QED
  BY <1>0, <1>1, <1>2, SeedKeepsSeedOK DEF BySeed, SeedMoves

LEMMA OthersKeepKeeps ==
    ASSUME RInv, SentInv, ActsInv, OpenInv, NEW c \in Runs,
           ByLocky \/ (\E d \in Runs : ByReserve(d)) \/ ByActiony \/ BySeed
    PROVE  Keeps(c)'
<1> DEFINE s == ServiceOf[c]
<1>0. SeedOK /\ active = ActiveServices /\ Keeps(c)
  BY DEF RInv, SentInv, OpenInv
<1>1. UNCHANGED <<tree, outdated>> /\ missed \subseteq missed'
  BY DEF ByLocky, LockyStep, ByReserve, ByActiony, BySeed, locals
<1>2. \A q \in Rotates : SlippedPast(q, c) => SlippedPast(q, c)'
  BY <1>1 DEF SlippedPast
<1>3. CASE ~ ByActiony
  <2>1. /\ UNCHANGED <<carried, actionyVars, scenario>>
        /\ Inserted(c)' = Inserted(c) /\ Acting(c)' = Acting(c)
    BY <1>3 DEF ByLocky, ByReserve, BySeed, actionyVars, Inserted, Acting, A!Active
  <2>2. carried[c] # {} /\ s \in Registered' => s \in Registered /\ CurrentOf(s)' = CurrentOf(s)
    <3>1. carried[c] # {} => s \in DOMAIN scenario.tree
      BY <1>0, RunFacts
    <3>2. CASE UNCHANGED <<parent, rotations>>
      BY <3>2, SameCurrent DEF Registered
    <3> QED
      BY <1>3, <3>1, <3>2, SeedKeepsRotation DEF ByLocky, LockyStep, ByReserve
  <2> QED
    BY <1>0, <1>1, <1>2, <2>1, <2>2 DEF Keeps
<1>4. CASE ByActiony
  <2>1. ActionMoves(c) /\ UNCHANGED <<parent, rotations>>
    BY <1>0, <1>4, ActionySteps DEF ByActiony
  <2>2. Registered' = Registered /\ CurrentOf(s)' = CurrentOf(s)
    BY <2>1, SameCurrent DEF Registered
  <2> QED
    BY <1>0, <1>1, <1>2, <2>1, <2>2 DEF Keeps, ActionMoves
<1> QED
  BY <1>3, <1>4

LEMMA OthersKeepWatched ==
    ASSUME RInv, LocalsOK', SentInv, ActsInv, OpenInv,
           ByLocky \/ (\E d \in Runs : ByReserve(d)) \/ ByActiony \/ BySeed,
           NEW r \in Rotates, NEW c \in Runs
    PROVE  Watched(r, c)'
<1>0. LocalsOK /\ SeedOK /\ active = ActiveServices /\ Watched(r, c)
  BY DEF RInv, SentInv, OpenInv
<1>1. UNCHANGED <<pc, descendants, pending, lockId>> /\ missed \subseteq missed'
  BY DEF ByLocky, LockyStep, ByReserve, ByActiony, BySeed, locals
<1>2. LockyStep \/ locks' = locks
  BY ReserveMovesLocky DEF ByLocky, ByReserve, ByActiony, BySeed, lockyVars
<1>3. CASE ~ ByActiony
  <2>1. Inserted(c)' = Inserted(c) /\ Acting(c)' = Acting(c)
    BY <1>3 DEF ByLocky, ByReserve, BySeed, actionyVars, Inserted, Acting, A!Active
  <2>2. Checked(c)' => Checked(c) \/ Passes(c)
    BY <1>0, <1>3, AdmissionsStay
  <2> QED
    BY <1>0, <1>1, <1>2, <2>1, <2>2, WatchedStays
<1>4. CASE ByActiony
  <2>1. ActionMoves(c) /\ Checked(c)' = Checked(c)
    BY <1>0, <1>4, ActionySteps DEF ByActiony, lockyVars, Checked, Admitted, L!Answered
  <2>2. carried[c] # {} => Checked(c)
    BY <1>0, RunFacts
  <2> QED
    BY <1>0, <1>1, <1>2, <2>1, <2>2, WatchedStays DEF ActionMoves
<1> QED
  BY <1>3, <1>4

LEMMA OpenInvInductive ==
    /\ RacesInit => OpenInv
    /\ RInv /\ RInv' /\ SentInv /\ ActsInv /\ OpenInv /\ [RacesNext]_allVars => OpenInv'
<1>1. ASSUME RacesInit PROVE OpenInv
  <2>1. /\ \A r \in Rotates : pc[r] = "idle" /\ tree[r] = {} /\ pending[r] = {} /\ late[r] = {}
        /\ \A c \in Runs : carried[c] = {}
    BY <1>1 DEF RacesInit, Init, ReseedInit, ActionsInit
  <2> QED
    BY <2>1 DEF OpenInv, Early, Keeps, Watched
<1>2. ASSUME RInv, RInv', SentInv, ActsInv, OpenInv, [RacesNext]_allVars PROVE OpenInv'
  <2>1. LocalsOK /\ LocalsOK' /\ SeedOK /\ active = ActiveServices
    BY <1>2 DEF RInv, SentInv
  <2>2. ASSUME NEW r \in Rotates, ByRotate(r) PROVE OpenInv'
    <3>1. Course(r) /\ Checks(r)
      BY <2>1, <2>2, StepCourse, StepChecks DEF ByRotate
    <3>2. \A q \in Rotates : Early(q)'
      BY <1>2, <2>2, <3>1, RotateKeepsEarly DEF ByRotate, OpenInv
    <3>3. \A c \in Runs : Keeps(c)' /\ \A q \in Rotates : Watched(q, c)'
      BY <1>2, <2>2, <3>1, RotateKeepsKeeps, RotateKeepsWatched
    <3> QED
      BY <3>2, <3>3 DEF OpenInv
  <2>3. ASSUME ByLocky \/ (\E d \in Runs : ByReserve(d)) \/ ByActiony \/ BySeed PROVE OpenInv'
    <3>1. \A q \in Rotates : Early(q)'
      <4>1. CASE BySeed
        BY <1>2, <4>1, SeedKeepsEarly DEF OpenInv
      <4>2. CASE ~ BySeed
        BY <1>2, <2>3, <4>2 DEF ByLocky, LockyStep, ByReserve, ByActiony, locals, OpenInv, Early
      <4> QED
        BY <4>1, <4>2
    <3>2. \A c \in Runs : Keeps(c)' /\ \A q \in Rotates : Watched(q, c)'
      BY <1>2, <2>1, <2>3, OthersKeepKeeps, OthersKeepWatched
    <3> QED
      BY <3>1, <3>2 DEF OpenInv
  <2> QED
    BY <1>2, <2>1, <2>2, <2>3, StepKinds
<1> QED
  BY <1>1, <1>2

LEMMA OpenInvariant == RacesSpec => [](RInv /\ SentInv /\ ActsInv /\ OpenInv)
  BY TreeAndReads, SentInvInductive, ActsInvInductive, OpenInvInductive, PTL DEF RacesSpec

\* While the action of a run is open and its service registered, the rotation the
\* run fetched when it created the action is the current one, unless a rotate of
\* that service slipped past the run.
THEOREM OpenActionsKeepRotation == RacesSpec => []OpenActionKeepsRotation
<1>1. RInv /\ SentInv /\ ActsInv /\ OpenInv => OpenActionKeepsRotation
  <2> SUFFICES ASSUME RInv, SentInv, ActsInv, OpenInv, NEW c \in Runs,
                      Acting(c), ServiceOf[c] \in Registered, carried[c] # {CurrentOf(ServiceOf[c])}
               PROVE  \E r \in Rotates : ServiceOf[c] \in tree[r] /\ SlippedPast(r, c)
    BY DEF OpenActionKeepsRotation
  <2>1. carried[c] # {} /\ Keeps(c)
    BY RunFacts DEF RInv, SentInv, OpenInv
  <2> QED
    BY <2>1 DEF Keeps
<1> QED
  BY <1>1, OpenInvariant, PTL

\* Runs use actiony as Actiony says its clients do, rotates only ask it: every
\* behaviour of RegistryRaces is one of Actiony, and what is proved of Actiony
\* holds of the actions of runs.
THEOREM RunsUseActiony == RacesSpec => Q!Spec
<1>1. RacesInit => Q!Init
  BY SameActiony DEF RacesInit, ActionsInit
<1>2. RInv /\ SentInv /\ [RacesNext]_allVars => [Q!Next]_Q!vars
  <2> SUFFICES ASSUME RInv, SentInv, [RacesNext]_allVars PROVE [Q!Next]_Q!vars
    OBVIOUS
  <2>1. CASE ByActiony
    BY <2>1, ActionyMoves DEF RInv, ByActiony
  <2>2. CASE UNCHANGED actionyVars
    BY <2>2 DEF actionyVars, Q!vars, Q!locals
  <2> QED
    BY <2>1, <2>2, StepKinds DEF RInv, SentInv, ByRotate, ByLocky, ByReserve, BySeed
<1> QED
  BY <1>1, <1>2, OpenInvariant, PTL DEF RacesSpec, Q!Spec

-----------------------------------------------------------------------------
\* A replacement cancels an action of its own service, so that a step of actiony
\* changes whether one service is active.
ReplacesItsService ==
    \A q \in Actions :
        actionPc[q] = "commit" /\ target[q] # q =>
            actions[target[q]].serviceId = actionCall[q].serviceId

LEMMA ActionyStepShape ==
    ASSUME Q!TInv, Q!RInv, NEW q \in Actions, A!Step(q) \/ A!Crash(q)
    PROVE  /\ Q!Shape(q) /\ actionCall' = actionCall
           /\ \A d \in Actions \ {q} : actionPc'[d] = actionPc[d] /\ target'[d] = target[d]
           /\ \A a \in Q!Rows : a \in Q!Rows' /\ actions'[a].serviceId = actions[a].serviceId
<1>1. Q!Shape(q)
  BY SameActiony, Q!StepShape, ActionyAssumedOfQ DEF Actions
<1> QED
  BY <1>1, Q!StepFacts, ActionyAssumedOfQ DEF Actions

LEMMA ReplacesItsServiceKept ==
    ASSUME SeedOK, Q!TInv, Q!RInv, ReplacesItsService, ByActiony
    PROVE  ReplacesItsService'
<1>0. /\ actionPc = [q \in Actions |-> actionPc[q]] /\ target = [q \in Actions |-> target[q]]
      /\ actionCall = [q \in Actions |-> actionCall[q]]
      /\ scenario.runs \subseteq Runs
      /\ \A q \in Actions :
           /\ actionPc[q] \notin {"commit", "update", "done", "dropped"} => target[q] = q
           /\ actionPc[q] = "commit" /\ target[q] # q => target[q] \in Q!Rows
  BY Participants DEF Q!TInv, Q!TypeOK, Q!TargetsExist, Actions
<1>1. ASSUME NEW c \in scenario.runs, CreateAction(c) \/ UpdateAction(c)
      PROVE  ReplacesItsService'
  <2>1. PICK q \in Actions, p \in {"fetch", "find"} :
          /\ actionPc' = [actionPc EXCEPT ![q] = p]
          /\ \E m : actionCall' = [actionCall EXCEPT ![q] = m]
          /\ UNCHANGED <<target, actions>>
    <3>1. create(c) \in Actions /\ update(c) \in Actions
      BY <1>0 DEF Actions
    <3>2. CASE CreateAction(c)
      BY <3>1, <3>2 DEF CreateAction, A!PostAction, A!Receive, A!NoWrite
    <3>3. CASE UpdateAction(c)
      BY <3>1, <3>3 DEF UpdateAction, A!PatchAction, A!Receive, A!NoWrite
    <3> QED
      BY <1>1, <3>2, <3>3
  <2> QED
    BY <1>0, <2>1 DEF ReplacesItsService
<1>2. ASSUME NEW q \in Actions, A!Step(q) \/ A!Crash(q) PROVE ReplacesItsService'
  <2>1. /\ Q!Shape(q) /\ actionCall' = actionCall
        /\ \A d \in Actions \ {q} : actionPc'[d] = actionPc[d] /\ target'[d] = target[d]
        /\ \A a \in Q!Rows : actions'[a].serviceId = actions[a].serviceId
    BY <1>2, ActionyStepShape
  <2>2. ASSUME actionPc'[q] = "commit", target'[q] # q
        PROVE  actions'[target'[q]].serviceId = actionCall'[q].serviceId
    <3>1. Q!SelectedNone(q) \/ Q!SelectedLatest(q)
      BY <1>0, <2>1, <2>2 DEF Q!Shape, Q!Ends, Q!Fetched, Q!Counted, Q!ReplaceBegin, Q!Found,
         Q!ReadsRow, Q!ReadRow, Q!Goto, Q!PassCount
    <3>2. Q!SelectedLatest(q)
      BY <1>0, <2>2, <3>1 DEF Q!SelectedNone, Q!Goto
    <3> DEFINE running == Q!ActiveOf(actionCall[q].serviceId)
    <3>3. /\ target'[q] = Q!Latest(running) /\ actions' = actions
          /\ running \in SUBSET Q!Rows /\ running # {}
      BY <1>0, <3>2 DEF Q!SelectedLatest, Q!ReadsRow, Q!ReadRow, Q!NoWrite, Q!ActiveOf
    <3>4. Q!Latest(running) \in running
      <4>1. /\ actions \in [Actions -> Q!Action \cup {NoAction}] /\ clock \in Nat
            /\ \A a \in Q!Rows : actions[a].createdAt <= clock
        BY DEF Q!TInv, Q!TypeOK, Q!TimesPassed, Actions
      <4>2. running \in SUBSET Q!Rows /\ running # {}
        BY <3>3
      <4> HIDE DEF running
      <4> QED
        BY <4>1, <4>2, Q!LatestIsOne, ActionyAssumedOfQ DEF Actions
    <3> QED
      BY <2>1, <3>3, <3>4 DEF Q!ActiveOf
  <2> QED
    BY <1>0, <2>1, <2>2 DEF ReplacesItsService
<1> QED
  BY <1>1, <1>2 DEF ByActiony, ActionyStep, A!InFlight, Actions

LEMMA ReplacesItsServiceInductive ==
    /\ RacesInit => ReplacesItsService
    /\ RInv /\ SentInv /\ ActsInv /\ ReplacesItsService /\ [RacesNext]_allVars =>
         ReplacesItsService'
<1>1. RacesInit => ReplacesItsService
  BY DEF RacesInit, ActionsInit, A!Init, Actions, ReplacesItsService
<1>2. ASSUME RInv, SentInv, ActsInv, ReplacesItsService, [RacesNext]_allVars
      PROVE  ReplacesItsService'
  <2>1. CASE ByActiony
    BY <1>2, <2>1, ReplacesItsServiceKept DEF RInv, ActsInv
  <2>2. CASE UNCHANGED actionyVars
    BY <1>2, <2>2 DEF actionyVars, ReplacesItsService
  <2> QED
    BY <1>2, <2>1, <2>2, StepKinds DEF RInv, SentInv, ByRotate, ByLocky, ByReserve, BySeed
<1> QED
  BY <1>1, <1>2

\* What locky sees when actions of a service change.
LEMMA OneServiceChanges ==
    ASSUME NEW s \in Services,
           \A a \in Actions :
               \/ actions'[a] = actions[a]
               \/ /\ actions[a] # NoAction => actions[a].serviceId = s
                  /\ actions'[a] # NoAction => actions'[a].serviceId = s
    PROVE  ActiveServices' \in {ActiveServices \cup {s}, ActiveServices \ {s}}
<1>1. ASSUME NEW t \in Services, t # s PROVE A!ActiveOf(t)' = A!ActiveOf(t)
  BY <1>1 DEF A!ActiveOf, A!Rows, A!Active, Actions
<1>2. \A t \in Services \ {s} : t \in ActiveServices' <=> t \in ActiveServices
  BY <1>1 DEF ActiveServices
<1> QED
  BY <1>2 DEF ActiveServices

LEMMA ActivityMoves ==
    ASSUME SeedOK, Q!TInv, Q!RInv, ReplacesItsService, ByActiony
    PROVE  \/ ActiveServices' = ActiveServices
           \/ \E s \in Services : ActiveServices' \in {ActiveServices \cup {s}, ActiveServices \ {s}}
<1>0. /\ actions \in [Actions -> Q!Action \cup {NoAction}]
      /\ \A q \in Actions : actionPc[q] = "update" => target[q] \in Q!Rows
  BY DEF Q!TInv, Q!TypeOK, Q!TargetsExist, Actions
<1>1. CASE actions' = actions
  BY <1>1 DEF ActiveServices, A!ActiveOf, A!Rows, A!Active
<1>2. ASSUME NEW q \in Actions, A!Step(q) \/ A!Crash(q), actions' # actions
      PROVE  \E s \in Services : ActiveServices' \in {ActiveServices \cup {s}, ActiveServices \ {s}}
  <2>1. Q!Shape(q)
    BY <1>2, ActionyStepShape
  <2>2. Q!Inserts(q, clock) \/ Q!ReplacesRow(q) \/ Q!Overwrites(q)
    BY <1>2, <2>1 DEF Q!Shape, Q!Ends, Q!TableEffect, Q!Fetched, Q!Counted, Q!ReplaceBegin,
       Q!SelectedNone, Q!SelectedLatest, Q!Found, Q!ReadsRow, Q!ReadRow, Q!NoWrite
  <2>3. q \notin Q!Rows
    BY <2>1, Q!StepFacts, ActionyAssumedOfQ DEF Actions
  <2>4. ASSUME Q!Inserts(q, clock) \/ Q!ReplacesRow(q)
        PROVE  /\ actionCall[q].serviceId \in Services
               /\ \A a \in Actions :
                    \/ actions'[a] = actions[a]
                    \/ /\ actions[a] # NoAction => actions[a].serviceId = actionCall[q].serviceId
                       /\ actions'[a] # NoAction => actions'[a].serviceId = actionCall[q].serviceId
    <3>1. actionCall[q].serviceId \in Services
      BY <2>4 DEF Q!Inserts, Q!ReplacesRow, Q!CreateCall
    <3>2. actions[q] = NoAction
      BY <2>3 DEF Q!Rows, Actions
    <3>3. CASE Q!Inserts(q, clock) \/ (Q!ReplacesRow(q) /\ target[q] = q)
      BY <1>0, <3>1, <3>2, <3>3 DEF Q!Inserts, Q!ReplacesRow, Q!NewAction
    <3>4. CASE Q!ReplacesRow(q) /\ target[q] # q
      BY <1>0, <3>1, <3>2, <3>4 DEF Q!ReplacesRow, Q!NewAction, Q!Updated, ReplacesItsService
    <3> QED
      BY <2>4, <3>3, <3>4
  <2>5. ASSUME Q!Overwrites(q)
        PROVE  /\ actions[target[q]].serviceId \in Services
               /\ \A a \in Actions :
                    \/ actions'[a] = actions[a]
                    \/ /\ actions[a].serviceId = actions[target[q]].serviceId
                       /\ actions'[a].serviceId = actions[target[q]].serviceId
    <3>1. target[q] \in Actions /\ actions[target[q]] \in Q!Action
      BY <1>0, <2>5 DEF Q!Overwrites, Q!Rows, Actions
    <3> QED
      BY <1>0, <2>5, <3>1 DEF Q!Overwrites, Q!Updated, Q!Action
  <2> QED
    BY <2>2, <2>4, <2>5, OneServiceChanges
<1>3. CASE actions' # actions
  <2>1. ActionyStep
    BY <1>3 DEF ByActiony, CreateAction, UpdateAction, A!PostAction, A!PatchAction, A!Receive,
       A!NoWrite
  <2> QED
    BY <1>2, <1>3, <2>1 DEF ActionyStep, A!InFlight, Actions
<1> QED
  BY <1>1, <1>3

\* Rotates and runs use locky as Locky says its clients do, and see services become
\* active and idle one by one: every behaviour of RegistryRaces is one of Locky, and
\* what is proved of Locky holds of the table that rotates and runs share.
THEOREM RunsUseLocky == RacesSpec => P!Spec
<1>1. RacesInit => P!Init
  BY SameSteps DEF RacesInit, Init
<1>2. /\ RInv /\ RInv' /\ SentInv /\ ActsInv /\ ReplacesItsService /\ [RacesNext]_allVars =>
           [P!Next]_P!vars
  <2> SUFFICES ASSUME RInv, RInv', SentInv, ActsInv, ReplacesItsService, [RacesNext]_allVars
               PROVE  [P!Next]_P!vars
    OBVIOUS
  <2>0. LocalsOK /\ LocalsOK' /\ SeedOK /\ LInv /\ active = ActiveServices
    BY DEF RInv, SentInv
  <2>1. ASSUME NEW r \in Rotates, ByRotate(r) PROVE [P!Next]_P!vars
    BY <2>0, <2>1, RotateMovesLocky DEF ByRotate
  <2>2. CASE ByLocky
    BY <2>2, LockyStepMovesLocky DEF ByLocky
  <2>3. ASSUME NEW c \in Runs, ByReserve(c) PROVE [P!Next]_P!vars
    BY <2>3, ReserveMovesLocky DEF ByReserve
  <2>4. CASE ByActiony
    <3>1. /\ UNCHANGED lockyVars
          /\ \/ active' = active
             \/ \E s \in Services : active' \in {active \cup {s}, active \ {s}}
      BY <2>0, <2>4, ActivityMoves DEF ByActiony, ActsInv
    <3> QED
      BY <3>1 DEF P!Next, P!ActivityChanges, P!vars, P!locals, lockyVars
  <2>5. CASE BySeed
    BY <2>5 DEF BySeed, P!vars, P!locals, lockyVars
  <2> QED
    BY <2>0, <2>1, <2>2, <2>3, <2>4, <2>5, StepKinds
<1> QED
  BY <1>1, <1>2, OpenInvariant, ReplacesItsServiceInductive, PTL DEF RacesSpec, P!Spec

-----------------------------------------------------------------------------
\* Rotates that meet: past its reads a rotate keeps what it has read, and locky
\* what it saw of the locks of others.
Through == {"insert", "unlock", "rollback", "done", "dropped"}

Places ==
    overtaken \subseteq {x \in Rotates \X Rotates :
                           /\ pc[x[1]] \in Through /\ lockId[x[1]] # 0
                           /\ pc[x[2]] \in Through /\ lockId[x[2]] # 0}

OvertakenBy(q, r) == <<q, r>> \in overtaken /\ tree[q] \cap tree[r] # {}

\* A rotate passes by a service only if a seed has just added it.
Complete(r) ==
    pc[r] \in {"current", "insert"} =>
        \A s \in Registered \ tree[r] : parent[s] \in tree[r] => s \in behind

\* What a rotate has read of a service is current unless it was overtaken by another
\* rotate of that service.
Stale(s, r) == \E q \in Rotates : <<q, r>> \in overtaken /\ s \in tree[q] \cap tree[r]

Fresh(r) ==
    pc[r] = "insert" =>
        \A x \in current[r] :
            x.serviceId \in Registered =>
                x = CurrentOf(x.serviceId) \/ Stale(x.serviceId, r)

\* A rotate that was overtaken although the other one saw its lock has lost it.
Apart(q, r) ==
    pc[r] = "insert" /\ OvertakenBy(q, r) => Overlapped(q, r) \/ Expired(post(r, lockId[r]))

\* The rotations of a service are numbered one by one, up to the current one.
Numbered(s) ==
    /\ \A x \in RotationsOf(s) : x.serviceRotation <= CurrentOf(s).serviceRotation
    /\ \A x, y \in RotationsOf(s) : x.serviceRotation = y.serviceRotation => x = y

\* A service is in step with its parent and numbered, unless rotates that were not
\* kept apart were for it, or for its parent.
InStep(s) ==
    /\ parent[s] # NoParent =>
         WithParent(s) \/ s \in behind \/ Contended(s) \/ Contended(parent[s])
    /\ Numbered(s) \/ Contended(s)

StepInv ==
    /\ Places
    /\ \A r \in Rotates : Complete(r) /\ Fresh(r) /\ \A q \in Rotates : Apart(q, r)
    /\ \A s \in Registered : InStep(s)

-----------------------------------------------------------------------------
\* The kinds of steps, for the tree.
Rotating(r) ==
    /\ (\E s \in Services : RotateService(r, s)) \/ Step(r) \/ Crash(r)
    /\ UNCHANGED <<parent, behind>>

Committing == SeedCommit /\ UNCHANGED <<locals, lockyVars, outdated, scenario>>

Resting ==
    /\ UNCHANGED <<locals, parent, rotations, outdated, behind>>
    /\ LockyStep \/ UNCHANGED <<locks, lockBefore>>

LEMMA TreeKinds ==
    ASSUME RInv, [RacesNext]_allVars
    PROVE  /\ NoteOvertaken
           /\ (\E r \in Rotates : Rotating(r)) \/ Committing \/ Resting
<1>0. SeedOK /\ RowsOK
  BY DEF RInv
<1>1. ASSUME UNCHANGED <<locals, overtaken>> PROVE NoteOvertaken
  BY <1>1 DEF locals, NoteOvertaken, Inserts, At
<1>2. CASE UNCHANGED allVars
  BY <1>1, <1>2 DEF allVars, vars, locals, seedVars, lockyVars, Resting
<1>3. CASE RotateStep /\ UNCHANGED <<parent, seedVars>>
  BY <1>0, <1>3, Participants DEF RotateStep, LockyStep, seedVars, Rotating, Resting
<1>4. CASE ClientStep /\ UNCHANGED <<parent, seedVars>>
  <2>1. UNCHANGED <<locks, lockBefore>>
    <3>1. ASSUME NEW c \in scenario.runs, ReserveAccess(c) PROVE UNCHANGED <<locks, lockBefore>>
      BY <1>0, <3>1, Participants, ReserveMovesLocky DEF ReserveAccess
    <3> QED
      BY <1>4, <3>1 DEF ClientStep, CreateAction, UpdateAction, ActionyStep, lockyVars
  <2> QED
    BY <1>1, <1>4, <2>1 DEF ClientStep, seedVars, Resting
<1>5. CASE SeedMoves /\ UNCHANGED scenario
  <2>1. CASE SeedCommit
    BY <1>1, <1>5, <2>1 DEF SeedMoves, Committing
  <2>2. CASE ~ SeedCommit
    BY <1>0, <1>1, <1>5, <2>2, SeedKeepsSeedOK DEF SeedMoves, Resting, lockyVars
  <2> QED
    BY <2>1, <2>2
<1> QED
  BY <1>2, <1>3, <1>4, <1>5 DEF RacesNext

-----------------------------------------------------------------------------
\* A rotate forgets a lock only before it has one.
LEMMA LockIdKept ==
    ASSUME LocalsOK, NEW r \in Rotates, pc[r] # "lock",
           (\E s \in Services : RotateService(r, s)) \/ Step(r) \/ Crash(r)
    PROVE  lockId' = lockId
<1>1. CASE \E s \in Services : RotateService(r, s)
  BY <1>1 DEF RotateService
<1> QED
  BY <1>1 DEF Step, RotateFind, RotateDescendants, RotateLocked, RotateVerify, VerifyPasses, Throw,
     RotateVerified, RotateTree, RotateCurrent, RotateInsert, RotateUnlocked, SendAgain,
     CallRejects, ReadRejects, InsertRejects, Crash, Goto, Answer, At

Settled(r) == pc[r] \in Through /\ lockId[r] # 0

Same(r) ==
    /\ lockId'[r] = lockId[r] /\ tree'[r] = tree[r] /\ descendants'[r] = descendants[r]
    /\ lockBefore'[post(r, lockId[r])] = lockBefore[post(r, lockId[r])]

LEMMA StepsSettle ==
    ASSUME RInv, RInv', SentInv, [RacesNext]_allVars, NEW q \in Rotates, Settled(q)
    PROVE  Settled(q)' /\ Same(q)
<1>0. LocalsOK /\ LocalsOK' /\ LInv /\ Asked(q)
  BY DEF RInv, SentInv, LInv
<1>1. PICK p \in Calls : p = post(q, lockId[q])
  BY <1>0 DEF LocalsOK, Settled, Calls
<1>2. lockPc[p] = "done"
  BY <1>0, <1>1 DEF Settled, Asked, P!Granted, P!Answered
<1>3. CASE \E r \in Rotates : Rotating(r)
  <2>1. PICK r \in Rotates : Rotating(r)
    BY <1>3
  <2>2. Course(r) /\ Checks(r) /\ lockBefore' = lockBefore
    BY <1>0, <2>1, StepCourse, StepChecks, StepCalls DEF Rotating
  <2>3. lockId'[q] = lockId[q]
    <3>1. CASE q = r
      BY <1>0, <2>1, <3>1, LockIdKept DEF Rotating, Settled, Through
    <3>2. CASE q # r
      BY <2>2, <3>2 DEF Checks
    <3> QED
      BY <3>1, <3>2
  <2>4. pc'[q] \in Through /\ tree'[q] = tree[q] /\ descendants'[q] = descendants[q]
    <3>1. CASE q = r
      BY <2>2, <3>1 DEF Course, Waits, Locks, ReadsTree, ReadsCurrent, Writes, Settled, Through
    <3>2. CASE q # r
      BY <2>2, <3>2 DEF Course, Settled
    <3> QED
      BY <3>1, <3>2
  <2> QED
    BY <2>2, <2>3, <2>4 DEF Settled, Same
<1>4. CASE Committing \/ Resting
  <2>1. UNCHANGED <<pc, lockId, tree, descendants>>
    BY <1>4 DEF Committing, Resting, locals
  <2>2. lockBefore'[p] = lockBefore[p]
    <3>1. CASE LockyStep
      <4>1. CASE P!Tick
        BY <4>1 DEF P!Tick, P!locals
      <4>2. ASSUME NEW u \in Calls, P!Step(u) \/ P!Crash(u) PROVE lockBefore'[p] = lockBefore[p]
        BY <1>0, <1>2, <4>2, HandlerCalls
      <4> QED
        BY <3>1, <4>1, <4>2, SameSteps DEF LockyStep
    <3> QED
      BY <1>4, <3>1 DEF Committing, Resting, lockyVars
  <2> QED
    BY <1>1, <2>1, <2>2 DEF Settled, Same
<1> QED
  BY <1>3, <1>4, TreeKinds

\* Rotates that overlapped did so for ever.
LEMMA HistoryGrows ==
    ASSUME RInv, [RacesNext]_allVars
    PROVE  overtaken \subseteq overtaken' /\ outdated \subseteq outdated'
<1>1. LocalsOK
  BY DEF RInv
<1>2. ASSUME NEW r \in Rotates, Rotating(r) PROVE outdated \subseteq outdated'
  BY <1>1, <1>2, StepCourse
     DEF Rotating, Course, Waits, Locks, ReadsTree, ReadsCurrent, Writes, NoRotation,
         InsertRotations
<1> QED
  BY <1>2, TreeKinds DEF NoteOvertaken, Committing, Resting

LEMMA OverlapStays ==
    ASSUME RInv, RInv', SentInv, Places, [RacesNext]_allVars,
           NEW q \in Rotates, NEW r \in Rotates
    PROVE  /\ OvertakenBy(q, r) => OvertakenBy(q, r)'
           /\ Overlapped(q, r) => Overlapped(q, r)'
<1> SUFFICES ASSUME <<q, r>> \in overtaken
             PROVE  /\ OvertakenBy(q, r) => OvertakenBy(q, r)'
                    /\ Overlapped(q, r) => Overlapped(q, r)'
  BY DEF OvertakenBy, Overlapped
<1>1. Settled(q) /\ Settled(r)
  BY DEF Places, Settled
<1>2. Same(q) /\ Same(r)
  BY <1>1, StepsSettle
<1>3. overtaken \subseteq overtaken' /\ outdated \subseteq outdated'
  BY HistoryGrows
<1> QED
  BY <1>2, <1>3 DEF Same, OvertakenBy, Overlapped

LEMMA ContentionStays ==
    ASSUME RInv, RInv', SentInv, Places, [RacesNext]_allVars, NEW s
    PROVE  /\ Contended(s) => Contended(s)'
           /\ \A r \in Rotates : Stale(s, r) => Stale(s, r)'
<1>1. ASSUME NEW q \in Rotates, NEW r \in Rotates, <<q, r>> \in overtaken
      PROVE  tree'[q] = tree[q] /\ tree'[r] = tree[r] /\ <<q, r>> \in overtaken'
  BY <1>1, StepsSettle, HistoryGrows DEF Places, Settled, Same
<1>2. \A r \in Rotates : Stale(s, r) => Stale(s, r)'
  BY <1>1 DEF Stale
<1>3. ASSUME NEW q \in Rotates, NEW r \in Rotates, Overlapped(q, r), s \in tree[q] \cap tree[r]
      PROVE  Overlapped(q, r)' /\ s \in tree'[q] \cap tree'[r]
  BY <1>1, <1>3, OverlapStays DEF Overlapped
<1> QED
  BY <1>2, <1>3 DEF Contended

LEMMA PlacesKept ==
    ASSUME RInv, RInv', SentInv, Places, [RacesNext]_allVars
    PROVE  Places'
<1>1. \A x \in overtaken' : x \in Rotates \X Rotates /\ Settled(x[1]) /\ Settled(x[2])
  <2>1. \A r \in Rotates : pc[r] = "insert" => Settled(r)
    BY RegistryAssumptions DEF SentInv, LInv, Asked, Settled, Through, Attempts
  <2> QED
    BY <2>1, TreeKinds DEF NoteOvertaken, Inserts, At, Places, Settled
<1>2. \A x \in overtaken' : Settled(x[1])' /\ Settled(x[2])'
  BY <1>1, StepsSettle
<1> QED
  BY <1>1, <1>2 DEF Places, Settled

LEMMA CompleteKept ==
    ASSUME RInv, NEW q \in Rotates, Complete(q), [RacesNext]_allVars
    PROVE  Complete(q)'
<1>0. LocalsOK /\ SeedOK /\ RowsOK /\ Knows(q)
  BY DEF RInv
<1>1. ASSUME NEW r \in Rotates, Rotating(r) PROVE Complete(q)'
  <2>1. Course(r) /\ UNCHANGED <<parent, behind>> /\ Registered' = Registered
    BY <1>0, <1>1, StepCourse DEF Rotating, Registered
  <2>2. CASE /\ tree'[q] = tree[q]
             /\ pc'[q] \in {"current", "insert"} => pc[q] \in {"current", "insert"}
    BY <2>1, <2>2 DEF Complete
  <2>3. CASE q = r /\ ReadsTree(r)
    <3>1. Children(tree'[q]) \subseteq tree'[q]
      BY <2>3, DescendantsClosed DEF ReadsTree
    <3> QED
      BY <2>1, <3>1 DEF Complete, Children
  <2> QED
    BY <2>1, <2>2, <2>3 DEF Course, Waits, Locks, ReadsCurrent, Writes
<1>2. CASE Committing
  <2>1. UNCHANGED <<pc, tree>> /\ Committed /\ SeedCommit
    BY <1>0, <1>2, SeedCommits DEF Committing, locals
  <2>2. behind = {} /\ tree[q] \subseteq Registered
    BY <1>0, <2>1 DEF Committed, SeedOK, Knows
  <2> SUFFICES ASSUME pc[q] \in {"current", "insert"}, NEW s \in Registered' \ tree[q],
                      parent'[s] \in tree[q]
               PROVE  s \in behind'
    BY <2>1 DEF Complete
  <2>3. s \in Added
    BY <2>1, <2>2 DEF Committed, Complete
  <2>4. seedParent[s] \in Registered /\ seedParent[s] \in tree[q]
    BY <2>1, <2>2 DEF Committed
  <2> QED
    BY <2>1, <2>3, <2>4 DEF SeedCommit
<1>3. CASE Resting
  BY <1>3 DEF Resting, locals, Complete, Registered
<1> QED
  BY <1>1, <1>2, <1>3, TreeKinds

\* The rotations of a service change with an insertion only.
LEMMA OnlyWritten ==
    ASSUME RInv, NEW r \in Rotates, Rotating(r), Course(r), NEW s,
           Writes(r) => s \notin tree[r]
    PROVE  RotationsOf(s)' = RotationsOf(s) /\ CurrentOf(s)' = CurrentOf(s)
<1>1. CASE Writes(r)
  <2>1. /\ rotations' = rotations \cup NewRotations(r)
        /\ \A x \in NewRotations(r) : x.serviceId \in tree[r]
    BY <1>1, NewRows DEF Writes, InsertRotations, Follows
  <2>2. RotationsOf(s)' = RotationsOf(s)
    BY <1>1, <2>1 DEF RotationsOf
  <2> QED
    BY <2>2, SameCurrent DEF RotationsOf
<1>2. CASE ~ Writes(r)
  <2>1. rotations' = rotations
    BY <1>2 DEF Course, Waits, Locks, ReadsTree, ReadsCurrent, NoRotation
  <2> QED
    BY <2>1, SameCurrent DEF RotationsOf
<1> QED
  BY <1>1, <1>2

LEMMA CommitKeepsCurrent ==
    ASSUME Committed, NEW s \in Registered \cap Registered'
    PROVE  RotationsOf(s)' = RotationsOf(s) /\ CurrentOf(s)' = CurrentOf(s)
<1>1. {x \in rotations' : x.serviceId = s} = {x \in rotations : x.serviceId = s}
  BY DEF Committed
<1> QED
  BY <1>1, SameCurrent DEF RotationsOf

LEMMA FreshKept ==
    ASSUME RInv, RInv', SentInv, Places, NEW q \in Rotates, Fresh(q), [RacesNext]_allVars
    PROVE  Fresh(q)'
<1>0. LocalsOK /\ SeedOK /\ RowsOK /\ Knows(q) /\ Read(q)
  BY DEF RInv
<1>1. \A s : Stale(s, q) => Stale(s, q)'
  BY ContentionStays
<1>2. ASSUME pc[q] = "insert", current'[q] = current[q],
             \A x \in current[q] : x.serviceId \in Registered' =>
               \/ x.serviceId \in Registered /\ CurrentOf(x.serviceId)' = CurrentOf(x.serviceId)
               \/ Stale(x.serviceId, q)'
      PROVE  Fresh(q)'
  <2> SUFFICES ASSUME NEW x \in current[q], x.serviceId \in Registered',
                      ~ Stale(x.serviceId, q)'
               PROVE  x = CurrentOf(x.serviceId)'
    BY <1>2 DEF Fresh
  <2> QED
    BY <1>1, <1>2 DEF Fresh
<1>3. ASSUME NEW r \in Rotates, Rotating(r) PROVE Fresh(q)'
  <2>1. Course(r) /\ Registered' = Registered
    BY <1>0, <1>3, StepCourse DEF Rotating, Registered
  <2>2. CASE q = r /\ ReadsCurrent(r)
    <3>1. rotations' = rotations /\ current'[q] = Reads(q)
      BY <2>2 DEF ReadsCurrent, NoRotation
    <3>2. ASSUME NEW x \in Reads(q) PROVE x = CurrentOf(x.serviceId)'
      <4>1. PICK s : x = CurrentOf(s) /\ RotationsOf(s) # {}
        BY DEF Reads
      <4>2. x.serviceId = s
        BY <1>0, <4>1, CurrentIsOne DEF RowsOK, TableOK, RotationsOf
      <4>3. CurrentOf(s)' = CurrentOf(s)
        BY <3>1, SameCurrent
      <4> QED
        BY <4>1, <4>2, <4>3
    <3> QED
      BY <3>1, <3>2 DEF Fresh
  <2>3. CASE q = r /\ ~ ReadsCurrent(r)
    <3>1. pc'[q] = "insert" => pc[q] = "insert" /\ current'[q] = current[q] /\ ~ Writes(r)
      BY <2>1, <2>3 DEF Course, Waits, Locks, ReadsTree, Writes
    <3>2. pc'[q] = "insert" => \A s : CurrentOf(s)' = CurrentOf(s)
      BY <1>3, <2>1, <3>1, OnlyWritten
    <3> QED
      BY <1>2, <2>1, <3>1, <3>2 DEF Fresh
  <2>4. CASE q # r
    <3>1. pc'[q] = pc[q] /\ current'[q] = current[q]
      BY <2>1, <2>4 DEF Course
    <3>2. ASSUME pc[q] = "insert", NEW x \in current[q], Writes(r), x.serviceId \in tree[r]
          PROVE  Stale(x.serviceId, q)'
      <4>1. Inserts(r) /\ At(q, "insert")
        BY <3>2 DEF Inserts, At, Writes, InsertRotations
      <4>2. <<r, q>> \in overtaken'
        BY <2>4, <4>1, TreeKinds DEF NoteOvertaken
      <4>3. x.serviceId \in tree'[r] \cap tree'[q]
        BY <1>0, <2>1, <2>4, <3>2 DEF Read, Writes, Course
      <4> QED
        BY <4>2, <4>3 DEF Stale
    <3> QED
      BY <1>2, <1>3, <2>1, <3>1, <3>2, OnlyWritten DEF Fresh
  <2> QED
    BY <2>2, <2>3, <2>4
<1>4. CASE Committing
  <2>1. UNCHANGED <<pc, current>> /\ Committed
    BY <1>0, <1>4, SeedCommits DEF Committing, locals
  <2>2. \A x \in current[q] : x.serviceId \in Registered
    BY <1>0, <2>1 DEF Read, Knows, Committed
  <2> QED
    BY <1>2, <2>1, <2>2, CommitKeepsCurrent DEF Fresh
<1>5. CASE Resting
  <2>1. UNCHANGED <<pc, current, rotations>> /\ Registered' = Registered
    BY <1>5 DEF Resting, locals, Registered
  <2> QED
    BY <1>2, <2>1, SameCurrent DEF Fresh
<1> QED
  BY <1>3, <1>4, <1>5, TreeKinds

\* Of two rotates that are about to insert, whose descendants overlap, one has lost
\* its lock if one saw the row of the other.
LEMMA SeenHasExpired ==
    ASSUME LocalsOK, SentInv, NEW q \in Rotates, NEW r \in Rotates,
           pc[q] = "insert", pc[r] = "insert", descendants[q] \cap descendants[r] # {},
           post(q, lockId[q]) \in lockBefore[post(r, lockId[r])]
    PROVE  Expired(post(q, lockId[q]))
<1>0. P!NoOverlookedLock /\ Asked(r) /\ Sent(r) /\ lockId[r] \in Attempts
  BY DEF SentInv, LInv, P!IInv, Asked
<1>1. PICK p \in Calls : Stands(q, p)
  BY LockStands DEF Guarding
<1>2. PICK u \in Calls : Stands(r, u)
  BY LockStands DEF Guarding
<1>3. lockCall[u].services = descendants[r]
  BY <1>0, <1>2 DEF Stands, Sent
<1>4. ~ P!NonExpired(p)
  BY <1>0, <1>1, <1>2, <1>3 DEF P!NoOverlookedLock, Stands, Calls
<1> QED
  BY <1>1, <1>4 DEF Stands, Expired, P!NonExpired, L!NonExpired

LEMMA ApartKept ==
    ASSUME RInv, RInv', SentInv, Places, NEW q \in Rotates, NEW r \in Rotates, Apart(q, r),
           [RacesNext]_allVars
    PROVE  Apart(q, r)'
<1>0. LocalsOK /\ LocalsOK' /\ LInv
  BY DEF RInv, SentInv
<1> SUFFICES ASSUME pc'[r] = "insert", OvertakenBy(q, r)', ~ Overlapped(q, r)'
             PROVE  locks'[post(r, lockId'[r])] # NoLock /\ locks'[post(r, lockId'[r])].ttl = 0
  BY DEF Apart, Expired, L!NonExpired
<1>1. CASE <<q, r>> \in overtaken
  <2>1. Settled(q) /\ Settled(r) /\ Same(q) /\ Same(r)
    BY <1>1, StepsSettle DEF Places, Settled
  <2>2. OvertakenBy(q, r) /\ ~ Overlapped(q, r)
    BY <1>1, <2>1, OverlapStays DEF OvertakenBy, Same
  <2>3. pc[r] = "insert" /\ (LockyStep \/ locks' = locks)
    <3>1. ASSUME NEW a \in Rotates, Rotating(a) PROVE pc[r] = "insert" /\ locks' = locks
      <4>1. Course(a) /\ locks' = locks
        BY <1>0, <3>1, StepCourse, StepCalls DEF Rotating
      <4> QED
        BY <2>1, <4>1 DEF Course, Waits, Locks, ReadsTree, ReadsCurrent, Writes, Settled, Through
    <3> QED
      BY <3>1, TreeKinds DEF Committing, Resting, locals, lockyVars
  <2>4. PICK p \in Calls : Stands(r, p)
    BY <1>0, <2>3, LockStands DEF Guarding
  <2>5. Expired(p)
    BY <2>2, <2>3, <2>4 DEF Apart, Stands
  <2>6. Expired(p)'
    BY <2>3, <2>4, <2>5, ExpiryStays
  <2> QED
    BY <2>1, <2>4, <2>6 DEF Stands, Same, Expired, L!NonExpired
<1>2. CASE <<q, r>> \notin overtaken
  <2>1. q # r /\ Inserts(q) /\ pc[r] = "insert" /\ pc[q] = "insert" /\ pc'[q] # "insert"
        /\ rotations' # rotations
    BY <1>2, TreeKinds DEF OvertakenBy, NoteOvertaken, Inserts, At
  <2>2. PICK a \in Rotates : Rotating(a)
    BY <2>1, TreeKinds DEF Committing, Resting, locals
  <2>3. Course(a) /\ Checks(a) /\ locks' = locks /\ lockBefore' = lockBefore
    BY <1>0, <2>2, StepCourse, StepChecks, StepCalls DEF Rotating
  <2>4. a = q /\ Writes(q)
    BY <2>1, <2>3 DEF Course, Waits, Locks, ReadsTree, ReadsCurrent, Writes, NoRotation
  <2>5. /\ tree'[q] = tree[q] /\ tree'[r] = tree[r] /\ lockId' = lockId
        /\ descendants'[q] = descendants[q] /\ descendants'[r] = descendants[r]
    BY <1>0, <2>1, <2>2, <2>3, <2>4, LockIdKept DEF Course, Writes, Rotating
  <2>6. ~ Expired(post(q, lockId[q]))
    BY <2>3, <2>4, <2>5 DEF OvertakenBy, Overlapped, Writes, InsertRotations
  <2>7. post(q, lockId[q]) \notin lockBefore[post(r, lockId[r])]
    <3>1. descendants[q] \cap descendants[r] # {}
      BY <2>5 DEF OvertakenBy, Overlapped
    <3> QED
      BY <1>0, <2>1, <2>6, <3>1, SeenHasExpired
  <2>8. /\ descendants[q] \cap descendants[r] # {}
        /\ post(r, lockId[r]) \in lockBefore[post(q, lockId[q])]
    BY <2>3, <2>5, <2>7 DEF OvertakenBy, Overlapped
  <2>9. Expired(post(r, lockId[r]))
    BY <1>0, <2>1, <2>8, SeenHasExpired
  <2> QED
    BY <2>3, <2>5, <2>9 DEF Expired, L!NonExpired
<1> QED
  BY <1>1, <1>2

-----------------------------------------------------------------------------
\* The row that sorts before all others of a service is its current rotation.
LEMMA FirstIsCurrent ==
    ASSUME NEW rows, NEW s, \A y \in rows : y \in Rotation /\ y.serviceId = s,
           NEW x \in rows, \A y \in rows : Sorted(x, y)
    PROVE  (CHOOSE z \in rows : \A y \in rows : Sorted(z, y)) = x
<1> DEFINE First(z) == \A y \in rows : Sorted(z, y)
           first == CHOOSE z \in rows : First(z)
<1>1. first \in rows /\ First(first)
  <2>1. x \in rows /\ First(x)
    OBVIOUS
  <2> HIDE DEF First
  <2> QED
    BY <2>1
<1>2. Sorted(first, x) /\ Sorted(x, first)
  BY <1>1
<1>3. first.parentRotation \in Int /\ x.parentRotation \in Int
      /\ first.serviceRotation \in Int /\ x.serviceRotation \in Int
  BY <1>1 DEF Rotation, Null
<1>4. /\ first.parentRotation = x.parentRotation /\ first.serviceRotation = x.serviceRotation
      /\ first.serviceId = x.serviceId
  <2> HIDE DEF first
  <2> QED
    BY <1>1, <1>2, <1>3 DEF Sorted
<1>5. first = x
  <2>1. first \in Rotation /\ x \in Rotation
    BY <1>1
  <2> HIDE DEF first
  <2> QED
    BY <1>4, <2>1 DEF Rotation
<1> QED
  BY <1>5

\* What a rotate with current reads makes of the rotations of a service.
LEMMA NewCurrent ==
    ASSUME RInv, NEW r \in Rotates, Writes(r), NEW t \in tree[r] \cap Registered,
           \A y \in current[r] : y.serviceId = t => y = CurrentOf(t)
    PROVE  /\ CurrentOf(t)'.serviceRotation = CurrentOf(t).serviceRotation + 1
           /\ CurrentOf(t)'.parentRotation =
                IF t = service[r] THEN CurrentOf(t).parentRotation
                ELSE CurrentOf(t).parentRotation + 1
           /\ CurrentOf(t) \in Rotation
           /\ \A x \in RotationsOf(t)' : x \in RotationsOf(t) \/ x = CurrentOf(t)'
<1>0. /\ InsertRotations(r) /\ pc[r] = "insert" /\ Read(r)
      /\ rotations \subseteq Rotation /\ Bounded /\ RotationsOf(t) # {}
  BY DEF RInv, RowsOK, TableOK, Writes
<1>1. PICK y \in current[r] : y.serviceId = t
  BY <1>0 DEF Read
<1>2. /\ y = CurrentOf(t) /\ y \in RotationsOf(t) /\ y \in Rotation
      /\ \A w \in RotationsOf(t) : Sorted(y, w)
  BY <1>0, <1>1, CurrentIsOne DEF RotationsOf
<1>3. PICK x \in NewRotations(r) : Follows(x, y, r)
  BY <1>0, NewRows
<1>4. \A z \in NewRotations(r) : z.serviceId = t => z = x
  <2> SUFFICES ASSUME NEW z \in NewRotations(r), z.serviceId = t PROVE z = x
    OBVIOUS
  <2>1. PICK w \in rotations : Follows(z, w, r)
    BY <1>0, NewRows
  <2>2. w = y
    BY <1>2, <2>1 DEF Follows
  <2>3. /\ z.serviceId = x.serviceId /\ z.parentRotation = x.parentRotation
        /\ z.serviceRotation = x.serviceRotation /\ z \in Rotation /\ x \in Rotation
    BY <1>3, <2>1, <2>2 DEF Follows
  <2> QED
    BY <2>3 DEF Rotation
<1>5. /\ x.serviceId = t /\ x.serviceRotation = y.serviceRotation + 1 /\ x \in Rotation
      /\ x.parentRotation = IF t = service[r] THEN y.parentRotation ELSE y.parentRotation + 1
  BY <1>1, <1>3 DEF Follows
<1>6. RotationsOf(t)' = RotationsOf(t) \cup {x}
  BY <1>0, <1>4, <1>5 DEF InsertRotations, RotationsOf
<1>7. \A w \in RotationsOf(t) \cup {x} : w \in Rotation /\ w.serviceId = t /\ Sorted(x, w)
  <2>1. \A w \in Rotation : w.parentRotation \in Int /\ w.serviceRotation \in Int
    BY DEF Rotation, Null
  <2>2. \A w \in RotationsOf(t) : w \in Rotation /\ w.serviceId = t /\ Sorted(y, w)
    BY <1>0, <1>2 DEF RotationsOf
  <2> QED
    BY <1>2, <1>5, <2>1, <2>2 DEF Sorted
<1>8. CurrentOf(t)' = x
  <2>1. CurrentOf(t)' = CHOOSE z \in RotationsOf(t)' : \A w \in RotationsOf(t)' : Sorted(z, w)
    BY DEF CurrentOf, Sorted
  <2>2. PICK rows : rows = RotationsOf(t) \cup {x}
    OBVIOUS
  <2>3. (CHOOSE z \in rows : \A w \in rows : Sorted(z, w)) = x
    BY <1>7, <2>2, FirstIsCurrent
  <2> QED
    BY <1>6, <2>1, <2>2, <2>3
<1> QED
  BY <1>2, <1>5, <1>6, <1>8

\* The parent of the service a rotate is for is not of the tree.
LEMMA RootAbove ==
    ASSUME RInv, NEW r \in Rotates, service[r] \in tree[r] \cap Registered
    PROVE  parent[service[r]] \notin tree[r]
<1> DEFINE D == tree[r] \cap Registered
<1>0. /\ Forest(parent) /\ Knows(r) /\ tree[r] \subseteq Services /\ NoParent \notin Services
  BY RegistryAssumptions DEF RInv, SeedOK, LocalsOK
<1>1. PICK s \in D : parent[s] \notin D
  BY <1>0 DEF Forest, Registered
<1>2. parent[s] \notin tree[r]
  BY <1>0, <1>1 DEF Forest, Registered
<1> QED
  BY <1>0, <1>2 DEF Knows

\* A rotate that inserts for a service although its read of it was overtaken was not
\* kept apart from the one that overtook it.
LEMMA StaleContends ==
    ASSUME RInv, RInv', SentInv, StepInv, [RacesNext]_allVars,
           NEW r \in Rotates, Writes(r), NEW s, Stale(s, r)
    PROVE  Contended(s)'
<1>1. PICK q \in Rotates : <<q, r>> \in overtaken /\ s \in tree[q] \cap tree[r]
  BY DEF Stale
<1>2. OvertakenBy(q, r) /\ Places /\ Apart(q, r) /\ pc[r] = "insert"
  BY <1>1 DEF OvertakenBy, StepInv, Writes
<1>3. Same(q) /\ Same(r)
  BY <1>1, <1>2, StepsSettle DEF Places, Settled
<1>4. CASE Overlapped(q, r)
  BY <1>1, <1>2, <1>3, <1>4, OverlapStays DEF Contended, Same
<1>5. CASE Expired(post(r, lockId[r]))
  <2>1. r \in outdated'
    BY <1>5 DEF Writes, InsertRotations
  <2>2. OvertakenBy(q, r)'
    BY <1>2, OverlapStays
  <2>3. Overlapped(q, r)'
    BY <2>1, <2>2 DEF OvertakenBy, Overlapped
  <2> QED
    BY <1>1, <1>3, <2>3 DEF Contended, Same
<1> QED
  BY <1>2, <1>4, <1>5 DEF Apart

\* An insertion moves a service and its parent together, and nothing but a service
\* that a seed has just added stays below it.
LEMMA WritesInStep ==
    ASSUME RInv, RInv', SentInv, StepInv, [RacesNext]_allVars,
           NEW r \in Rotates, Writes(r), Rotating(r), Course(r)
    PROVE  \A s \in Registered' : InStep(s)'
<1>0. /\ UNCHANGED <<parent, behind>> /\ Registered' = Registered
      /\ Forest(parent) /\ Knows(r) /\ pc[r] = "insert" /\ Places
      /\ Complete(r) /\ Fresh(r) /\ \A s \in Registered : InStep(s)
      /\ tree[r] \subseteq Services /\ NoParent \notin Services
  <2>1. UNCHANGED <<parent, behind>> /\ Registered' = Registered
    BY DEF Rotating, Registered
  <2>2. Forest(parent) /\ Knows(r) /\ tree[r] \subseteq Services /\ NoParent \notin Services
    <3>1. Forest(parent) /\ Knows(r)
      BY DEF RInv, SeedOK
    <3>2. tree[r] \subseteq Services
      BY DEF RInv, LocalsOK
    <3> QED
      BY <3>1, <3>2, RegistryAssumptions
  <2>3. pc[r] = "insert"
    BY DEF Writes
  <2>4. Places /\ Complete(r) /\ Fresh(r) /\ \A s \in Registered : InStep(s)
    BY DEF StepInv
  <2> QED
    BY <2>1, <2>2, <2>3, <2>4
<1>1. ASSUME NEW t \in tree[r] \cap Registered, ~ Contended(t)'
      PROVE  /\ CurrentOf(t)'.serviceRotation = CurrentOf(t).serviceRotation + 1
             /\ CurrentOf(t)'.parentRotation =
                  IF t = service[r] THEN CurrentOf(t).parentRotation
                  ELSE CurrentOf(t).parentRotation + 1
             /\ CurrentOf(t).serviceRotation \in Nat
             /\ \A x \in RotationsOf(t)' : x \in RotationsOf(t) \/ x = CurrentOf(t)'
  <2>1. \A y \in current[r] : y.serviceId = t => y = CurrentOf(t)
    BY <1>0, <1>1, StaleContends DEF Fresh
  <2> QED
    BY <2>1, NewCurrent DEF Rotation
<1>2. ASSUME NEW t, t \notin tree[r]
      PROVE  RotationsOf(t)' = RotationsOf(t) /\ CurrentOf(t)' = CurrentOf(t)
  BY <1>2, OnlyWritten
<1> SUFFICES ASSUME NEW s \in Registered PROVE InStep(s)'
  BY <1>0
<1>3. ASSUME ~ Contended(s)' PROVE Numbered(s)'
  <2>0. Numbered(s)
    BY <1>0, <1>3, ContentionStays DEF InStep
  <2>1. CASE s \in tree[r]
    <3>1. \A x \in RotationsOf(s) : x.serviceRotation <= CurrentOf(s).serviceRotation
                                    /\ x.serviceRotation \in Nat
      BY <2>0 DEF Numbered, RInv, RowsOK, TableOK, RotationsOf, Rotation
    <3>2. \A x \in RotationsOf(s)' : x = CurrentOf(s)' \/
             (x \in RotationsOf(s) /\ x.serviceRotation < CurrentOf(s)'.serviceRotation)
      BY <1>1, <1>3, <2>1, <3>1
    <3>3. CurrentOf(s)'.serviceRotation \in Nat
      BY <1>1, <1>3, <2>1
    <3> QED
      BY <2>0, <3>1, <3>2, <3>3 DEF Numbered
  <2>2. CASE s \notin tree[r]
    BY <1>2, <2>0, <2>2 DEF Numbered
  <2> QED
    BY <2>1, <2>2
<1>4. ASSUME NEW p, p = parent[s], p # NoParent, s \notin behind, ~ Contended(s)', ~ Contended(p)'
      PROVE  CurrentOf(s)'.parentRotation = CurrentOf(p)'.serviceRotation
  <2>1. p \in Registered /\ CurrentOf(s).parentRotation = CurrentOf(p).serviceRotation
    <3>1. ~ Contended(s) /\ ~ Contended(p)
      BY <1>0, <1>4, ContentionStays
    <3> QED
      BY <1>0, <1>4, <3>1 DEF Forest, Registered, InStep, WithParent
  <2>2. CASE s \in tree[r] /\ s # service[r]
    <3>1. p \in tree[r]
      BY <1>0, <1>4, <2>2 DEF Knows
    <3> QED
      BY <1>1, <1>4, <2>1, <2>2, <3>1
  <2>3. CASE s \in tree[r] /\ s = service[r]
    <3>1. p \notin tree[r]
      BY <1>4, <2>3, RootAbove
    <3> QED
      BY <1>1, <1>2, <1>4, <2>1, <2>3, <3>1
  <2>4. CASE s \notin tree[r]
    <3>1. p \notin tree[r]
      BY <1>0, <1>4, <2>4 DEF Complete
    <3> QED
      BY <1>2, <1>4, <2>1, <2>4, <3>1
  <2> QED
    BY <2>2, <2>3, <2>4
<1> QED
  BY <1>0, <1>3, <1>4 DEF InStep, WithParent

\* A service that a seed added starts in step, unless its parent was rotated since
\* the seed read its rotation.
LEMMA AddedInStep ==
    ASSUME RInv, RInv', SentInv, Places, [RacesNext]_allVars,
           SeedCommit, Committed, Writing, \A s \in Registered : InStep(s), NEW s \in Added
    PROVE  InStep(s)'
<1>0. /\ RowsOK /\ Registered \subseteq Services /\ parent' = seedParent
      /\ \A p \in Registered' : parent'[p] \in Registered' \cup {NoParent}
  BY DEF RInv, SeedOK, Forest, Registered, Committed
<1>1. ASSUME NEW t \in Added
      PROVE  \E x \in seedRows :
               /\ x.serviceId = t /\ x.serviceRotation = 1
               /\ RotationsOf(t)' = {x} /\ CurrentOf(t)' = x
  <2>1. PICK x \in seedRows : x.serviceId = t /\ x.serviceRotation = 1
    BY DEF Writing
  <2>2. RotationsOf(t)' = {x}
    <3>1. \A y \in rotations' : y.serviceId = t => y = x
      BY <2>1 DEF Committed, Writing
    <3>2. x \in rotations'
      BY DEF Committed
    <3> QED
      BY <2>1, <3>1, <3>2 DEF RotationsOf
  <2>3. Sorted(x, x)
    <3>1. x.parentRotation \in Int /\ x.serviceRotation \in Int
      BY DEF Writing, Rotation, Null
    <3> QED
      BY <3>1 DEF Sorted
  <2>4. CurrentOf(t)' = x
    <3>1. CurrentOf(t)' = CHOOSE z \in RotationsOf(t)' : \A w \in RotationsOf(t)' : Sorted(z, w)
      BY DEF CurrentOf, Sorted
    <3>2. PICK rows : rows = {x}
      OBVIOUS
    <3>3. (CHOOSE z \in rows : \A w \in rows : Sorted(z, w)) = x
      BY <2>1, <2>3, <3>2, FirstIsCurrent DEF Writing
    <3> QED
      BY <2>2, <3>1, <3>2, <3>3
  <2> QED
    BY <2>1, <2>2, <2>4
<1>2. PICK x \in seedRows : /\ x.serviceId = s /\ x.serviceRotation = 1
                            /\ RotationsOf(s)' = {x} /\ CurrentOf(s)' = x
  BY <1>1
<1>3. Numbered(s)'
  BY <1>2 DEF Numbered
<1>4. ASSUME NEW p, p = seedParent[s], p # NoParent, s \notin behind', ~ Contended(p)'
      PROVE  x.parentRotation = CurrentOf(p)'.serviceRotation
  <2>0. p \in Registered'
    BY <1>0, <1>4 DEF Committed
  <2>1. CASE p \in Added
    BY <1>1, <1>2, <1>4, <2>1 DEF Writing
  <2>2. CASE p \notin Added
    <3>1. p \in Registered \cap Registered' /\ p \in SeedRegistered
      BY <2>0, <2>2 DEF Committed
    <3>2. ParentRotation(p) = x.parentRotation
      <4>1. ParentRotation(p) = (CHOOSE y \in seedRows : y.serviceId = s).parentRotation
        BY <1>4, <3>1 DEF SeedCommit
      <4>2. (CHOOSE y \in seedRows : y.serviceId = s) = x
        BY <1>2 DEF Writing
      <4> QED
        BY <4>1, <4>2
    <3>3. PICK y \in rotations \cup seedRows :
            /\ y.serviceId = p /\ ParentRotation(p) = y.serviceRotation
            /\ \A z \in rotations \cup seedRows :
                 z.serviceId = p => y.serviceRotation >= z.serviceRotation
      BY <1>0, <3>1, ParentHasRotation
    <3>4. y \in RotationsOf(p)
      BY <2>2, <3>3 DEF Committed, RotationsOf
    <3>5. /\ CurrentOf(p) \in RotationsOf(p)
          /\ y.serviceRotation <= CurrentOf(p).serviceRotation
          /\ CurrentOf(p)' = CurrentOf(p)
      BY <1>0, <1>4, <3>1, <3>4, CurrentIsOne, CommitKeepsCurrent, ContentionStays
         DEF InStep, Numbered, RowsOK, TableOK
    <3>6. y.serviceRotation >= CurrentOf(p).serviceRotation
      BY <3>3, <3>5 DEF RotationsOf
    <3>7. y.serviceRotation \in Int /\ CurrentOf(p).serviceRotation \in Int
      BY <1>0, <3>4, <3>5 DEF RowsOK, TableOK, RotationsOf, Rotation
    <3> QED
      BY <3>2, <3>3, <3>5, <3>6, <3>7
  <2> QED
    BY <2>1, <2>2
<1> QED
  BY <1>0, <1>2, <1>3, <1>4 DEF InStep, WithParent

LEMMA CommitInStep ==
    ASSUME RInv, RInv', SentInv, Places, [RacesNext]_allVars,
           SeedCommit, \A s \in Registered : InStep(s)
    PROVE  \A s \in Registered' : InStep(s)'
<1>0. /\ SeedOK /\ RowsOK /\ Committed /\ Writing /\ behind = {}
      /\ NoParent \notin Services
  BY SeedCommits, RegistryAssumptions DEF RInv, SeedOK, Committed
<1> SUFFICES ASSUME NEW s \in Registered', s \in Registered PROVE InStep(s)'
  BY <1>0, AddedInStep DEF Committed
<1>1. RotationsOf(s)' = RotationsOf(s) /\ CurrentOf(s)' = CurrentOf(s)
  BY <1>0, CommitKeepsCurrent
<1>2. parent'[s] = parent[s]
  BY <1>0 DEF Committed
<1>3. ASSUME NEW p, p = parent[s], p # NoParent, ~ Contended(s)', ~ Contended(p)'
      PROVE  CurrentOf(s).parentRotation = CurrentOf(p).serviceRotation
             /\ CurrentOf(p)' = CurrentOf(p)
  <2>1. p \in Registered /\ p \in Registered'
    BY <1>0, <1>2, <1>3 DEF SeedOK, Forest, Committed, Registered
  <2>2. ~ Contended(s) /\ ~ Contended(p)
    BY <1>3, ContentionStays
  <2> QED
    BY <1>0, <1>3, <2>1, <2>2, CommitKeepsCurrent DEF InStep, WithParent
<1>4. ~ Contended(s)' => Numbered(s)'
  BY <1>1, ContentionStays DEF InStep, Numbered
<1> QED
  BY <1>1, <1>2, <1>3, <1>4 DEF InStep, WithParent

LEMMA InStepKept ==
    ASSUME RInv, RInv', SentInv, StepInv, [RacesNext]_allVars
    PROVE  \A s \in Registered' : InStep(s)'
<1>0. LocalsOK /\ Places /\ \A s \in Registered : InStep(s)
  BY DEF RInv, StepInv
<1>1. ASSUME UNCHANGED <<parent, rotations, behind>> PROVE \A s \in Registered' : InStep(s)'
  <2> SUFFICES ASSUME NEW s \in Registered PROVE InStep(s)'
    BY <1>1 DEF Registered
  <2>1. /\ RotationsOf(s)' = RotationsOf(s) /\ CurrentOf(s)' = CurrentOf(s)
        /\ CurrentOf(parent[s])' = CurrentOf(parent[s])
    BY <1>1, SameCurrent DEF RotationsOf
  <2>2. /\ Contended(s) => Contended(s)'
        /\ Contended(parent[s]) => Contended(parent[s])'
    <3>1. PICK p : p = parent[s] /\ p = parent'[s]
      BY <1>1
    <3>2. Contended(p) => Contended(p)'
      BY <1>0, ContentionStays
    <3> QED
      BY <1>0, <3>1, <3>2, ContentionStays
  <2> QED
    BY <1>0, <1>1, <2>1, <2>2 DEF InStep, WithParent, Numbered
<1>2. ASSUME NEW r \in Rotates, Rotating(r) PROVE \A s \in Registered' : InStep(s)'
  <2>1. Course(r) /\ UNCHANGED <<parent, behind>>
    BY <1>0, <1>2, StepCourse DEF Rotating
  <2>2. CASE ~ Writes(r)
    BY <1>1, <2>1, <2>2 DEF Course, Waits, Locks, ReadsTree, ReadsCurrent, NoRotation
  <2>3. CASE Writes(r)
    BY <1>2, <2>1, <2>3, WritesInStep
  <2> QED
    BY <2>2, <2>3
<1>3. CASE Committing
  BY <1>0, <1>3, CommitInStep DEF Committing
<1>4. CASE Resting
  BY <1>1, <1>4 DEF Resting
<1> QED
  BY <1>2, <1>3, <1>4, TreeKinds

LEMMA StepInvInductive ==
    /\ RacesInit /\ RInv => StepInv
    /\ RInv /\ RInv' /\ SentInv /\ StepInv /\ [RacesNext]_allVars => StepInv'
<1>1. ASSUME RacesInit, RInv PROVE StepInv
  <2>1. overtaken = {} /\ (\A r \in Rotates : pc[r] = "idle") /\ Init
    BY <1>1 DEF RacesInit, Init
  <2>2. /\ RowsOK /\ NoParent \notin Services
        /\ \A s \in Registered : parent[s] \in Registered \cup {NoParent}
    BY <1>1, RegistryAssumptions DEF RInv, SeedOK, Forest, Registered
  <2>3. \A x \in rotations : /\ x.serviceRotation = 1
                             /\ parent[x.serviceId] # NoParent => x.parentRotation = 1
    BY <2>1 DEF Init
  <2>4. \A s \in Registered : CurrentOf(s) \in rotations /\ CurrentOf(s).serviceId = s
    BY <2>2, CurrentIsOne DEF RowsOK, TableOK, RotationsOf
  <2>5. \A s \in Registered : InStep(s)
    <3> SUFFICES ASSUME NEW s \in Registered PROVE InStep(s)
      OBVIOUS
    <3>1. Numbered(s)
      BY <2>1, <2>3, <2>4 DEF Init, RotationsOf, Numbered
    <3> QED
      BY <2>2, <2>3, <2>4, <3>1 DEF InStep, WithParent
  <2> QED
    BY <2>1, <2>5 DEF StepInv, Places, Complete, Fresh, Apart
<1>2. ASSUME RInv, RInv', SentInv, StepInv, [RacesNext]_allVars PROVE StepInv'
  <2>1. Places /\ \A r \in Rotates : Complete(r) /\ Fresh(r) /\ \A q \in Rotates : Apart(q, r)
    BY <1>2 DEF StepInv
  <2>2. /\ Places'
        /\ \A r \in Rotates : Complete(r)' /\ Fresh(r)' /\ \A q \in Rotates : Apart(q, r)'
    BY <1>2, <2>1, PlacesKept, CompleteKept, FreshKept, ApartKept
  <2>3. \A s \in Registered' : InStep(s)'
    BY <1>2, InStepKept
  <2> QED
    BY <2>2, <2>3 DEF StepInv
<1> QED
  BY <1>1, <1>2

\* The current parent rotation of a service is the current rotation of its parent,
\* whatever rotates and seeds do at the same time, unless rotates that were not kept
\* apart were for one of the two, or a seed added the service while its parent was
\* rotated.
THEOREM TreeStaysInStep == RacesSpec => []TreeInStep
<1>1. StepInv => TreeInStep
  BY DEF StepInv, InStep, TreeInStep
<1> QED
  BY <1>1, OpenInvariant, StepInvInductive, PTL DEF RacesSpec

\* Two bumps of a service have two numbers, unless their rotates were not kept apart.
THEOREM BumpsAreNumberedApart == RacesSpec => []BumpsNumberedApart
<1>1. ASSUME RInv, StepInv PROVE BumpsNumberedApart
  <2> SUFFICES ASSUME NEW x \in rotations, NEW y \in rotations, x.serviceId = y.serviceId,
                      x.serviceRotation = y.serviceRotation, ~ Contended(x.serviceId)
               PROVE  x = y
    BY DEF BumpsNumberedApart
  <2>1. x.serviceId \in Registered
    BY <1>1 DEF RInv, RowsOK, TableOK, Matched
  <2>2. Numbered(x.serviceId)
    BY <1>1, <2>1 DEF StepInv, InStep
  <2> QED
    BY <2>2 DEF Numbered, RotationsOf
<1> QED
  BY <1>1, OpenInvariant, StepInvInductive, PTL DEF RacesSpec

=============================================================================
