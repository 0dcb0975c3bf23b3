------------------------------ MODULE Registry ------------------------------
(***************************************************************************)
(* The registry's one stateful operation, POST /service/{serviceId}/rotate *)
(* (packages/registry), with the calls it makes to locky through the       *)
(* mediator: it locks a service and its descendants, checks that they are  *)
(* idle, gives each a new rotation in one INSERT, and removes the lock.    *)
(* Calls of locky may time out or be sent again.                           *)
(***************************************************************************)
EXTENDS Integers, FiniteSets

CONSTANTS
    Services,        \* service ids a client may name
    Trees,           \* what may be seeded: registered service -> parent or NoParent
    NoParent,
    Rotates,         \* rotate requests
    Retries,         \* mediator.retryStrategy.retries, 0 when not enabled
    RotationLockExpiration,  \* app.rotationLockExpiration, in clock ticks
    NoLock,
    OtherRequests,   \* requests of locky that others make
    LockyInFlight    \* bound: requests locky handles at the same time

Null == -1           \* parent_rotation IS NULL; sorts last, as NULLS LAST asks

\* A row of the rotation table.  The two unique indexes say that no two rows
\* agree on these three columns: the table is a set.
Rotation ==
    [ serviceId : Services, parentRotation : (Nat \ {0}) \cup {Null},
      serviceRotation : Nat \ {0} ]

Attempts == 1 .. Retries + 1
post(r, n) == <<r, "post", n>>       \* the n-th POST /lock of r
delete(r, n) == <<r, "delete", n>>   \* the n-th DELETE /lock of r

ASSUME RegistryAssumptions ==
    /\ \A t \in Trees : /\ DOMAIN t \subseteq Services
                       /\ \A s \in DOMAIN t : t[s] \in DOMAIN t \cup {NoParent}
    /\ NoParent \notin Services
    /\ Retries \in Nat
    /\ RotationLockExpiration \in Nat \ {0}
    /\ LockyInFlight \in Nat \ {0}

VARIABLES
    parent,      \* the service table: registered service -> parent or NoParent
    rotations,   \* the rotation table
    service,     \* per rotate: the service to rotate
    pc,          \* per rotate: the call its handler awaits
    descendants, \* per rotate: the services it locks and checks
    attempt,     \* per rotate: which POST or DELETE of the lock is outstanding
    lockId,      \* per rotate: the POST that was answered by a lock id
    pending,     \* per rotate: the filterActions that have not answered
    tree,        \* per rotate: the services it is about to rotate
    current,     \* per rotate: the rotations it read
    answer,      \* per rotate: the status code (set early by a throw)
    active,      \* environment: services with an active action
    outdated,    \* history: rotates that inserted after their lock expired
    locks, lockCall, lockPc, lockRequest, lockPending, lockAnswer, lockBefore

lockyVars == <<locks, lockCall, lockPc, lockRequest, lockPending, lockAnswer, lockBefore>>
locals == <<service, pc, descendants, attempt, lockId, pending, tree, current, answer>>
vars == <<parent, rotations, locals, active, outdated, lockyVars>>

L == INSTANCE Locky WITH
       Requests <- {post(r, n) : r \in Rotates, n \in Attempts}
                     \cup {delete(r, n) : r \in Rotates, n \in Attempts} \cup OtherRequests,
       Blockees <- [s \in Services |-> {}], ReserveExpiration <- 1,
       LockBodies <- [services : SUBSET Services, expiration : {RotationLockExpiration}],
       MaxInFlight <- LockyInFlight, call <- lockCall, pc <- lockPc,
       pending <- lockPending, answer <- lockAnswer, before <- lockBefore

ASSUME NoLockIsNoRow == NoLock \notin L!Lock

-----------------------------------------------------------------------------
Registered == DOMAIN parent

Children(S) == {t \in Registered : parent[t] \in S}

\* findDescendants, a service is a descendant of itself.
Descendants(s) ==
    {t \in Registered :
       \A D \in SUBSET Registered :
         {s} \cap Registered \subseteq D /\ Children(D) \subseteq D => t \in D}

\* The current rotation: ORDER BY parent_rotation DESC NULLS LAST, service_rotation DESC.
Sorted(x, y) ==
    \/ x.parentRotation > y.parentRotation
    \/ x.parentRotation = y.parentRotation /\ x.serviceRotation >= y.serviceRotation

RotationsOf(s) == {x \in rotations : x.serviceId = s}

CurrentOf(s) ==
    LET rows == RotationsOf(s)
    IN  CHOOSE x \in rows : \A y \in rows : Sorted(x, y)

\* Faulty variants: the parent rotation of the descendants is kept; that of the
\* rotated service moves, too.
NextRotationAlike(x, s) ==
    [x EXCEPT !.parentRotation = @ + 1, !.serviceRotation = @ + 1]
NextRotationInPlace(x, s) ==
    [x EXCEPT !.serviceRotation = @ + 1]

\* Faulty variant: the descendants keep their own number.
NextRotationOfTop(x, s) ==
    IF x.serviceId = s THEN [x EXCEPT !.serviceRotation = @ + 1]
    ELSE [x EXCEPT !.parentRotation = @ + 1]

\* The row that follows x when service s is rotated.
NextRotation(x, s) ==
    [ serviceId |-> x.serviceId,
      parentRotation |-> IF x.serviceId = s THEN x.parentRotation ELSE x.parentRotation + 1,
      serviceRotation |-> x.serviceRotation + 1 ]

NewRotations(r) == {NextRotation(x, service[r]) : x \in current[r]}

-----------------------------------------------------------------------------
At(r, p) == pc[r] = p
Busy == {"find", "descendants", "lock", "verify", "rollback", "tree", "current", "insert", "unlock"}

Goto(r, p) ==
    /\ pc' = [pc EXCEPT ![r] = p]
    /\ UNCHANGED <<service, descendants, attempt, lockId, pending, tree, current, answer>>

Answer(r, code) ==
    /\ pc' = [pc EXCEPT ![r] = "done"]
    /\ answer' = [answer EXCEPT ![r] = code]
    /\ UNCHANGED <<service, descendants, attempt, lockId, pending, tree, current>>

NoRotation == UNCHANGED <<rotations, outdated>>

\* Faulty variant: the lock is asked for without an expiration.
CreateLockForEver(r, n) ==
    L!PostLock(post(r, n), [services |-> descendants'[r], expiration |-> L!Never])

\* Mediator.createLock and Mediator.removeLock, the n-th time.
CreateLock(r, n) ==
    L!PostLock(post(r, n), [ services |-> descendants'[r],
                             expiration |-> RotationLockExpiration ])
RemoveLock(r, n) == L!DeleteLockId(delete(r, n), post(r, lockId[r]))

-----------------------------------------------------------------------------
RotateService(r, s) ==
    /\ At(r, "idle")
    /\ pc' = [pc EXCEPT ![r] = "find"]
    /\ service' = [service EXCEPT ![r] = s]
    /\ UNCHANGED <<descendants, attempt, lockId, pending, tree, current, answer>>
    /\ NoRotation /\ UNCHANGED lockyVars

RotateFind(r) ==
    /\ At(r, "find")
    /\ \/ service[r] \notin Registered /\ Answer(r, 404)
       \/ service[r] \in Registered /\ Goto(r, "descendants")
    /\ NoRotation /\ UNCHANGED lockyVars

\* Faulty variant: the service alone is locked.
LockedTop(s) == {t \in Descendants(s) : t = s}

\* The services to lock; locky refuses an empty list by 400.
LockedBy(s) == Descendants(s)

RotateDescendants(r) ==
    /\ At(r, "descendants")
    /\ \/ LockedBy(service[r]) = {} /\ Answer(r, 500) /\ UNCHANGED lockyVars
       \/ /\ LockedBy(service[r]) # {}
          /\ pc' = [pc EXCEPT ![r] = "lock"]
          /\ descendants' = [descendants EXCEPT ![r] = LockedBy(service[r])]
          /\ attempt' = [attempt EXCEPT ![r] = 1]
          /\ CreateLock(r, 1)
          /\ UNCHANGED <<service, lockId, pending, tree, current, answer>>
    /\ NoRotation

\* Locky answered: a lock, a conflict, or an error, which is not retried on a POST.
RotateLocked(r) ==
    /\ At(r, "lock")
    /\ LET p == post(r, attempt[r]) IN
         \/ /\ L!Answered(p, 201)
            /\ pc' = [pc EXCEPT ![r] = "verify"]
            /\ lockId' = [lockId EXCEPT ![r] = attempt[r]]
            /\ pending' = [pending EXCEPT ![r] = descendants[r]]
            /\ UNCHANGED <<service, descendants, attempt, tree, current, answer>>
         \/ L!Answered(p, 409) /\ Answer(r, 409)
         \/ L!Answered(p, 500) /\ Answer(r, 500)
    /\ NoRotation /\ UNCHANGED lockyVars

\* Faulty variant: the lock is not removed before the error is thrown again.
ThrowAtOnce(r, code) ==
    /\ Answer(r, code)
    /\ UNCHANGED lockyVars

\* The first of the parallel filterActions to throw makes the handler remove the
\* lock and throw again.
Throw(r, code) ==
    /\ pc' = [pc EXCEPT ![r] = "rollback"]
    /\ attempt' = [attempt EXCEPT ![r] = 1]
    /\ pending' = [pending EXCEPT ![r] = {}]
    /\ answer' = [answer EXCEPT ![r] = code]
    /\ RemoveLock(r, 1)
    /\ UNCHANGED <<service, descendants, lockId, tree, current>>

VerifyPasses(r, s) ==
    /\ pending' = [pending EXCEPT ![r] = @ \ {s}]
    /\ UNCHANGED <<service, pc, descendants, attempt, lockId, tree, current, answer, lockyVars>>

\* Faulty variant: the rotated service alone is checked.
RotateVerifyTop(r, s) ==
    /\ At(r, "verify")
    /\ s \in pending[r]
    /\ \/ s \in active /\ s = service[r] /\ Throw(r, 409)
       \/ (s \notin active \/ s # service[r]) /\ VerifyPasses(r, s)
       \/ Throw(r, 500)
    /\ NoRotation

\* One of the parallel filterActions answers, or rejects.
RotateVerify(r, s) ==
    /\ At(r, "verify")
    /\ s \in pending[r]
    /\ \/ s \in active /\ Throw(r, 409)
       \/ s \notin active /\ VerifyPasses(r, s)
       \/ Throw(r, 500)
    /\ NoRotation

RotateVerified(r) ==
    /\ At(r, "verify")
    /\ pending[r] = {}
    /\ Goto(r, "tree")
    /\ NoRotation /\ UNCHANGED lockyVars

\* Faulty variant: the tree is read one level deep.
RotateTreeShallow(r) ==
    /\ At(r, "tree")
    /\ service[r] \in Registered
    /\ pc' = [pc EXCEPT ![r] = "current"]
    /\ tree' = [tree EXCEPT ![r] = {t \in Descendants(service[r]) : service[r] \in {t, parent[t]}}]
    /\ UNCHANGED <<service, descendants, attempt, lockId, pending, current, answer>>
    /\ NoRotation /\ UNCHANGED lockyVars

\* createServiceRotation reads the tree again.
RotateTree(r) ==
    /\ At(r, "tree")
    /\ \/ service[r] \notin Registered /\ Answer(r, 500)
       \/ /\ service[r] \in Registered
          /\ pc' = [pc EXCEPT ![r] = "current"]
          /\ tree' = [tree EXCEPT ![r] = Descendants(service[r])]
          /\ UNCHANGED <<service, descendants, attempt, lockId, pending, current, answer>>
    /\ NoRotation /\ UNCHANGED lockyVars

RotateCurrent(r) ==
    /\ At(r, "current")
    /\ pc' = [pc EXCEPT ![r] = "insert"]
    /\ current' = [current EXCEPT ![r] = {CurrentOf(s) : s \in {t \in tree[r] : RotationsOf(t) # {}}}]
    /\ UNCHANGED <<service, descendants, attempt, lockId, pending, tree, answer>>
    /\ NoRotation /\ UNCHANGED lockyVars

Expired(q) == locks[q] # NoLock /\ ~ L!NonExpired(q)

\* One INSERT: the unique indexes and the foreign key reject it as a whole, and
\* it cannot be empty.
InsertRotations(r) ==
    /\ NewRotations(r) # {} /\ NewRotations(r) \cap rotations = {}
    /\ \A x \in NewRotations(r) : x.serviceId \in Registered
    /\ rotations' = rotations \cup NewRotations(r)
    /\ outdated' = IF Expired(post(r, lockId[r])) THEN outdated \cup {r} ELSE outdated

RotateInsert(r) ==
    /\ At(r, "insert")
    /\ InsertRotations(r)
    /\ pc' = [pc EXCEPT ![r] = "unlock"]
    /\ attempt' = [attempt EXCEPT ![r] = 1]
    /\ RemoveLock(r, 1)
    /\ UNCHANGED <<service, descendants, lockId, pending, tree, current, answer>>

\* The lock is gone: the rotation is answered, or the error is thrown again.
RotateUnlocked(r) ==
    /\ pc[r] \in {"rollback", "unlock"}
    /\ LET d == delete(r, attempt[r]) IN
         \/ L!Answered(d, 204) /\ Answer(r, IF At(r, "unlock") THEN 204 ELSE answer[r])
         \/ L!Answered(d, 404) /\ Answer(r, 500)
         \/ L!Answered(d, 500) /\ attempt[r] = Retries + 1 /\ Answer(r, 500)
    /\ NoRotation /\ UNCHANGED lockyVars

-----------------------------------------------------------------------------
\* Nobody waits for the outstanding call any longer: the connection was lost or
\* its answer is a 5xx, and the call is sent again if it may be, or it timed out.
Lost(q) == lockPc[q] # "idle"

SendAgain(r) ==
    /\ attempt[r] <= Retries
    /\ UNCHANGED <<service, pc, descendants, lockId, pending, tree, current, answer>>
    /\ \/ At(r, "lock") /\ Lost(post(r, attempt[r])) /\ CreateLock(r, attempt[r] + 1)
       \/ /\ pc[r] \in {"rollback", "unlock"}
          /\ Lost(delete(r, attempt[r])) /\ RemoveLock(r, attempt[r] + 1)
    /\ attempt' = [attempt EXCEPT ![r] = @ + 1]
    /\ NoRotation

CallRejects(r) ==
    /\ pc[r] \in {"lock", "rollback", "unlock"}
    /\ Answer(r, 500)
    /\ NoRotation /\ UNCHANGED lockyVars

ReadRejects(r) ==
    /\ pc[r] \in {"find", "descendants", "tree", "current"}
    /\ Answer(r, 500)
    /\ NoRotation /\ UNCHANGED lockyVars

\* The INSERT is rejected by a constraint, or its answer is lost.  It is not
\* in the try block: the lock stays.
InsertRejects(r) ==
    /\ At(r, "insert")
    /\ InsertRotations(r) \/ NoRotation
    /\ Answer(r, 500)
    /\ UNCHANGED lockyVars

Crash(r) ==
    /\ pc[r] \in Busy
    /\ Goto(r, "dropped")
    /\ NoRotation /\ UNCHANGED lockyVars

-----------------------------------------------------------------------------
Step(r) ==
    \/ RotateFind(r) \/ RotateDescendants(r) \/ RotateLocked(r)
    \/ (\E s \in Services : RotateVerify(r, s)) \/ RotateVerified(r)
    \/ RotateTree(r) \/ RotateCurrent(r) \/ RotateInsert(r) \/ RotateUnlocked(r)
    \/ SendAgain(r) \/ CallRejects(r) \/ ReadRejects(r) \/ InsertRejects(r)

LockyStep ==
    /\ (\E q \in L!InFlight : L!Step(q) \/ L!Crash(q)) \/ L!Tick
    /\ UNCHANGED <<locals, rotations, outdated>>

ActivityChanges ==
    /\ \E s \in Registered : active' \in {active \cup {s}, active \ {s}}
    /\ UNCHANGED <<locals, rotations, outdated, lockyVars>>

\* The seeded tree: a parent of rotation 1 everywhere.
Init ==
    /\ parent \in Trees
    /\ rotations = { [ serviceId |-> s,
                       parentRotation |-> IF parent[s] = NoParent THEN Null ELSE 1,
                       serviceRotation |-> 1 ] : s \in Registered }
    /\ service = [r \in Rotates |-> NoParent]
    /\ pc = [r \in Rotates |-> "idle"]
    /\ descendants = [r \in Rotates |-> {}]
    /\ attempt = [r \in Rotates |-> 0]
    /\ lockId = [r \in Rotates |-> 0]
    /\ pending = [r \in Rotates |-> {}]
    /\ tree = [r \in Rotates |-> {}]
    /\ current = [r \in Rotates |-> {}]
    /\ answer = [r \in Rotates |-> 0]
    /\ outdated = {}
    /\ L!Init

\* Rotates, locky and the environment; nothing of this writes the service table.
RotateNext ==
    \/ \E r \in Rotates :
         ((\E s \in Services : RotateService(r, s)) \/ Step(r) \/ Crash(r)) /\ UNCHANGED active
    \/ LockyStep /\ UNCHANGED active
    \/ ActivityChanges

Next == RotateNext /\ UNCHANGED parent

Spec == Init /\ [][Next]_vars

\* Every awaited call settles, and locky serves its requests.
Fairness ==
    /\ \A r \in Rotates : WF_vars(Step(r) /\ UNCHANGED <<active, parent>>)
    /\ WF_vars(LockyStep /\ UNCHANGED <<active, parent>>)

FairSpec == Spec /\ Fairness

-----------------------------------------------------------------------------
\* Types of the rotation table and of the requests.
TypeOK ==
    /\ rotations \subseteq Rotation
    /\ service \in [Rotates -> Services \cup {NoParent}]
    /\ pc \in [Rotates -> Busy \cup {"idle", "done", "dropped"}]
    /\ descendants \in [Rotates -> SUBSET Services]
    /\ attempt \in [Rotates -> Attempts \cup {0}]
    /\ lockId \in [Rotates -> Attempts \cup {0}]
    /\ pending \in [Rotates -> SUBSET Services]
    /\ tree \in [Rotates -> SUBSET Services]
    /\ current \in [Rotates -> SUBSET Rotation]
    /\ answer \in [Rotates -> {0, 204, 404, 409, 500}]
    /\ active \subseteq Services
    /\ Registered \subseteq Services
    /\ outdated \subseteq Rotates

\* A service that is active all along is never rotated, neither directly nor
\* through an ancestor, in whatever order the parallel checks answer or fail.
BusyServiceNotRotated ==
    \A s \in UNION {DOMAIN t : t \in Trees} :
        [](s \in active) => [](\A x \in rotations : x.serviceId = s => x.serviceRotation = 1)

\* A rotate that is answered by 204 or 409 has removed the lock it was given,
\* even when its DELETE was sent again; what a 500 leaves behind is up to the
\* expiry.
AnsweredWithoutLock ==
    \A r \in Rotates :
        pc[r] = "done" /\ answer[r] \in {204, 409} /\ lockId[r] # 0
            => locks[post(r, lockId[r])] = NoLock

\* Every rotate is answered unless its process dies, and whatever happens to it
\* and to the calls it gave up on, the tree is free to act again in the end.
TreeUnlocked ==
    \A r \in Rotates :
        At(r, "find") ~> /\ pc[r] \in {"done", "dropped"}
                         /\ \A n \in Attempts : ~ L!NonExpired(post(r, n))

=============================================================================
