------------------------------- MODULE Locky -------------------------------
(***************************************************************************)
(* The lock service: packages/locky.  A lock is a row of one table; a lock *)
(* on a service is in force while some row that lists the service has not  *)
(* expired.  Three HTTP handlers share the table without any transaction   *)
(* or mutex, so a handler is a sequence of steps, one per awaited call, and *)
(* the steps of different requests interleave freely.                      *)
(***************************************************************************)
EXTENDS Integers, FiniteSets

CONSTANTS
    Services,           \* service ids a client may name
    Requests,           \* HTTP requests; each is handled once and creates at
                        \* most one row, whose uuid is named after it
    Blockees,           \* registry content: registered service -> its blockees
    ReserveExpiration,  \* app.reserveLockExpiration, in clock ticks
    LockBodies,         \* bodies of POST /lock: services, and expiration or Never
    MaxInFlight,        \* bound: requests handled at the same time
    NoLock              \* the table holds no row with this id

Never == -1             \* expires_at IS NULL

\* A row.  The clock is kept as the time left, so expires_at > now is ttl # 0.
Lock == [serviceIds : SUBSET Services, ttl : Nat \cup {Never}]

\* The argument of createLock.
LockRequest == [services : SUBSET Services, expiration : Nat \cup {Never}]

ASSUME LockyAssumptions ==
    /\ DOMAIN Blockees \subseteq Services
    /\ \A s \in DOMAIN Blockees : Blockees[s] \subseteq Services
    /\ ReserveExpiration \in Nat \ {0}
    /\ LockBodies \subseteq LockRequest
    /\ MaxInFlight \in Nat \ {0}
    /\ NoLock \notin Lock

VARIABLES
    locks,        \* the lock table: row id -> row or NoLock
    call,         \* per request: what was asked
    pc,           \* per request: the call its handler awaits
    lockRequest,  \* per request: the argument of createLock
    pending,      \* per request: the filterActions that have not answered
    answer,       \* per request: the status code (set early by a throw)
    before,       \* history, never read: the rows there at r's check
    active        \* environment: registered services with an active action

locals == <<call, pc, lockRequest, pending, answer, before>>
vars == <<locks, locals, active>>

-----------------------------------------------------------------------------
Kinds == {"none", "lock", "unlock", "reserve"}
Call == [kind : Kinds, services : SUBSET Services, lockId : Requests]

Waiting == {"check", "fetch", "insert", "verify", "rollback", "find", "delete"}
InFlight == {r \in Requests : pc[r] \in Waiting}
Answered(r, code) == pc[r] = "done" /\ answer[r] = code

\* A lock the client was told about: only such an id can come back in a DELETE.
Granted(r) == Answered(r, 201)

At(r, kind, p) == call[r].kind = kind /\ pc[r] = p

\* How a step leaves the locals of its request.
Goto(r, p) ==
    pc' = [pc EXCEPT ![r] = p] /\ UNCHANGED <<call, lockRequest, pending, answer, before>>

Answer(r, code) ==
    /\ pc' = [pc EXCEPT ![r] = "done"]
    /\ answer' = [answer EXCEPT ![r] = code]
    /\ UNCHANGED <<call, lockRequest, pending, before>>

PassCheck(r, p) ==
    /\ pc' = [pc EXCEPT ![r] = p]
    /\ before' = [before EXCEPT ![r] = {l \in Requests : locks[l] # NoLock}]
    /\ UNCHANGED <<call, lockRequest, pending, answer>>

\* The first rejection rejects Promise.all; the answers still to come are ignored.
Throw(r, code) ==
    /\ pc' = [pc EXCEPT ![r] = "rollback"]
    /\ answer' = [answer EXCEPT ![r] = code]
    /\ pending' = [pending EXCEPT ![r] = {}]
    /\ UNCHANGED <<call, lockRequest, before>>

-----------------------------------------------------------------------------
\* The repository: what the three queries see and write.
NonExpired(l) == locks[l] # NoLock /\ locks[l].ttl # 0

\* A faulty variant, to see that the properties notice: locks without an expiry
\* are overlooked.
FindExpiringLocks(S) ==
    {l \in Requests : /\ NonExpired(l) /\ locks[l].ttl # Never
                      /\ locks[l].serviceIds \cap S # {}}

FindNonexpiredLocks(S) ==
    {l \in Requests : NonExpired(l) /\ locks[l].serviceIds \cap S # {}}

\* Faulty variants: the caller is locked, not its blockees; the expiration is
\* ignored.
CreateLockOnCaller(r) ==
    locks' = [locks EXCEPT ![r] = [serviceIds |-> call[r].services,
                                   ttl |-> lockRequest[r].expiration]]
CreateLockForEver(r) ==
    locks' = [locks EXCEPT ![r] = [serviceIds |-> lockRequest[r].services, ttl |-> Never]]

CreateLock(r) ==
    locks' = [locks EXCEPT ![r] = [serviceIds |-> lockRequest[r].services,
                                   ttl |-> lockRequest[r].expiration]]

DeleteLock(l) == locks' = [locks EXCEPT ![l] = NoLock]

-----------------------------------------------------------------------------
\* A request arrives.
Receive(r, p, c, lr) ==
    /\ pc[r] = "idle"
    /\ Cardinality(InFlight) < MaxInFlight
    /\ pc' = [pc EXCEPT ![r] = p]
    /\ call' = [call EXCEPT ![r] = c]
    /\ lockRequest' = [lockRequest EXCEPT ![r] = lr]
    /\ UNCHANGED <<locks, pending, answer, before>>

NoLockRequest == [services |-> {}, expiration |-> 0]

PostLock(r, body) ==
    Receive(r, "check", [kind |-> "lock", services |-> body.services, lockId |-> r], body)

PostReserve(r, s) ==
    Receive(r, "check", [kind |-> "reserve", services |-> {s}, lockId |-> r],
            NoLockRequest)

\* The id is one a client was given, or r itself: an id no row ever has.
DeleteLockId(r, l) ==
    /\ Granted(l) \/ l = r
    /\ Receive(r, "find", [kind |-> "unlock", services |-> {}, lockId |-> l],
               NoLockRequest)

-----------------------------------------------------------------------------
\* POST /lock
LockCheck(r) ==
    /\ At(r, "lock", "check")
    /\ \/ FindNonexpiredLocks(call[r].services) # {} /\ Answer(r, 409)
       \/ FindNonexpiredLocks(call[r].services) = {} /\ PassCheck(r, "insert")
    /\ UNCHANGED locks

LockInsert(r) ==
    /\ At(r, "lock", "insert")
    /\ CreateLock(r)
    /\ Answer(r, 201)

-----------------------------------------------------------------------------
\* DELETE /lock/{lockId}
\* Faulty variant: a lock that has expired is not found.
UnlockFindNonexpired(r) ==
    /\ At(r, "unlock", "find")
    /\ \/ ~ NonExpired(call[r].lockId) /\ Answer(r, 404)
       \/ NonExpired(call[r].lockId) /\ Goto(r, "delete")
    /\ UNCHANGED locks

UnlockFind(r) ==
    /\ At(r, "unlock", "find")
    /\ \/ locks[call[r].lockId] = NoLock /\ Answer(r, 404)
       \/ locks[call[r].lockId] # NoLock /\ Goto(r, "delete")
    /\ UNCHANGED locks

\* Faulty variant: the DELETE is not awaited.
UnlockDeleteNotAwaited(r) ==
    /\ At(r, "unlock", "delete")
    /\ DeleteLock(call[r].lockId) \/ UNCHANGED locks
    /\ Answer(r, 204)

\* Faulty variant: a status the API does not know.
UnlockDeleteAnswersOk(r) ==
    /\ At(r, "unlock", "delete")
    /\ DeleteLock(call[r].lockId)
    /\ Answer(r, 200)

UnlockDelete(r) ==
    /\ At(r, "unlock", "delete")
    /\ DeleteLock(call[r].lockId)
    /\ Answer(r, 204)

-----------------------------------------------------------------------------
\* POST /lock/reserve
ReserveCheck(r) ==
    /\ At(r, "reserve", "check")
    /\ \/ FindNonexpiredLocks(call[r].services) # {} /\ Answer(r, 409)
       \/ FindNonexpiredLocks(call[r].services) = {} /\ PassCheck(r, "fetch")
    /\ UNCHANGED locks

\* mediator.fetchService: 404, a service that blocks nobody (204, no lock), or
\* the blockees to lock.
ReserveFetch(r) ==
    /\ At(r, "reserve", "fetch")
    /\ \E s \in call[r].services :
         \/ s \notin DOMAIN Blockees /\ Answer(r, 404)
         \/ s \in DOMAIN Blockees /\ Blockees[s] = {} /\ Answer(r, 204)
         \/ /\ s \in DOMAIN Blockees /\ Blockees[s] # {}
            /\ pc' = [pc EXCEPT ![r] = "insert"]
            /\ lockRequest' = [lockRequest EXCEPT
                    ![r] = [services |-> Blockees[s], expiration |-> ReserveExpiration]]
            /\ UNCHANGED <<call, pending, answer, before>>
    /\ UNCHANGED locks

ReserveInsert(r) ==
    /\ At(r, "reserve", "insert")
    /\ CreateLock(r)
    /\ pc' = [pc EXCEPT ![r] = "verify"]
    /\ pending' = [pending EXCEPT ![r] = lockRequest[r].services]
    /\ UNCHANGED <<call, lockRequest, answer, before>>

\* Faulty variants: an active blockee is reported outside the try block; one
\* inactive blockee is enough.
ReserveVerifyUncaught(r, b) ==
    /\ At(r, "reserve", "verify")
    /\ b \in pending[r]
    /\ b \in active /\ Answer(r, 409)
    /\ UNCHANGED locks
ReserveVerifyAny(r, b) ==
    /\ At(r, "reserve", "verify")
    /\ b \in pending[r]
    /\ \/ b \in active /\ Throw(r, 409)
       \/ b \notin active /\ pending' = [pending EXCEPT ![r] = {}]
                          /\ UNCHANGED <<call, pc, lockRequest, answer, before>>
    /\ UNCHANGED locks

\* One of the parallel filterActions answers.
ReserveVerify(r, b) ==
    /\ At(r, "reserve", "verify")
    /\ b \in pending[r]
    /\ \/ b \in active /\ Throw(r, 409)
       \/ /\ b \notin active
          /\ pending' = [pending EXCEPT ![r] = @ \ {b}]
          /\ UNCHANGED <<call, pc, lockRequest, answer, before>>
    /\ UNCHANGED locks

\* Faulty variant: the lock is deleted in a finally block, not in a catch block.
ReserveGrantFinally(r) ==
    /\ At(r, "reserve", "verify")
    /\ pending[r] = {}
    /\ DeleteLock(r)
    /\ Answer(r, 201)

\* Faulty variant: the expiration is counted from the answer on.
ReserveGrantRenews(r) ==
    /\ At(r, "reserve", "verify")
    /\ pending[r] = {}
    /\ CreateLock(r)
    /\ Answer(r, 201)

ReserveGrant(r) ==
    /\ At(r, "reserve", "verify")
    /\ pending[r] = {}
    /\ Answer(r, 201)
    /\ UNCHANGED locks

\* Faulty variant: the reservation is tried again until the blockees are idle.
ReserveRollbackRetries(r) ==
    /\ At(r, "reserve", "rollback")
    /\ DeleteLock(r)
    /\ Goto(r, "insert")

ReserveRollback(r) ==
    /\ At(r, "reserve", "rollback")
    /\ DeleteLock(r)
    /\ Goto(r, "done")

-----------------------------------------------------------------------------
\* An awaited call rejects.  A statement whose connection is lost may have been
\* committed or not; only the calls inside the try block lead to the rollback.
ReadRejects(r) ==
    /\ pc[r] \in {"check", "fetch", "find"}
    /\ Answer(r, 500)
    /\ UNCHANGED locks

VerifyRejects(r) ==
    /\ At(r, "reserve", "verify")
    /\ pending[r] # {}
    /\ Throw(r, 500)
    /\ UNCHANGED locks

InsertRejects(r) ==
    /\ pc[r] = "insert"
    /\ CreateLock(r) \/ UNCHANGED locks
    /\ Answer(r, 500)

DeleteRejects(r) ==
    /\ \/ At(r, "reserve", "rollback") /\ (DeleteLock(r) \/ UNCHANGED locks)
       \/ At(r, "unlock", "delete") /\ (DeleteLock(call[r].lockId) \/ UNCHANGED locks)
    /\ Answer(r, 500)

\* The process that handles r dies, or its pod is replaced: no answer is sent
\* and the rows stay.
Crash(r) ==
    /\ pc[r] \in Waiting
    /\ pc' = [pc EXCEPT ![r] = "dropped"]
    /\ pending' = [pending EXCEPT ![r] = {}]
    /\ UNCHANGED <<locks, call, lockRequest, answer, before>>

\* LOCALTIMESTAMP moves on.
Tick ==
    /\ \E l \in Requests : locks[l] # NoLock /\ locks[l].ttl > 0
    /\ locks' = [l \in Requests |->
                   IF locks[l] # NoLock /\ locks[l].ttl > 0
                   THEN [locks[l] EXCEPT !.ttl = @ - 1]
                   ELSE locks[l]]
    /\ UNCHANGED locals

-----------------------------------------------------------------------------
Arrive(r) ==
    \/ \E body \in LockBodies : PostLock(r, body)
    \/ \E s \in Services : PostReserve(r, s)
    \/ \E l \in Requests : DeleteLockId(r, l)

\* What the handler of r does next when the call it awaits settles.
Step(r) ==
    \/ LockCheck(r) \/ LockInsert(r)
    \/ UnlockFind(r) \/ UnlockDelete(r)
    \/ ReserveCheck(r) \/ ReserveFetch(r) \/ ReserveInsert(r)
    \/ (\E b \in Services : ReserveVerify(r, b))
    \/ ReserveGrant(r) \/ ReserveRollback(r)
    \/ ReadRejects(r) \/ VerifyRejects(r) \/ InsertRejects(r) \/ DeleteRejects(r)

\* Actions are opened and closed behind locky's back.
ActivityChanges ==
    /\ \E s \in DOMAIN Blockees : active' \in {active \cup {s}, active \ {s}}
    /\ UNCHANGED <<locks, locals>>

Init ==
    /\ locks = [r \in Requests |-> NoLock]
    /\ call = [r \in Requests |-> [kind |-> "none", services |-> {}, lockId |-> r]]
    /\ pc = [r \in Requests |-> "idle"]
    /\ lockRequest = [r \in Requests |-> NoLockRequest]
    /\ pending = [r \in Requests |-> {}]
    /\ answer = [r \in Requests |-> 0]
    /\ before = [r \in Requests |-> {}]
    /\ active \in SUBSET DOMAIN Blockees

Next ==
    \/ \E r \in Requests : (Arrive(r) \/ Step(r) \/ Crash(r)) /\ UNCHANGED active
    \/ Tick /\ UNCHANGED active
    \/ ActivityChanges

Spec == Init /\ [][Next]_vars

\* Every awaited call settles, one way or the other, and the clock runs.
Fairness ==
    /\ \A r \in Requests : WF_vars(Step(r) /\ UNCHANGED active)
    /\ WF_vars(Tick /\ UNCHANGED active)

FairSpec == Spec /\ Fairness

-----------------------------------------------------------------------------
\* Types of the table, of the requests and of the environment.
TypeOK ==
    /\ locks \in [Requests -> Lock \cup {NoLock}]
    /\ call \in [Requests -> Call]
    /\ pc \in [Requests -> Waiting \cup {"idle", "done", "dropped"}]
    /\ lockRequest \in [Requests -> LockRequest]
    /\ pending \in [Requests -> SUBSET Services]
    /\ answer \in [Requests -> {0, 201, 204, 404, 409, 500}]
    /\ before \in [Requests -> SUBSET Requests]
    /\ active \subseteq Services

\* Whatever the interleaving, a request that passed the nonexpired check never
\* coexists with a lock on the services it was checked on that is in force and
\* was already in the table at its check: locks come into force only by the
\* INSERT of a request that was still to make it, and never come back.
NoOverlookedLock ==
    \A r \in Requests : \A l \in before[r] :
        NonExpired(l) => locks[l].serviceIds \cap call[r].services = {}

\* A reservation that succeeded and whose lock is still in force.
Holds(r, s) ==
    /\ call[r].kind = "reserve" /\ call[r].services = {s}
    /\ Granted(r) /\ NonExpired(r)

Blocks(s, t) == s \in DOMAIN Blockees /\ t \in Blockees[s]

\* LockManager.reserve admits two services that block each other at the same
\* time only in one way: each request made its check before the other's row
\* was inserted.
ConflictingGrantsRaced ==
    \A a, b \in Requests : \A s, t \in Services :
        /\ Holds(a, s) /\ Holds(b, t)
        /\ Blocks(s, t) /\ Blocks(t, s)
        /\ a # b
        => a \notin before[b] /\ b \notin before[a]

\* A request that is refused, or that needs no lock, leaves no row behind,
\* even when blockees turn out to be active after the row was inserted and
\* whatever else fails: refusing is not allowed to block anybody.
RefusalLeavesNoRow ==
    \A r \in Requests : \A code \in {204, 404, 409} :
        Answered(r, code) => locks[r] = NoLock

\* Where the lock of a request stands, and the promise of module Leases.
lease ==
    [l \in Requests |->
       IF NonExpired(l) THEN "held"
       ELSE IF pc[l] \in {"idle", "check", "fetch", "insert"} THEN "unused" ELSE "over"]

Lease == INSTANCE Leases WITH Ids <- Requests

\* Locky implements Leases: a lock comes into force once, by the INSERT of its
\* request, and neither a late step of that request, nor a rollback, a crash or
\* an INSERT whose answer was lost, brings it back after its end.
ImplementsLeases == Lease!Spec

\* A row whose id was handed out stays in the table until a DELETE that names
\* it has found it: neither another request's rollback nor an expiry removes it
\* (deleting an expired lock is answered by 204, not by 404).
GrantedLockKept ==
    \A l \in Requests :
        /\ Granted(l)
        /\ ~ \E u \in Requests : /\ call[u].kind = "unlock" /\ call[u].lockId = l
                                /\ pc[u] # "find"
        => locks[l] # NoLock

\* Once some DELETE was answered by 204 or by 404, the lock it names is gone for
\* good, whoever else is deleting it at the same time.
ReleasedStaysReleased ==
    \A u \in Requests :
        call[u].kind = "unlock" /\ (Answered(u, 204) \/ Answered(u, 404))
            => locks[call[u].lockId] = NoLock

\* A service that is active all along keeps every service that blocks it out,
\* in whatever order the parallel filterActions answer or fail.
BusyBlockeeRefuses ==
    \A b \in Services :
        [](b \in active) =>
            [](\A r \in Requests, s \in Services :
                 call[r].kind = "reserve" /\ call[r].services = {s} /\ Blocks(s, b)
                     => ~ Granted(r))

\* Every request is answered unless the process that handles it dies.
RequestsAnswered ==
    \A r \in Requests : r \in InFlight ~> r \notin InFlight

\* A reservation the client got no lock id for (a lost INSERT answer, a failed
\* rollback, a crash) does not block its blockees for ever.
AbandonedReserveExpires ==
    \A r \in Requests :
        (call[r].kind = "reserve" /\ r \notin InFlight /\ ~ Granted(r)) ~> ~ NonExpired(r)

=============================================================================
