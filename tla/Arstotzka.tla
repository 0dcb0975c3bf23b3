----------------------------- MODULE Arstotzka -----------------------------
(***************************************************************************)
(* Services acting through locky and actiony, each with an instance of     *)
(* StatefulMediator (packages/mediator).  An instance serves one service   *)
(* through many runs, remembers one lock id and one action id, and sends a *)
(* call again when its answer is lost, if retries are enabled, while the   *)
(* server may still be at work on the first attempt.                       *)
(***************************************************************************)
EXTENDS Integers, FiniteSets, Sequences

CONSTANTS
    Services, Blockees, Parallelism,     \* registry content
    Clients,                             \* instances of StatefulMediator
    Scenarios,                           \* bound: configurations of the clients
    ReserveExpiration, NoLock, NoAction,
    None,                                \* lockId or actionId is undefined
    LockyInFlight, ActionyInFlight       \* bounds: requests handled at once

Methods == {"reserveAccess", "removeLock", "createAction", "updateAction"}

\* options.serviceId of every instance, retryStrategy.retries (0 when not enabled),
\* and two bounds: the methods that may be called n-th, and the calls of an
\* instance that are awaited at once.
Scenario == [ serviceOf : [Clients -> Services], retries : Nat,
              program : [Clients -> Seq(SUBSET Methods)], overlap : Nat \ {0} ]

\* The k-th attempt of the n-th call of an instance.
Sent(x) == UNION { {c} \X (1 .. Len(x.program[c])) \X (1 .. x.retries + 1) : c \in Clients }
Requests == UNION {Sent(x) : x \in Scenarios}

ASSUME ArstotzkaAssumptions ==
    /\ \A x \in Scenarios : x \in Scenario
    /\ None \notin Requests

VARIABLES
    scenario,          \* never changes
    lockId, actionId,  \* per instance: what it remembers
    calls,             \* per instance: the calls made, with their outcome
    overlaps,          \* history: pairs of calls of an instance awaited together
    late,              \* history: actions inserted with no granted lock of their instance in force
    locks, lockCall, lockPc, lockRequest, pending, lockAnswer, lockBefore,
    actions, clock, actionCall, actionPc, target, read, begun, actionAnswer, actionBefore,
    writers, seen

A == INSTANCE Actiony WITH
       BodyStatuses <- {"completed"}, MaxInFlight <- ActionyInFlight,
       call <- actionCall, pc <- actionPc, answer <- actionAnswer, before <- actionBefore

L == INSTANCE Locky WITH
       LockBodies <- {}, MaxInFlight <- LockyInFlight,
       call <- lockCall, pc <- lockPc, answer <- lockAnswer, before <- lockBefore,
       active <- {s \in Services : A!ActiveOf(s) # {}}

\* What locky and actiony assume of their configuration and of the registry.
ASSUME ServersAssumptions == L!LockyAssumptions /\ A!ActionyAssumptions

lockyVars == <<locks, lockCall, lockPc, lockRequest, pending, lockAnswer, lockBefore>>
actionyVars ==
    <<actions, clock, actionCall, actionPc, target, read, begun, actionAnswer, actionBefore, writers, seen>>
vars == <<scenario, lockId, actionId, calls, overlaps, late, lockyVars, actionyVars>>

-----------------------------------------------------------------------------
ServiceOf(c) == scenario.serviceOf[c]
Program(c) == scenario.program[c]

Made(c) == DOMAIN calls[c]
Awaited(c) == {n \in Made(c) : calls[c][n].outcome = "awaited"}
Last(c, n) == <<c, n, calls[c][n].attempt>>
Is(c, n, method) == calls[c][n].method = method

\* The calls of either server.
ToLocky(c, n) == calls[c][n].method \in {"reserveAccess", "removeLock"}

\* An instance calls a method; what it sends, if anything, is its first attempt.
Invoke(c, method, outcome) ==
    /\ Len(calls[c]) < Len(Program(c))
    /\ method \in Program(c)[Len(calls[c]) + 1]
    /\ Cardinality(Awaited(c)) < scenario.overlap
    /\ calls' = [calls EXCEPT ![c] =
                   Append(@, [method |-> method, attempt |-> 1, outcome |-> outcome])]
    /\ overlaps' = overlaps \cup {<<c, n, Len(calls[c]) + 1>> : n \in Awaited(c)}
    /\ UNCHANGED <<lockId, actionId, late>>

First(c) == <<c, Len(calls[c]) + 1, 1>>

Ends(c, n, outcome) ==
    /\ calls' = [calls EXCEPT ![c][n].outcome = outcome]
    /\ UNCHANGED <<overlaps, late, lockyVars, actionyVars>>

-----------------------------------------------------------------------------
ReserveAccess(c) ==
    /\ Invoke(c, "reserveAccess", "awaited")
    /\ L!PostReserve(First(c), ServiceOf(c))
    /\ UNCHANGED actionyVars

\* Without a lock id there is nothing to remove.
RemoveLock(c) ==
    /\ \/ /\ lockId[c] = None
          /\ Invoke(c, "removeLock", "resolved")
          /\ UNCHANGED lockyVars
       \/ /\ lockId[c] # None
          /\ Invoke(c, "removeLock", "awaited")
          /\ L!DeleteLockId(First(c), lockId[c])
    /\ UNCHANGED actionyVars

\* A service acts only if all its reservations so far were answered by an access.
CreateAction(c) ==
    /\ \A n \in Made(c) : Is(c, n, "reserveAccess") => calls[c][n].outcome = "resolved"
    /\ Invoke(c, "createAction", "awaited")
    /\ A!PostAction(First(c), ServiceOf(c), {})
    /\ UNCHANGED lockyVars

UpdateAction(c) ==
    /\ \/ /\ actionId[c] = None
          /\ Invoke(c, "updateAction", "resolved")
          /\ UNCHANGED actionyVars
       \/ /\ actionId[c] # None
          /\ Invoke(c, "updateAction", "awaited")
          /\ A!PatchAction(First(c), actionId[c], "completed", {})
    /\ UNCHANGED lockyVars

-----------------------------------------------------------------------------
\* Faulty variant: the empty body of a 204 is taken for a lock.
ReserveResolvesEmpty(c, n) ==
    /\ Is(c, n, "reserveAccess")
    /\ \/ L!Answered(Last(c, n), 201) /\ lockId' = [lockId EXCEPT ![c] = Last(c, n)]
       \/ L!Answered(Last(c, n), 204) /\ lockId' = [lockId EXCEPT ![c] = NoLock]
    /\ Ends(c, n, "resolved")
    /\ UNCHANGED actionId

\* The answer of the last attempt arrives.  A 204 of a reservation has no body.
ReserveResolves(c, n) ==
    /\ Is(c, n, "reserveAccess")
    /\ \/ L!Answered(Last(c, n), 201) /\ lockId' = [lockId EXCEPT ![c] = Last(c, n)]
       \/ L!Answered(Last(c, n), 204) /\ lockId' = [lockId EXCEPT ![c] = None]
    /\ Ends(c, n, "resolved")
    /\ UNCHANGED actionId

RemoveResolves(c, n) ==
    /\ Is(c, n, "removeLock")
    /\ L!Answered(Last(c, n), 204)
    /\ lockId' = [lockId EXCEPT ![c] = None]
    /\ Ends(c, n, "resolved")
    /\ UNCHANGED actionId

CreateResolves(c, n) ==
    /\ Is(c, n, "createAction")
    /\ A!Answered(Last(c, n), 201)
    /\ actionId' = [actionId EXCEPT ![c] = Last(c, n)]
    /\ Ends(c, n, "resolved")
    /\ UNCHANGED lockId

UpdateResolves(c, n) ==
    /\ Is(c, n, "updateAction")
    /\ A!Answered(Last(c, n), 200)
    /\ Ends(c, n, "resolved")
    /\ UNCHANGED <<lockId, actionId>>

\* Faulty variant: removeLock forgets the id whether it is removed or not.
RejectsForgetting(c, n) ==
    /\ lockId' = IF Is(c, n, "removeLock") THEN [lockId EXCEPT ![c] = None] ELSE lockId
    /\ UNCHANGED actionId

\* What a rejected call does to the instance: nothing.
Keeps(c, n) == UNCHANGED <<lockId, actionId>>

\* The last attempt is answered by an error that is not retried.
Refused(c, n, code) ==
    /\ IF ToLocky(c, n) THEN L!Answered(Last(c, n), code) ELSE A!Answered(Last(c, n), code)
    /\ Ends(c, n, IF code = 404 THEN "notFound" ELSE IF code = 409 THEN "conflict" ELSE "failed")
    /\ Keeps(c, n)

\* The call times out, or its connection is lost and it may not be sent again:
\* the server carries on with it.
GivesUp(c, n) == Ends(c, n, "failed") /\ Keeps(c, n)

\* A network error is retried on any method, a 5xx on a DELETE.
SendAgain(c, n) ==
    /\ calls[c][n].attempt <= scenario.retries
    /\ calls' = [calls EXCEPT ![c][n].attempt = @ + 1]
    /\ LET q == <<c, n, calls[c][n].attempt + 1>> IN
         \/ Is(c, n, "reserveAccess") /\ L!PostReserve(q, ServiceOf(c)) /\ UNCHANGED actionyVars
         \/ /\ Is(c, n, "removeLock")
            /\ L!DeleteLockId(q, lockCall[<<c, n, 1>>].lockId)
            /\ UNCHANGED actionyVars
         \/ Is(c, n, "createAction") /\ A!PostAction(q, ServiceOf(c), {}) /\ UNCHANGED lockyVars
         \/ /\ Is(c, n, "updateAction")
            /\ A!PatchAction(q, actionCall[<<c, n, 1>>].actionId, "completed", {})
            /\ UNCHANGED lockyVars
    /\ UNCHANGED <<lockId, actionId, overlaps, late>>

Settle(c, n) ==
    \/ ReserveResolves(c, n) \/ RemoveResolves(c, n)
    \/ CreateResolves(c, n) \/ UpdateResolves(c, n)
    \/ (\E code \in {404, 409, 500} : Refused(c, n, code))
    \/ GivesUp(c, n) \/ SendAgain(c, n)

-----------------------------------------------------------------------------
LockyStep ==
    /\ (\E q \in L!InFlight : L!Step(q) \/ L!Crash(q)) \/ L!Tick
    /\ UNCHANGED <<lockId, actionId, calls, overlaps, late, actionyVars>>

Inserted(q) == actions[q] # NoAction
HoldsLock(c) == \E p \in Requests : p[1] = c /\ L!Granted(p) /\ L!NonExpired(p)

ActionyStep ==
    /\ \E q \in A!InFlight : A!Step(q) \/ A!Crash(q)
    /\ late' = late \cup {q \in Requests : ~ Inserted(q) /\ Inserted(q)' /\ ~ HoldsLock(q[1])}
    /\ UNCHANGED <<lockId, actionId, calls, overlaps, lockyVars>>

Init ==
    /\ scenario \in Scenarios
    /\ lockId = [c \in Clients |-> None]
    /\ actionId = [c \in Clients |-> None]
    /\ calls = [c \in Clients |-> <<>>]
    /\ overlaps = {} /\ late = {}
    /\ A!Init /\ L!Init

Next ==
    /\ \/ \E c \in Clients :
            \/ ReserveAccess(c) \/ RemoveLock(c) \/ CreateAction(c) \/ UpdateAction(c)
            \/ \E n \in Awaited(c) : Settle(c, n)
       \/ LockyStep
       \/ ActionyStep
    /\ UNCHANGED scenario

Spec == Init /\ [][Next]_vars

-----------------------------------------------------------------------------
\* Types of what an instance remembers and of its calls.
TypeOK ==
    /\ lockId \in [Clients -> Requests \cup {None}]
    /\ actionId \in [Clients -> Requests \cup {None}]
    /\ \A c \in Clients :
         calls[c] \in Seq([ method : Methods, attempt : 1 .. scenario.retries + 1,
              outcome : {"awaited", "resolved", "notFound", "conflict", "failed"} ])
    /\ late \subseteq Requests

Blocks(s, t) == s \in DOMAIN Blockees /\ t \in Blockees[s]
Acting(q) == A!Active(q)

\* Access is granted only when no service that blocks the requesting one is
\* active.
AccessIsValidated ==
    [][\A p, q \in Requests :
         lockAnswer[p] = 0 /\ lockAnswer'[p] \in {201, 204} /\ lockCall[p].kind = "reserve" =>
           ~ (Acting(q) /\ Blocks(ServiceOf(q[1]), ServiceOf(p[1])))]_vars

\* A blocker and its blockee are never active together.
NoConflict ==
    \A p, q \in Requests :
        Acting(p) /\ Acting(q) => ~ Blocks(ServiceOf(p[1]), ServiceOf(q[1]))

\* Two instances have reservations that raced: each was checked before the lock
\* of the other was inserted.
Raced(c, d) ==
    \E p, q \in Requests :
        /\ p[1] = c /\ q[1] = d /\ L!Granted(p) /\ L!Granted(q)
        /\ p \notin lockBefore[q] /\ q \notin lockBefore[p]

\* Whatever fails and however the two servers interleave, two services that
\* block each other are active together only if their reservations raced or one
\* of them created its action after its lock had ended.
ConflictIsRaceOrLate ==
    \A p, q \in {a \in Requests : Acting(a)} :
        /\ p[1] # q[1]
        /\ Blocks(ServiceOf(p[1]), ServiceOf(q[1])) /\ Blocks(ServiceOf(q[1]), ServiceOf(p[1]))
        => Raced(p[1], q[1]) \/ p \in late \/ q \in late

\* The ids the instance was told.
Told(c, n, method) == Is(c, n, method) /\ calls[c][n].outcome = "resolved"

Overlapped(c, m, n) == <<c, m, n>> \in overlaps \/ <<c, n, m>> \in overlaps

\* A lock whose id the instance was told stays removable: as long as its row is
\* there, a removal that fails or is repeated does not make the instance forget
\* the id.  Only a later reservation does, or a removal that overlapped the
\* reservation and cleared an id that was not its own.
NoLockForgotten ==
    \A c \in Clients : \A n \in Made(c) :
        /\ Told(c, n, "reserveAccess")
        /\ locks[Last(c, n)] # NoLock
        => \/ lockId[c] = Last(c, n)
           \/ \E m \in Made(c) : m # n /\ Told(c, m, "reserveAccess")
           \/ \E m \in Made(c) : Is(c, m, "removeLock") /\ Overlapped(c, m, n)

\* A removal answered by 404 found the lock removed by a DELETE the instance had
\* sent itself, in an earlier attempt or call: neither an expiry nor anybody
\* else takes it away, so that ignoring a 404, as planned, hides nothing.
NotFoundIsOwnRemoval ==
    \A c \in Clients : \A n \in Made(c) :
        Is(c, n, "removeLock") /\ calls[c][n].outcome = "notFound" =>
            \E q \in Requests :
                /\ q[1] = c /\ q # Last(c, n)
                /\ lockCall[q].kind = "unlock"
                /\ lockCall[q].lockId = lockCall[Last(c, n)].lockId
                /\ lockPc[q] # "find"

\* An open action of a single service whose id the instance was told is the one
\* it remembers, so that it can be closed, whatever attempts of createAction
\* were lost or come late: an id is replaced only once its action is closed,
\* unless the instance had sent the two createAction at once.
OpenActionIsHeld ==
    \A c \in Clients : \A n \in Made(c) :
        /\ Parallelism[ServiceOf(c)] = "single"
        /\ Told(c, n, "createAction")
        /\ A!Active(Last(c, n))
        => \/ actionId[c] = Last(c, n)
           \/ \E m \in Made(c) : Is(c, m, "createAction") /\ Overlapped(c, m, n)

\* A service that nobody blocks and whose blockees never acted is never refused
\* access: what its own earlier reservations left behind, answered or not, is a
\* lock on others.
OwnLeftoversAdmit ==
    \A c \in Clients :
        /\ \A s \in DOMAIN Blockees : ServiceOf(c) \notin Blockees[s]
        /\ \A q \in Requests : Inserted(q) => actions[q].serviceId \notin Blockees[ServiceOf(c)]
        => \A n \in Made(c) : Is(c, n, "reserveAccess") => calls[c][n].outcome # "conflict"

=============================================================================
