--------------------------- MODULE RotatedActions ---------------------------
(***************************************************************************)
(* Services that act while the registry rotates them.  A run of a service  *)
(* reserves access from locky, creates an action and closes it; actiony    *)
(* stores with the action the rotation it fetched from the registry; a     *)
(* rotate locks the services and asks actiony whether they are active.     *)
(* Services that block nobody: a run leaves no lock of its own.            *)
(***************************************************************************)
EXTENDS Registry

CONSTANTS
    Runs,            \* runs of services
    ServiceOf,       \* the service a run is of
    Parallelism,     \* registered service -> its parallelism
    NoAction,
    ActionyInFlight  \* bound: requests actiony handles at the same time

reserve(c) == <<c, "reserve">>
create(c) == <<c, "create">>
update(c) == <<c, "update">>
Reservations == {reserve(c) : c \in Runs}

ASSUME RotatedActionsAssumptions ==
    /\ OtherRequests = Reservations
    /\ ServiceOf \in [Runs -> Services]

VARIABLES
    actions, clock, actionCall, actionPc, target, read, begun, actionAnswer, actionBefore,
    writers, seen,
    carried,   \* per run: the rotation its action carries, {} until it is fetched
    missed     \* history: <<run, rotate>>, the reservation had passed its check but
               \* the action was not there when the rotate checked the service

actionyVars ==
    <<actions, clock, actionCall, actionPc, target, read, begun, actionAnswer, actionBefore, writers, seen>>

A == INSTANCE Actiony WITH
       Requests <- {create(c) : c \in Runs} \cup {update(c) : c \in Runs},
       BodyStatuses <- {"completed"}, MaxInFlight <- ActionyInFlight,
       call <- actionCall, pc <- actionPc, answer <- actionAnswer, before <- actionBefore

ASSUME ActionyAssumed == A!ActionyAssumptions

ActiveServices == {s \in Services : A!ActiveOf(s) # {}}

-----------------------------------------------------------------------------
Admitted(c) == L!Answered(reserve(c), 204)
Checked(c) == lockPc[reserve(c)] = "fetch" \/ Admitted(c)
Inserted(c) == actions[create(c)] # NoAction

\* The part of a service's flow that depends on its rotation.
ReserveAccess(c) ==
    /\ L!PostReserve(reserve(c), ServiceOf[c])
    /\ UNCHANGED <<actionyVars, carried>>

CreateAction(c) ==
    /\ Admitted(c)
    /\ A!PostAction(create(c), ServiceOf[c], {})
    /\ UNCHANGED <<lockyVars, carried>>

UpdateAction(c) ==
    /\ A!Answered(create(c), 201)
    /\ A!PatchAction(update(c), create(c), "completed", {})
    /\ UNCHANGED <<lockyVars, carried>>

\* GET /service/{serviceId} answers with the current rotation, which the handler
\* of POST /action keeps for the row.
Fetched(c) == A!At(create(c), "create", "fetch") /\ actionPc'[create(c)] \in {"count", "insert"}

Carry ==
    carried' = [c \in Runs |-> IF Fetched(c) THEN {CurrentOf(ServiceOf[c])} ELSE carried[c]]

ActionyStep ==
    /\ \E q \in A!InFlight : A!Step(q) \/ A!Crash(q)
    /\ Carry
    /\ UNCHANGED lockyVars

\* The services r has found idle in this step.
FoundIdle(r) == IF At(r, "verify") /\ pc'[r] = "verify" THEN pending[r] \ pending'[r] ELSE {}

NoteMissed ==
    missed' = missed \cup
      {x \in Runs \X Rotates :
         Checked(x[1]) /\ ~ Inserted(x[1]) /\ ServiceOf[x[1]] \in FoundIdle(x[2])}

ActionsInit ==
    /\ A!Init
    /\ active = ActiveServices
    /\ carried = [c \in Runs |-> {}]
    /\ missed = {}

=============================================================================
