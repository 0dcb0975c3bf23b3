------------------------------ MODULE Actiony ------------------------------
(***************************************************************************)
(* The action service: packages/actiony.  An action is a row of one table; *)
(* POST /action opens one if the parallelism of its service allows, and    *)
(* PATCH /action/{actionId} changes its status and metadata.  A handler is *)
(* one step per awaited call; the steps of different requests interleave.  *)
(***************************************************************************)
EXTENDS Integers, FiniteSets

CONSTANTS
    Services,      \* service ids a client may name
    Requests,      \* HTTP requests; each creates at most one row, whose uuid
                   \* is named after it
    Parallelism,   \* registry content: registered service -> its parallelism
    BodyStatuses,  \* statuses a PATCH body may carry
    MaxInFlight,   \* bound: requests handled at the same time
    NoAction       \* the table holds no row with this id

ClosedStatuses == {"completed", "failed", "canceled"}
Statuses == {"active"} \cup ClosedStatuses
Unset == "unset"   \* a PATCH body without a status

\* A row.  Metadata is kept as the set of requests whose keys it holds, each
\* request with keys of its own; the key closingReason written by a replacement
\* counts as the replacement's.
Action ==
    [ serviceId : Services, status : Statuses, closedAt : BOOLEAN,
      metadata : SUBSET Requests, createdAt : Nat ]

ASSUME ActionyAssumptions ==
    /\ DOMAIN Parallelism \subseteq Services
    /\ \A s \in DOMAIN Parallelism : Parallelism[s] \in {"single", "replaceable", "multiple"}
    /\ BodyStatuses \subseteq Statuses
    /\ MaxInFlight \in Nat \ {0}
    /\ NoAction \notin Action

VARIABLES
    actions,  \* the action table: row id -> row or NoAction
    clock,    \* transactions that inserted a row so far: the order of createdAt
    call,     \* per request: what was asked
    pc,       \* per request: the call its handler awaits
    target,   \* per request: the row it read and is to overwrite, or itself
    read,     \* per request: the metadata it read there
    begun,    \* per request: now() in its transaction
    answer,   \* per request: the status code
    \* history, never read by a handler:
    before,   \* per request: the rows there when it counted
    writers,  \* per row: the requests that have overwritten it
    seen      \* per request: the writers of the row it read, when it read it

locals == <<call, pc, target, read, begun, answer, before, seen>>
vars == <<actions, clock, writers, locals>>

-----------------------------------------------------------------------------
CreateCall == [kind : {"create"}, serviceId : Services, metadata : SUBSET Requests]
UpdateCall == [ kind : {"update"}, actionId : Requests, status : Statuses \cup {Unset},
                metadata : SUBSET Requests ]
NoCall == [kind |-> "none"]

Waiting == {"fetch", "count", "insert", "begin", "select", "commit", "find", "update"}
InFlight == {r \in Requests : pc[r] \in Waiting}
Answered(r, code) == pc[r] = "done" /\ answer[r] = code

Rows == {a \in Requests : actions[a] # NoAction}
Active(a) == actions[a] # NoAction /\ actions[a].status = "active"

\* findActions and countActions with {service: s, status: [active]}.
ActiveOf(s) == {a \in Rows : actions[a].serviceId = s /\ Active(a)}

\* Faulty variant: the limitation is off by one.
ExceedsLimitationByOne(s) ==
    \/ Parallelism[s] = "single" /\ Cardinality(ActiveOf(s)) > 1
    \/ Parallelism[s] = "replaceable" /\ Cardinality(ActiveOf(s)) > 2

\* parallelismToActiveLimitation, as what validateParallelism tests.
ExceedsLimitation(s) ==
    \/ Parallelism[s] = "single" /\ ActiveOf(s) # {}
    \/ Parallelism[s] = "replaceable" /\ Cardinality(ActiveOf(s)) > 1

At(r, kind, p) == call[r].kind = kind /\ pc[r] = p

Goto(r, p) ==
    /\ pc' = [pc EXCEPT ![r] = p]
    /\ UNCHANGED <<call, target, read, begun, answer, before, seen>>

Answer(r, code) ==
    /\ pc' = [pc EXCEPT ![r] = "done"]
    /\ answer' = [answer EXCEPT ![r] = code]
    /\ UNCHANGED <<call, target, read, begun, before, seen>>

\* r reads row a, which it is to overwrite.
ReadRow(r, a, p) ==
    /\ pc' = [pc EXCEPT ![r] = p]
    /\ target' = [target EXCEPT ![r] = a]
    /\ read' = [read EXCEPT ![r] = actions[a].metadata]
    /\ seen' = [seen EXCEPT ![r] = writers[a]]
    /\ UNCHANGED <<call, begun, answer, before>>

-----------------------------------------------------------------------------
\* The repository: what its writes leave in the table.
NewAction(r, createdAt) ==
    [ serviceId |-> call[r].serviceId, status |-> "active", closedAt |-> FALSE,
      metadata |-> call[r].metadata, createdAt |-> createdAt ]

\* Faulty variants: an absent status is written; only a completion is stamped.
UpdatedBlindly(row, status, metadata) ==
    [ row EXCEPT !.status = status, !.closedAt = @ \/ status \in ClosedStatuses,
                 !.metadata = metadata ]
UpdatedCompletionsOnly(row, status, metadata) ==
    [ row EXCEPT !.status = IF status = Unset THEN @ ELSE status,
                 !.closedAt = @ \/ status = "completed", !.metadata = metadata ]

\* updateOneAction: closing stamps closed_at, an absent status is left alone, and
\* the metadata column is overwritten by what the caller merged.
Updated(row, status, metadata) ==
    [ serviceId |-> row.serviceId, createdAt |-> row.createdAt, metadata |-> metadata,
      status |-> IF status = Unset THEN row.status ELSE status,
      closedAt |-> row.closedAt \/ status \in ClosedStatuses ]

Insert(r) ==
    /\ actions' = [actions EXCEPT ![r] = NewAction(r, clock)]
    /\ clock' = clock + 1
    /\ UNCHANGED writers

Overwritten(r, status, metadata) ==
    [actions EXCEPT ![target[r]] = Updated(@, status, metadata)]
Written(r) == [writers EXCEPT ![target[r]] = @ \cup {r}]

\* updateLastAndCreate commits: the row selected earlier, if any, is canceled
\* whatever it has become, and the new row is inserted, both or neither.
Replace(r) ==
    LET kept == IF target[r] = r THEN actions
                ELSE Overwritten(r, "canceled", read[r] \cup {r})
    IN  /\ actions' = [kept EXCEPT ![r] = NewAction(r, begun[r])]
        /\ writers' = IF target[r] = r THEN writers ELSE Written(r)
        /\ UNCHANGED clock

\* Faulty variant: the metadata of the body replaces the stored one.
UpdateOverwrites(r) ==
    /\ actions' = Overwritten(r, call[r].status, call[r].metadata)
    /\ writers' = Written(r)
    /\ UNCHANGED clock

Update(r) ==
    /\ actions' = Overwritten(r, call[r].status, read[r] \cup call[r].metadata)
    /\ writers' = Written(r)
    /\ UNCHANGED clock

NoWrite == UNCHANGED <<actions, clock, writers>>

-----------------------------------------------------------------------------
\* A request arrives.
Receive(r, p, c) ==
    /\ pc[r] = "idle"
    /\ Cardinality(InFlight) < MaxInFlight
    /\ pc' = [pc EXCEPT ![r] = p]
    /\ call' = [call EXCEPT ![r] = c]
    /\ UNCHANGED <<target, read, begun, answer, before, seen>>
    /\ NoWrite

PostAction(r, s, m) ==
    Receive(r, "fetch", [kind |-> "create", serviceId |-> s, metadata |-> m])

\* Any row's id is known through GET /action; r itself is an id no row has.
PatchAction(r, a, st, m) ==
    /\ a \in Rows \cup {r}
    /\ st # Unset \/ m # {}
    /\ Receive(r, "find", [kind |-> "update", actionId |-> a, status |-> st, metadata |-> m])

-----------------------------------------------------------------------------
\* POST /action
CreateFetch(r) ==
    /\ At(r, "create", "fetch")
    /\ LET s == call[r].serviceId IN
         \/ s \notin DOMAIN Parallelism /\ Answer(r, 404)
         \/ s \in DOMAIN Parallelism /\ Parallelism[s] = "multiple" /\ Goto(r, "insert")
         \/ s \in DOMAIN Parallelism /\ Parallelism[s] # "multiple" /\ Goto(r, "count")
    /\ NoWrite

PassCount(r, p) ==
    /\ pc' = [pc EXCEPT ![r] = p]
    /\ before' = [before EXCEPT ![r] = Rows]
    /\ UNCHANGED <<call, target, read, begun, answer, seen>>

\* Faulty variant: a create that exceeds the limitation is tried again.
CreateCountRetries(r) ==
    /\ At(r, "create", "count")
    /\ LET s == call[r].serviceId IN
         \/ ExceedsLimitation(s) /\ Goto(r, "fetch")
         \/ /\ ~ ExceedsLimitation(s)
            /\ PassCount(r, IF Parallelism[s] = "single" THEN "insert" ELSE "begin")
    /\ NoWrite

CreateCount(r) ==
    /\ At(r, "create", "count")
    /\ LET s == call[r].serviceId IN
         \/ ExceedsLimitation(s) /\ Answer(r, 409)
         \/ /\ ~ ExceedsLimitation(s)
            /\ PassCount(r, IF Parallelism[s] = "single" THEN "insert" ELSE "begin")
    /\ NoWrite

CreateInsert(r) ==
    /\ At(r, "create", "insert")
    /\ Insert(r)
    /\ Answer(r, 201)

\* BEGIN fixes now(), hence created_at.
ReplaceBegin(r) ==
    /\ At(r, "create", "begin")
    /\ pc' = [pc EXCEPT ![r] = "select"]
    /\ begun' = [begun EXCEPT ![r] = clock]
    /\ clock' = clock + 1
    /\ UNCHANGED <<actions, writers, call, target, read, answer, before, seen>>

Latest(S) == CHOOSE a \in S : \A b \in S : actions[b].createdAt <= actions[a].createdAt

\* Faulty variant: the last active action is canceled outside the transaction.
ReplaceSelectAutocommits(r) ==
    /\ At(r, "create", "select")
    /\ LET found == ActiveOf(call[r].serviceId) IN
         IF found = {} THEN NoWrite
         ELSE /\ actions' = [actions EXCEPT ![Latest(found)] =
                               Updated(@, "canceled", @.metadata \cup {r})]
              /\ UNCHANGED <<clock, writers>>
    /\ Goto(r, "commit")

\* SELECT ... ORDER BY created_at DESC LIMIT 1
ReplaceSelect(r) ==
    /\ At(r, "create", "select")
    /\ LET found == ActiveOf(call[r].serviceId) IN
         \/ found = {} /\ Goto(r, "commit")
         \/ found # {} /\ ReadRow(r, Latest(found), "commit")
    /\ NoWrite

\* UPDATE, INSERT, COMMIT: nobody sees the first two before the third.
ReplaceCommit(r) ==
    /\ At(r, "create", "commit")
    /\ Replace(r)
    /\ Answer(r, 201)

-----------------------------------------------------------------------------
\* PATCH /action/{actionId}
\* Faulty variant: closed actions are not refused.
UpdateFindAnyStatus(r) ==
    /\ At(r, "update", "find")
    /\ LET a == call[r].actionId IN
         \/ actions[a] = NoAction /\ Answer(r, 404)
         \/ actions[a] # NoAction /\ ReadRow(r, a, "update")
    /\ NoWrite

UpdateFind(r) ==
    /\ At(r, "update", "find")
    /\ LET a == call[r].actionId IN
         \/ actions[a] = NoAction /\ Answer(r, 404)
         \/ actions[a] # NoAction /\ actions[a].status \in ClosedStatuses /\ Answer(r, 409)
         \/ /\ actions[a] # NoAction /\ actions[a].status \notin ClosedStatuses
            /\ ReadRow(r, a, "update")
    /\ NoWrite

UpdateWrite(r) ==
    /\ At(r, "update", "update")
    /\ Update(r)
    /\ Answer(r, 200)

-----------------------------------------------------------------------------
\* An awaited call rejects.  A write whose answer is lost may be committed; an
\* open transaction is rolled back.
ReadRejects(r) ==
    /\ pc[r] \in {"fetch", "count", "begin", "select", "find"}
    /\ Answer(r, 500)
    /\ NoWrite

WriteRejects(r) ==
    /\ \/ At(r, "create", "insert") /\ (Insert(r) \/ NoWrite)
       \/ At(r, "create", "commit") /\ (Replace(r) \/ NoWrite)
       \/ At(r, "update", "update") /\ (Update(r) \/ NoWrite)
    /\ Answer(r, 500)

\* The process that handles r dies; its transaction, if any, is rolled back.
Crash(r) ==
    /\ pc[r] \in Waiting
    /\ Goto(r, "dropped")
    /\ NoWrite

-----------------------------------------------------------------------------
Arrive(r) ==
    \/ \E s \in Services, m \in SUBSET {r} : PostAction(r, s, m)
    \/ \E a \in Requests, st \in BodyStatuses \cup {Unset}, m \in SUBSET {r} :
         PatchAction(r, a, st, m)

\* What the handler of r does next when the call it awaits settles.
Step(r) ==
    \/ CreateFetch(r) \/ CreateCount(r) \/ CreateInsert(r)
    \/ ReplaceBegin(r) \/ ReplaceSelect(r) \/ ReplaceCommit(r)
    \/ UpdateFind(r) \/ UpdateWrite(r)
    \/ ReadRejects(r) \/ WriteRejects(r)

Init ==
    /\ actions = [r \in Requests |-> NoAction]
    /\ clock = 0
    /\ call = [r \in Requests |-> NoCall]
    /\ pc = [r \in Requests |-> "idle"]
    /\ target = [r \in Requests |-> r]
    /\ read = [r \in Requests |-> {}]
    /\ begun = [r \in Requests |-> 0]
    /\ answer = [r \in Requests |-> 0]
    /\ before = [r \in Requests |-> {}]
    /\ writers = [r \in Requests |-> {}]
    /\ seen = [r \in Requests |-> {}]

Next == \E r \in Requests : Arrive(r) \/ Step(r) \/ Crash(r)

Spec == Init /\ [][Next]_vars

\* Every awaited call settles, one way or the other.
FairSpec == Spec /\ \A r \in Requests : WF_vars(Step(r))

-----------------------------------------------------------------------------
\* Types of the table and of the requests.
TypeOK ==
    /\ actions \in [Requests -> Action \cup {NoAction}]
    /\ clock \in Nat
    /\ call \in [Requests -> CreateCall \cup UpdateCall \cup {NoCall}]
    /\ pc \in [Requests -> Waiting \cup {"idle", "done", "dropped"}]
    /\ target \in [Requests -> Requests]
    /\ read \in [Requests -> SUBSET Requests]
    /\ begun \in [Requests -> Nat]
    /\ answer \in [Requests -> {0, 200, 201, 404, 409, 500}]
    /\ before \in [Requests -> SUBSET Requests]
    /\ writers \in [Requests -> SUBSET Requests]
    /\ seen \in [Requests -> SUBSET Requests]

Limited(s) == s \in DOMAIN Parallelism /\ Parallelism[s] \in {"single", "replaceable"}

\* Two creates of a service raced if neither had its row there when the other
\* counted.
Raced(c, d) ==
    /\ c # d /\ actions[c] # NoAction /\ actions[d] # NoAction
    /\ actions[c].serviceId = actions[d].serviceId
    /\ c \notin before[d] /\ d \notin before[c]

\* When no PATCH reopens an action, a service of single or replaceable
\* parallelism has two active actions only after two of its creates raced:
\* counting first and canceling the latest active action is enough otherwise.
TwoActiveNeedARace ==
    \A s \in Services :
        Limited(s) /\ Cardinality(ActiveOf(s)) > 1 =>
            \E c, d \in Rows : Raced(c, d) /\ actions[c].serviceId = s

\* Closed actions stay as they are: the status given when an action was closed
\* is final, as action.spec.ts says of the refused PATCH.  The handler reads the
\* row before it overwrites it, so this is what TLC refutes.
ClosedIsFinal ==
    [][\A a \in Rows : ~ Active(a) => actions'[a].status = actions[a].status]_vars

\* Two requests crossed if both have overwritten the same row, and each had read
\* it before the other wrote.
Crossed(u, w) ==
    /\ u # w /\ target[u] = target[w]
    /\ {u, w} \subseteq writers[target[u]]
    /\ u \notin seen[w] /\ w \notin seen[u]

\* Metadata a client was told is stored is dropped from the action only by a
\* request that crossed the one that stored it: never by a later PATCH, by the
\* cancellation of the action, or by a third writer that had read it; and the
\* metadata an action was created with is never dropped.
MetadataLostByCrossing ==
    \A u \in Requests :
        /\ Answered(u, 201) => call[u].metadata \subseteq actions[u].metadata
        /\ Answered(u, 200) =>
             \/ call[u].metadata \subseteq actions[call[u].actionId].metadata
             \/ \E w \in Requests : Crossed(u, w)

\* The request closes the row it overwrites, with this status.
Closes(u) == target[u] # u /\ (call[u].kind = "update" => call[u].status \in ClosedStatuses)
ClosesAs(u) == IF call[u].kind = "update" THEN call[u].status ELSE "canceled"

\* An action whose closing a client was told of, by its own PATCH or by the create
\* that replaced it, keeps the status it was closed with unless the request that
\* closed it crossed another: no succession of requests, answered or lost, changes
\* or reopens it.
ClosingUndoneByCrossing ==
    \A u \in Requests :
        (Answered(u, 200) \/ Answered(u, 201)) /\ Closes(u) =>
            \/ actions[target[u]].status = ClosesAs(u)
            \/ \E w \in Requests : Crossed(u, w)

\* A closed action has a closing time, whichever writer closed it last.
ClosedHasTime ==
    \A a \in Rows : actions[a].status \in ClosedStatuses => actions[a].closedAt

\* An action says it was canceled by the parallelism rules only if the action
\* that replaced it exists: a failure or a crash between the two writes of
\* updateLastAndCreate never closes an action for nothing.
CanceledForAReplacement ==
    \A a \in Rows : \A r \in actions[a].metadata :
        call[r].kind = "create" => actions[r] # NoAction

\* Every request is answered unless the process that handles it dies: as each is
\* handled once, there is always a time when none is left in flight.
RequestsAnswered == []<>(InFlight = {})

=============================================================================
