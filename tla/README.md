# Arstotzka verification

TLA+ models of the three services of arstotzka (`locky`, `actiony`, `registry`), of the
clients that use them through the mediator, and of the namespace seeder, alone and composed;
the TLC configurations that check them; and TLAPS proofs about all of them. Paths below are
relative to the root of the repository.

Run a configuration with `tlc -config MCLockyRaces.cfg MCLocky` and the proofs with
`tlapm LockyProofs.tla` (likewise `ActionyProofs`, `RegistryProofs`, `RegistryRacesProofs`,
`RegistryActionsProofs`, `SeederProofs`, `ArstotzkaProofs`, `ArstotzkaMemoryProofs`).

## 1. The system

| component | state | operations | talks to |
|---|---|---|---|
| `locky` (packages/locky) | table `lock` (services, `expires_at` or NULL) | `POST /lock`, `DELETE /lock/{id}`, `POST /lock/reserve` | registry (`fetchService`), actiony and mapped services (`filterActions`) |
| `actiony` (packages/actiony) | table `action` (service, status, metadata, `created_at`, `closed_at`) | `POST /action`, `PATCH /action/{id}`, `GET /action` | registry (`fetchService`) |
| `registry` (packages/registry) | tables `namespace`, `service` (a tree, with its closure table), `rotation`, `block` | `GET /service/{id}`, `POST /service/{id}/rotate` | locky (`createLock`, `removeLock`), actiony (`filterActions`) |
| namespace seeder (packages/registry/db/seeds) | one transaction on the registry's tables | create, modify or delete a namespace | - |
| mediator (packages/mediator) | per instance of `StatefulMediator`: `lockId` and `actionId` | the HTTP calls above, with `axios-retry` when enabled | all three |
| service of the ecosystem | its run | reserve access, create an action, remove the lock, close the action (README.md:25-35) | locky, actiony through the mediator |
| common (packages/common) | - | entity types and error classes | - |
| start-up, DI, configuration, tracing, helm, CI | - | wiring only | - |

The processes are stateless: all state is in PostgreSQL. No handler uses a mutex, and only
two use a transaction (`updateLastAndCreate` of actiony, and the seeder). So a handler is a
sequence of *awaited calls*, and between any two of them every other request, of the same
replica or of another one, may run, locks may expire, and the process may die. That is where
everything difficult in this code is:

- *Check, then act.* `LockManager.lock` and `.reserve` look for nonexpired locks and insert
  theirs later (lockManager.ts:23/30, 56/73); `createAction` counts, then inserts
  (actionManager.ts:42/56); `updateAction` reads the status and metadata, then writes by id
  alone (70/84); `createServiceRotation` reads the current rotations, then inserts their
  successors (serviceRepository.ts:64/84).
- *Partial failure.* A row is inserted before the blockees are checked and has to be taken
  back (lockManager.ts:103); the rotation's INSERT is outside the try block that would remove
  the lock (serviceManager.ts:99); a rollback can itself fail.
- *Parallel answers.* `Promise.all` over `filterActions`: answers arrive in any order and the
  first rejection wins.
- *Lost and repeated calls.* A write whose answer is lost may have been committed; the
  mediator may send a call again: a network error on any method, a 5xx on idempotent methods
  (`axios-retry`'s default condition).
- *Time.* Locks expire by themselves, maybe while their owner is still about to act.
- *Memory.* An instance of `StatefulMediator` remembers one lock and one action. Its calls may
  overlap, be lost, or be sent again while the first attempt is still handled, and its next
  run meets what the last one left behind (statefulMediator.ts:22-40).
- *Reading twice.* A rotation reads the tree once to lock and check it and once more to rotate
  it (serviceRepository.ts:41 and 61); the seeder changes the tree in a transaction and takes
  no lock of locky; an action carries a rotation that was read before its INSERT.

What makes each component correct:

- *locky*: no lock in force is overlooked; mutual blockers are not both admitted; a refusal
  blocks nobody; an abandoned reservation ends; a lock begins once and its end is final.
- *actiony*: the parallelism of a service is respected; closing is final; metadata
  accumulates; a replacement cancels and creates, or neither.
- *registry*: the rotations of a tree stay in step; a service with an active action is never
  rotated under its feet; the tree is not left locked.
- *seeder*: what is committed is whole, in step and as asked; the seed ends.
- *mediator*: a client can remove the lock and close the action it was told about.
- *together*: a blocker and its blockee are not active at the same time; an open action keeps
  its rotation.

`PROJECT.json` lists under `hazards` each place in the code where one of these could go
wrong, and the properties that look at it.

## 2. The modules

### Locky - `packages/locky`
State: `locks` is the table. A row keeps the set of services and, in place of
`expires_at`, the time left (`ttl`; `Never` for NULL): "expires_at > now or NULL" is
`ttl # 0`. `Tick` is `LOCALTIMESTAMP` moving on. The other variables are, per request, the
locals of its handler; `pc[r]` names the call it awaits. An action is what runs between two
awaited calls: `LockCheck`/`LockInsert`, `UnlockFind`/`UnlockDelete`, `ReserveCheck`/
`ReserveFetch`/`ReserveInsert`/`ReserveVerify` (one per blockee and answer)/`ReserveGrant` or
`ReserveRollback`. `ReadRejects`, `VerifyRejects`, `InsertRejects`, `DeleteRejects` are the
rejections of each call (for a write: applied or not), and `Crash` the death of the process.
The row of a request is named after the request, which stands for the uuid. `before` is a
history variable that no action reads: the rows that were in the table when the request was
checked. What the registry answers (`Blockees`) is a constant; what actiony answers
(`active`) is a variable that changes at will, or is computed from actiony in `Arstotzka`.

### Leases - the promise of a lock
The abstract specification: each lock is unused, then held at most once, then over.
`Locky!ImplementsLeases` says that Locky implements it under the mapping `lease`: held is
"the row is there and not expired".

### Actiony - `packages/actiony`
State: `actions` is the table; metadata is the set of requests that contributed to it,
`clock` orders `created_at`, which in `updateLastAndCreate` is the time its transaction
*began*. Actions as above: `CreateFetch`, `CreateCount`, `CreateInsert`, and for a
replaceable service `ReplaceBegin`, `ReplaceSelect`, `ReplaceCommit` (READ COMMITTED: the
UPDATE and INSERT become visible together, the row that was selected is overwritten whatever
it has become since); `UpdateFind`, `UpdateWrite`; rejections and crashes. A rejected or
crashed transaction is rolled back. Three history variables are read by no handler: `before`, as
in Locky; `writers`, the requests that have overwritten a row; and `seen`, the writers the row had
when a request read it.

### Arstotzka - `packages/mediator`, with locky and actiony behind it
Composes an instance of Locky and one of Actiony with instances of `StatefulMediator`
(`Clients`); `Locky!active` is the set of services with an active row in Actiony's table.
Per instance: `lockId` and `actionId`, and `calls`, the calls it made with their attempt and
outcome. `ReserveAccess`, `RemoveLock`, `CreateAction`, `UpdateAction` call a method,
`ReserveResolves`, `RemoveResolves`, `CreateResolves`, `UpdateResolves` assign what it answers,
`Refused` and `GivesUp` (a timeout: the server carries on) reject it and change nothing, and
`SendAgain` is the retry of `axios-retry`, while the first attempt may still be handled. A
service acts only after an access was granted, as README.md:25-35 asks; beyond that, which
methods an instance may call n-th, the retries and how many calls it awaits at once are a
*scenario*: a constant `Scenarios` lists those that TLC looks at, and the theorems hold for
all. `late` (actions inserted with no granted lock of their instance in force) and `overlaps`
(calls awaited together) are history variables that no action reads.

### Registry - `POST /service/{id}/rotate`
Composes the handler with an instance of Locky, which it calls through the mediator.
State: the `rotation` table as a set (its two unique indexes are what makes it one), the
service table as `parent` (service to parent), and the locals of each request. `RotateFind`,
`RotateDescendants` (sends `POST /lock`), `RotateLocked`, `RotateVerify` per descendant, `Throw`
(sends `DELETE /lock`), `RotateVerified`, `RotateTree` (the second read of the tree),
`RotateCurrent`, `RotateInsert`, `RotateUnlocked`. `SendAgain` is the mediator's retry,
`CallRejects` a call that times out while locky carries on with it. `Trees` are the trees that
may be seeded; by itself this module leaves the tree alone. `Descendants` is the closure table,
written as a least fixed point over sets rather than a recursion.

### Reseed - a seed while services are rotated
Extends Registry by one transaction of the seeder, statement by statement (`SeedDelete`,
`SeedReadParent`, `SeedSave`, `SeedCommit`, `StatementRejects`): at READ COMMITTED it reads what
rotations have committed and shows its own writes at its commit; deletions cascade to
rotations; the INSERT of a rotation waits while its service is deleted by the open transaction
(`InsertWaits`). The history `late` and `behind` name services that a rotation in progress had
not seen when it read the tree, or passes by.

### RotatedActions - services that act while they are rotated
Extends Registry by runs of services that reserve access from the same locky, open an action
and close it, with an instance of Actiony. `carried` is the rotation stored with the action,
as fetched from the registry before the INSERT. The history `missed` holds the pairs of a run
and a rotation whose check fell between the run's own check and its INSERT.

### RegistryRaces
Composes Reseed and RotatedActions; `active` of Registry is read from Actiony's table. A
scenario says which tree, rotations, seeds and runs take part. The history `overtaken` holds
the pairs of rotations of which the first inserted when the second had read the current
rotations and was about to insert, too.

### Seeder - `db/seeds/namespaceSeeder.ts`
One transaction, one action per iteration of its loops: creation in passes until nothing is
left; or deletions, creations, updates and blocks; or the deletion of a namespace. `tree` gives
each service of the namespace its parent, its current rotation, and the attributes an update
has overwritten; `remaining` is the counter of that name; `found` is what was there before.

### MC modules
`MCLocky`, `MCActiony`, `MCArstotzka`, `MCRegistry`, `MCRegistryRaces`, `MCSeeder` define the
constants' values.
Definitions commented "Faulty variant" in the models are not part of any specification: each
is a plausible bug of the definition that follows it, and is there to see that a property
notices it when it takes that definition's place (`mutants` in `PROJECT.json`).

## 3. What is checked

Every run lets the system stop (`CHECK_DEADLOCK FALSE`): each request is handled once, so
a state where all are answered is final. Bounds are the number of requests, `MaxInFlight`
(requests handled at the same time) and, for expirations, one clock tick; the clock is a
countdown and adds no bound of its own.

| run | instance | shows |
|---|---|---|
| MCLockyRaces | 3 requests of any kind, all concurrent, 2 services that block each other, locks that never expire and reservations | `NoOverlookedLock`, `ConflictingGrantsRaced`, `GrantedLockKept`, `ReleasedStaysReleased` |
| MCLockyLive | 2 requests, concurrent; a service with two blockees, one that blocks nobody, an unregistered one; fairness | `TypeOK`, `RefusalLeavesNoRow`, `ImplementsLeases`, `RequestsAnswered`, `AbandonedReserveExpires`, `BusyBlockeeRefuses` |
| MCActionyRaces | 3 concurrent requests, a service of each parallelism and an unregistered one, PATCH to completed; fairness (1 million states, 2-3 minutes) | `TypeOK`, `TwoActiveNeedARace`, `CanceledForAReplacement`, `ClosedHasTime`, `MetadataLostByCrossing`, `ClosingUndoneByCrossing`, `RequestsAnswered` |
| MCArstotzkaConflicts | 2 instances of services that block each other, the documented flow (reserve, create, then remove the lock or close), 2 requests in flight at each server; or 1 instance: 3 reservations and removals, 2 awaited at once; 1 reservation and 2 removals with a retry; a reservation and actions; a create, then 2 creates or closes awaited together; 3 creates and closes with a retry (1.19 million states, 2-3 minutes) | `TypeOK`, `ConflictIsRaceOrLate`, `NoLockForgotten`, `NotFoundIsOwnRemoval`, `OpenActionIsHeld`, `OwnLeftoversAdmit` |
| MCRegistryRaces | 2 rotations of a parent or its child; or 1 rotation of a tree of depth 3 while any of 4 seeds adds, replaces or deletes services; or 1 rotation, 1 seed and 1 run of a service; 1-tick lock (0.4 million states, 1 minute) | `TreeInStep`, `BumpsNumberedApart`, `RotatedWasLocked`, `RotatedWhole`, `OpenActionKeepsRotation` |
| MCRegistryRetries | 1 rotation of a parent, its child or an unknown service, 1 retry, all its calls of locky possibly in flight together; fairness (2-3 minutes) | `TypeOK`, `AnsweredWithoutLock`, `BusyServiceNotRotated`, `TreeUnlocked` |
| MCSeeder | 3 services: every forest in every order; two modifications of any kind on every forest; fairness (1 minute) | `TypeOK`, `CommittedTreeInStep`, `CreatedWhole`, `ModifiedAsAsked`, `SeedEnds` |

Why the bounds are enough for what they are meant to show: a check-then-act race needs two
requests and a third to disturb it (a DELETE, an expiry or another grant); two rows that
conflict, and one more to be found or overlooked, are three requests. In
MCActionyRaces the three may be a create and two writers that cross each other; a third
writer, who has read the row in between, is for the theorems. The retry run has two
POSTs and two DELETEs of one rotation in flight. In the seeder, three services are the first
case with a grandchild, which deletion and ordering are about. The scenarios of Arstotzka and
RegistryRaces are the smallest in which each kind of event meets the other: a removal that
overlaps a reservation, a removal sent again, an action whose answer is lost, a leftover of an
earlier run; a seed and a rotation, a run and a rotation. What they leave out, several of these
at once, is for the proofs.

Some properties deserve a word:

- `ConflictingGrantsRaced` and `ConflictIsRaceOrLate` are what remains true of the promise
  "a blocker and its blockee are not active together" when requests are concurrent: they
  pin the failure to one window, between a request's check and its INSERT (each
  was checked before the other's row was there), or to an action that comes after the locks of
  its instance have ended. The promise itself, `NoConflict`, is violated (below).
- `NoLockForgotten` excuses the one way an instance loses the id of its lock: a `removeLock`
  that is awaited together with a `reserveAccess` clears whatever id is there when it resolves
  (statefulMediator.ts:31). `NotFoundIsOwnRemoval` supports the TODO next to it
  (statefulMediator.ts:29): a 404 always answers for a lock the instance removed itself.
- `OpenActionIsHeld` is about services of single parallelism. A `POST /action` whose answer is
  lost and that is sent again is refused because of the action of its own first attempt; that
  action is open and the instance does not know its id. The property says that an id
  the instance was told is never exchanged for another while its action is open. It excuses two
  `createAction` that the instance awaited together: the count of one may pass before the INSERT
  of the other, both succeed, and only one id is remembered.
- `OwnLeftoversAdmit`: lost answers leave locks behind that nobody removes; they lock others,
  never the service itself.
- `TwoActiveNeedARace` is what remains of parallelism: two creates may both count before either
  inserts, since nothing in the code keeps them apart, but the limit is exceeded in no other way. A
  replaceable service may hold two active actions after a race, and the next replacement cancels
  only the latest of them.
- `TreeInStep` and `BumpsNumberedApart` allow for two rotations of which one inserted what the
  other was about to replace (`Overlapped`), and only where their locks could not keep them apart:
  neither row was there at the other's check, a lock ended before the INSERT, or what the trees
  share was added after a lock had been asked for. The excuse is local: a service is out of step
  with its parent only if two such rotations were both for it, or both for its parent
  (`Contended`), and two rotations of one number are of a service two such rotations were for. A
  pair that overlapped elsewhere in the tree excuses nothing. `TreeInStep` also allows for services
  that a seed adds while a rotation of their parent is under way (`behind`): the seeder takes no
  lock. What these two leave open is what MCRegistryBumps finds (below). With the two rotations
  that TLC looks at `TreeInStep` holds even without `Contended`; that excuse is for more of
  them, which only the theorem covers.
- `RotatedWasLocked` excuses services that were added between the two reads of the tree
  (serviceRepository.ts:41 and 61): they are rotated without having been locked or checked.
- `OpenActionKeepsRotation` is about services that a seed has not deleted. It excuses a rotation
  that checked a service between the check of the service's reservation and the INSERT of its
  action (`missed`), or that outlived its lock. In that case a service is rotated while it is active.
- `AnsweredWithoutLock` says nothing of a rotate answered by 500, and `TreeUnlocked` shows
  why that is tolerable: whatever is left expires.
- `MetadataLostByCrossing` and `ClosingUndoneByCrossing` say what becomes of an update once it
  was answered with success, whatever is in flight. Two requests *crossed* (`Crossed`) if both
  overwrote an action and each had read it before the other wrote. Only the write of a
  request that crossed another may be lost: a writer that read the action afterwards carries its
  metadata on, even if a third request writes in between, and finds a closed action closed. That
  a crossing does undo a closing is a finding below.

### Runs that find a violation
| run | what it shows |
|---|---|
| MCActionyCloseRace | `ClosedIsFinal`: a PATCH or a replacement that read an action before another request closed it overwrites the closed status and answers 200/201 (actionManager.ts:84), where action.spec.ts:719 expects 409 |
| MCArstotzkaOneWay | `AccessIsValidated`: when only one of two services is configured to block the other, the blockee is granted access while its blocker is active (lockManager.ts:67 and 81 look only at the service's own blockees), where README.md:31 says that active *blocking* services are validated |
| MCArstotzkaRace | `NoConflict`: two mutual blockers reserve together, both checks pass before either INSERT (lockManager.ts:56/73), and both act, which the locks were introduced to prevent (README.md:17) |
| MCRegistryBumps | `BumpsAreWhole`: a seed adds a child with the parent rotation it read before a rotate replaced it (namespaceSeeder.ts:185), or after the rotate read the tree, so that the bump of the parent does not reach it, where README.md:20 says that it bumps all descendants. The property also refuses two bumps that give a service the same number, as two rotates do whose locks were checked before either was inserted (lockManager.ts:23/30); TLC's shortest counterexample is the seed |
| MCSeederDuplicate | `SeedEnds`: a service named twice in a `create` list is skipped without being counted (namespaceSeeder.ts:102), so the `while` loop never ends; README.md:108 says that the second one is ignored |

### Fairness
`FairSpec` of Locky, Actiony and Registry has weak fairness on the steps of each request:
an awaited call settles, because the client and the database driver time out or reject, and
node then runs the continuation. It has none on the arrival of requests, on crashes, on what
other services do, nor on *which* way a call settles. Locky's clock is fair: time passes.
In Registry, weak fairness on locky as a whole is enough, since each request of the bounded
number takes finitely many steps. The seeder is fair as long as its statements settle.
Arstotzka and RegistryRaces have no fairness: everything said about them is safety.

## 4. What is proved

`LockyProofs` proves, with TLAPS and for *every* set of services and requests, any registry
content, any lock bodies, any expiration and any number of requests in flight, under
`LockyAssumptions` alone:

- `TypeCorrect`: `Spec => []TypeOK`.
- `InductiveInvariant`: `Spec => []IInv`.
- `NoLockOverlooked`: `Spec => []NoOverlookedLock`.
- `ConflictsAreRaces`: `Spec => []ConflictingGrantsRaced`.

`NoOverlookedLock` is not inductive: to see that no row found at a check can come (back)
into force one has to know that all of them were already inserted. `IInv` adds
`BeforeIsPast` (a row in `before[r]` belongs to a request that is past its INSERT),
`RowsHaveOwners` (a row is only there past that INSERT) and `KindsAgree` (no handler of a
DELETE reaches an INSERT). `RowsListBlockees` (a reservation's row lists the
blockees of the reserving service) is what leads from there to `ConflictingGrantsRaced`: if
`s` and `t` block each other, the row of each lists the other, so a request that had found it
would have been refused. The proof does not go through the fifteen handler steps for each
conjunct: `StepShape` says once what a step can do to the table and to its own locals
(`Shape`), and `ShapeKeepsIInv` shows that anything of that shape keeps the invariant.

Its second half proves, under the same assumptions, who may remove a row:

- `RefusalsLeaveNoRow`, `GrantedLocksKept`, `ReleasedLocksGone`: `Spec => []` of
  `RefusalLeavesNoRow`, `GrantedLockKept` and `ReleasedStaysReleased`.

The three are proved together, as `RowInv`: a DELETE names a lock the client was told about
(`UnlocksGranted`), so nobody deletes a row while its reservation is being verified
(`VerifiedHasRow`), and a rollback only follows a refusal (`RollbackRefuses`). Again one
lemma, `StepMoves`, sorts the steps by what they do to a row (`Advance`, `MakeRow`,
`GiveUpRow`, `KeepRow`, `TakeBack`, `LookUp`, `Remove`), and the rest is about those.

It also proves `BusyKeepsOut`: `Spec => BusyBlockeeRefuses`. While a blockee `b` is
active, a reservation of a service that blocks it has its answer outstanding from the time its
row exists (`KeptOut`), so that it is never granted; `[](b \in active)` makes this inductive.

Last, `LeasesImplemented`: `Spec => ImplementsLeases`, that is, Locky implements `Leases` under
the mapping `lease`. A move of one handler changes the lease of one lock at most, in one of the
three ways `Leases` knows (`OneLeaseSteps`); the clock ends several at once, which is why
`Leases!End` takes a set.

`ActionyProofs` proves, from `ActionyAssumptions` alone:

- `TypeCorrect`: `Spec => []TypeOK`. A handler overwrites a row it read earlier, so the types
  hold only together with `TargetsExist` (that row is still there) and `KindsAgree`; with
  `TimesPassed` (no row is newer than the clock) they make up `TInv`.
- `ClosedActionsHaveTime`: `Spec => []ClosedHasTime`.
- `ReplacedTogether`: `Spec => []CanceledForAReplacement`, through `MetadataOwned`: what a
  handler has read of the metadata, and may write back much later, also belongs to requests
  whose row is there.

The same module proves `ExceededOnlyByRaces`: `Spec => []TwoActiveNeedARace` provided
"active" is not among the statuses of a PATCH (a PATCH to active reopens an action without any
count). The argument follows a create through its awaited calls: when it counts, it sees no
active action of a single service and at most one of a replaceable service (`FoundNone`,
`FoundOne`); actions are not reopened, so when a replacement selects, the latest active action
is that one or one it has not seen (`Selected`); and in the latter case the two raced
(`Witnessed`). This uses that the latest of some rows exists (`LatestIsOne`, from
the well-foundedness of the naturals) and that finitely many rows are there at any time, which
is part of the invariant: `Requests` may be infinite.

What becomes of an update is proved for any number of requests in flight, too:

- `MetadataLostOnlyByCrossing`: `Spec => []MetadataLostByCrossing`.
- `ClosingsUndoneOnlyByCrossing`: `Spec => []ClosingUndoneByCrossing`.

The invariant is `WInv`. `WritesLast` is the heart of it: what a writer that crossed nobody has
stored is still in the row. For that to survive a write, whoever is about to overwrite a row
either has not seen the earlier writer, and crosses it as soon as it writes, or read the row after it,
and then carries its metadata on and has not read it closed (`ReadersCarryOn`; a handler goes on
only when it has read an open action). `CreatedWith` says the same of the metadata of the
create, which precedes every read. That writers have ended and are written where their
target is (`WritersEnded`) and that a success comes after the write (`AnswersWritten`) leads from
there to the two properties.

`RegistryProofs`, for all trees, rotations, retries and expirations, under
`RegistryAssumptions`:

- `TypeCorrect`: `Spec => []TypeOK`. That the parent rotation of a new row is typed needs two
  more facts, together `TInv`: a rotation has no parent rotation exactly where its service has
  no parent (`Matched`), and what a rotation has read of the table is there and is of its own
  tree (`Reading`). That the current rotation of a service exists (`CurrentIsOne`) follows from
  a bound on the numbers in the table (`Bounded`), since `Rotates` may be infinite.
- `ActiveLeftAlone`: `Spec => BusyServiceNotRotated`, by way of `Untouched`: while a service is
  active its rotations stay as they are, because it is pending until it answers.
- `LockRemoved`: `Spec => []AnsweredWithoutLock`. A rotation knows the attempt whose answer it
  takes and the lock it was given (`Asked`), and `RowInv` of Locky does the rest.
- `RotatesUseLocky`: `Spec => P!Spec`, that is, a behaviour of Registry is one of Locky: every
  theorem of Locky holds of its locks.

`RegistryRacesProofs`, for all trees, rotations, seeds and runs at the same time, under the
assumptions of the modules it composes and of RegistryRaces: trees are forests, a seed creates
what is not there yet, and runs are of services of the tree:

- `NothingRotatedUnlocked`: `RacesSpec => []RotatedWasLocked`.
- `LockedWasRotated`: `RacesSpec => []RotatedWhole`.

Both follow from `RInv`. `SeedOK` says what an open transaction has read and written, statement
by statement (`Writing`, `Saving`), and that a tree that changes stays a forest (`Forest`), so
that a service is never below itself; `RowsOK` bounds the numbers of rotations, so that the
current one exists. `Knows` is what a rotate may rely on although a seed commits between any two
of its reads: what it has read of the tree it locked, or it is in `late`, and what it locked
and is still there is below its service. What it read of the table is there or deleted with its
service (`Read`), and what it was to move has moved (`Moved`); `Lineage`, that the first rotation of
a service sorts last, makes the moved one the current one.

`RegistryActionsProofs`, from the same assumptions and those of Actiony, for any number of runs:

- `OpenActionsKeepRotation`: `RacesSpec => []OpenActionKeepsRotation`.
- `RunsUseActiony`: `RacesSpec => Q!Spec`, that is, a behaviour of RegistryRaces is one of Actiony
  and every theorem of Actiony holds of the actions of runs.
- `RunsUseLocky`: `RacesSpec => P!Spec`, likewise for Locky and the table that rotates and runs
  share. Locky lets services become active and idle one by one; that a step of actiony changes one
  service only needs `ReplacesItsService`, that a replacement cancels an action of its own service.
- `TreeStaysInStep`: `RacesSpec => []TreeInStep`.
- `BumpsAreNumberedApart`: `RacesSpec => []BumpsNumberedApart`.

Three invariants lead to the first three, each proved from the earlier ones and `RInv`. `SentInv` is what locky
was sent: the table is shared by rotates and runs, every row of a rotate lists the services it
locked, and its removal is asked for only when the rotate is through (`Sent`); so the lock of a
rotate that checks or inserts is in the table (`LockStands`) and no reservation of what it locked
passes its check until it has expired (`ExpiryStays`). `ActsInv` is what actiony was sent: an
action is created by an admitted run, and its row comes after the rotation was fetched. `OpenInv`
relates a rotate to a run: when it has found the service of the run idle, the action was already
closed, the run had not passed its check, it was missed, or the lock has expired (`Watched`); hence
by the time it inserts, no run between its fetch and the end of its action is touched unless the
rotate slipped past it (`Keeps`). A seed changes neither: a run's service is there from the start
(`Early`, `SeedKeepsRotation`).

The tree stays in step, and bumps are numbered apart, by `StepInv`, which also rests on `SentInv`.
What a rotate has read of a service is still current when it inserts unless another rotate inserted
for this service in between (`Stale`), so that the service is contended once it inserts, too
(`Fresh`, `StaleContends`), and it passes by no child of what it rotates but those a seed has just added (`Complete`), which are
`behind`. Two rotates that share a service and whose locks did see each other are kept apart
because the one that was overtaken has lost its lock (`Apart`, from `LockStands`,
`ExpiryStays` and `NoOverlookedLock` of Locky), so that its rows are outdated when it inserts them. Rotates that overlapped
did so for ever, since past its reads a rotate keeps what it has read and locky what it saw
(`Places`, `OverlapStays`). `InStep` adds to the property that the rotations of a service that is
not contended have different numbers and the current one the greatest (`Numbered`): a seed reads the
parent rotation of a service it adds from the table by that number. Its step cases are an insertion by a rotate, where the parent of the
root is outside the rotated tree because trees are forests (`RootAbove`), and the commit
of a seed (`AddedInStep`).

`SeederProofs`, for all names, inputs and trees in step, under `SeederAssumptions`:

- `TypeCorrect`: `Spec => []TypeOK`.
- `CommitsInStep`: `Spec => []CommittedTreeInStep`. Throughout a creation or modification the
  tree is in step; deletions take whole subtrees (`BelowClosed`).
- `NamespacesWhole`: `Spec => []CreatedWhole`. `remaining` is the number of entries listed less
  the services there are, so that when it is 0 every name listed is there (`AllThere`): a
  counting argument on finite sets.
- `ModifiesAsAsked`: `Spec => []ModifiedAsAsked`, through what each loop has done so far
  (`ModifyInv`).

`ArstotzkaProofs` proves, for any number of instances, any programs, retries, registry and
bounds, under `ArstotzkaAssumptions` and `ServersAssumptions`:

- `TypeCorrect`: `Spec => []TypeOK`.
- `ConflictsAreRacesOrLate`: `Spec => []ConflictIsRaceOrLate`.

The inductive invariant `Inv` joins those of the two servers (`P!IInv`, `P!RowInv`, `Q!TInv`: the
lemmas about a step of theirs are used as they are, because clients call both only as they
expect, `ClientSteps`) with what they know of their clients (`LockCalls`, `ActionCalls`) and with
`Covered`: an open action that was not late is backed by a granted lock of its instance
such that every reservation that found this lock in the table, and that the action conflicts
with, is kept out. At the INSERT of the action there is none, since the lock is in force and
would have refused it (`NoOverlookedLock`); a reservation that finds it later, when it has
expired, meets the open action when it verifies its blockees (`StepKeepsOut`). Two such
actions that conflict then have locks neither of which the other reservation found: a race.

`ArstotzkaMemoryProofs` proves, from the same assumptions, what an instance of
`StatefulMediator` can count on:

- `NoLockIsForgotten`: `Spec => []NoLockForgotten`.
- `NotFoundWasOwnRemoval`: `Spec => []NotFoundIsOwnRemoval`.
- `OpenActionIsRemembered`: `Spec => []OpenActionIsHeld`.
- `OwnLeftoversNeverRefuse`: `Spec => []OwnLeftoversAdmit`.

None of the four is inductive; `MInv` adds to `Inv` what an instance knows (`Knows`) and what the
servers did (`Served`, `OwnIds`). An outcome is what the last attempt was answered (`Report`),
every attempt of a call asks what the first one asked (`SentCall`), and the ids an instance holds
and sends are of locks it was granted (`OwnIds`). `FoundRemoved`: a 404 comes after another DELETE
of the row, by `GrantedLockKept`. `RefusedByOthers`: a refusal names a row that lists the service,
which somebody who blocks it inserted, or a blockee that acted. `Remembers` follows the one
reservation that was granted, together with the removals still awaited: these carry its id, so
that none of them clears it while the row is there. `Succeeds`: attempts of a later create of a
single service get as far as their INSERT only once the action of the earlier one is closed, since
they count afterwards and actions are not reopened; so the id an answer brings replaces that of
a closed action (`Held`). The proof treats each step once: `Past` says what no step undoes,
`Cautious` that a single service admits no create while an action of it stays open, and
`LeftAloneKnows` shows that with these two an instance that does nothing keeps what it knows.

Only model-checked: liveness under fairness, which is out of the prover's reach along with
ENABLED (`RequestsAnswered`, `AbandonedReserveExpires`, `TreeUnlocked`, `SeedEnds`). Every
invariant and every action property of a passing run is also a theorem.

## 5. What is not modelled

- `GET /action` and `GET /service/{id}`: they only read. What the latter answers appears where a
  handler uses it (the fetches of locky and actiony; `carried`). Filters by rotation, sorting
  and limits serve clients.
- States and namespaces in locky and actiony: copied, never tested by a handler.
- The names of `serviceToActionsUrlMap`: which url answers for a service is configuration;
  either way it is one question with a yes or no answer.
- Blocks and parallelism that change while requests run. What a seed does to the tree and to
  rotations is modelled (Reseed); its updates and blocks only in Seeder, by itself.
- A lock of `POST /lock` without an expiration whose answer is lost: it stays for ever and
  nobody knows its id. Nothing in the code ends it, so nothing can be promised of it; it
  is listed as a hazard without a property.
- Delays between the attempts of a call: between two attempts anything may happen anyway.
- Start-up, dependency injection, configuration, validation of requests, tracing, health,
  the running of migrations, packaging.

## 6. State of the plan

Done: every stateful operation of the three services, the client and the seeder; their
composition in Arstotzka and RegistryRaces; proofs of every safety property that the passing runs
check, and that Locky implements Leases.

Left: that the client flows of Arstotzka are behaviours of Locky and of Actiony, as
`RunsUseLocky` and `RunsUseActiony` say of RegistryRaces; and a scenario of RegistryRaces with two
rotations and a seed, which takes more than five minutes with the present bounds (its
properties are proved).

New questions replace runs or join an existing one where they can: a run that takes
more than a minute or two is worth splitting by instance, not by property.
