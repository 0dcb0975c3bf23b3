--------------------------- MODULE RegistryRaces ---------------------------
(***************************************************************************)
(* The registry while everything happens to it at once: rotates overlap, a *)
(* seed modifies their namespace, and services act.                        *)
(***************************************************************************)
EXTENDS Reseed, RotatedActions

\* Bound: what takes part in a behaviour.
CONSTANT Scenarios

Scenario == [ tree : Trees, rotates : SUBSET Rotates, seeds : SUBSET Seed, runs : SUBSET Runs ]

ASSUME RegistryRacesAssumptions ==
    \A x \in Scenarios :
        /\ x \in Scenario
        /\ \A seed_ \in x.seeds : \A e \in seed_.creations :
             /\ e[1] \notin DOMAIN x.tree
             /\ \A f \in seed_.creations : e[1] = f[1] => e = f
        /\ \A c \in x.runs : ServiceOf[c] \in DOMAIN x.tree

\* The seeder creates parents before their children: no service is above itself.
ASSUME TreesAreForests ==
    \A t \in Trees : \A D \in (SUBSET DOMAIN t) \ {{}} : \E s \in D : t[s] \notin D

VARIABLES
    scenario,   \* never changes
    overtaken   \* history: <<rotate, rotate>>, the first inserted its rotations when
                \* the second had read those it was about to replace

allVars == <<vars, seedVars, actionyVars, carried, missed, overtaken, scenario>>

-----------------------------------------------------------------------------
Inserts(r) == At(r, "insert") /\ pc'[r] # "insert" /\ rotations' # rotations

NoteOvertaken ==
    overtaken' = overtaken \cup
      {x \in Rotates \X Rotates : x[1] # x[2] /\ Inserts(x[1]) /\ At(x[2], "insert")}

RotateStep ==
    /\ \/ \E r \in scenario.rotates :
            (\E s \in Services : RotateService(r, s)) \/ Step(r) \/ Crash(r)
       \/ LockyStep
    /\ NoteMissed /\ NoteOvertaken
    /\ UNCHANGED <<actionyVars, carried>>

ClientStep ==
    /\ \/ \E c \in scenario.runs : ReserveAccess(c) \/ CreateAction(c) \/ UpdateAction(c)
       \/ ActionyStep
    /\ UNCHANGED <<locals, rotations, outdated, missed, overtaken>>

SeedMoves ==
    /\ (\E x \in scenario.seeds : SeedBegin(x)) \/ SeedStep
    /\ UNCHANGED <<locals, outdated, lockyVars, actionyVars, carried, missed, overtaken>>

RacesInit ==
    /\ scenario \in Scenarios
    /\ Init /\ parent = scenario.tree
    /\ ReseedInit /\ ActionsInit
    /\ overtaken = {}

\* The filterActions of rotates ask actiony.
RacesNext ==
    /\ \/ (RotateStep \/ ClientStep) /\ InsertWaits /\ UNCHANGED <<parent, seedVars>>
       \/ SeedMoves
    /\ active' = ActiveServices'
    /\ UNCHANGED scenario

RacesSpec == RacesInit /\ [][RacesNext]_allVars

-----------------------------------------------------------------------------
\* The first replaced rotations that the second had read: their locks did not
\* keep them apart, because neither row was there when the other was checked, one
\* rotate inserted after its lock had expired, or what their trees share was added
\* after a lock had been asked for.
Overlapped(q, r) ==
    /\ <<q, r>> \in overtaken /\ tree[q] \cap tree[r] # {}
    /\ \/ /\ post(q, lockId[q]) \notin lockBefore[post(r, lockId[r])]
          /\ post(r, lockId[r]) \notin lockBefore[post(q, lockId[q])]
       \/ {q, r} \cap outdated # {}
       \/ descendants[q] \cap descendants[r] = {}

\* A service two such rotates were both for.
Contended(s) == \E q, r \in Rotates : Overlapped(q, r) /\ s \in tree[q] \cap tree[r]

WithParent(s) == CurrentOf(s).parentRotation = CurrentOf(parent[s]).serviceRotation

\* A child's current parent rotation is the current rotation of its parent, so
\* that a bump of a service reaches all its descendants and overlapping bumps do
\* not leave a tree half way, unless two rotates that were not kept apart were both
\* for the child, or both for its parent, or a seed added the child after it had
\* read a rotation of the parent that a rotate replaced before the commit, or after
\* a rotate had read the tree without it.  What happens elsewhere excuses nothing.
TreeInStep ==
    \A s \in Registered :
        parent[s] # NoParent =>
            WithParent(s) \/ s \in behind \/ Contended(s) \/ Contended(parent[s])

\* A rotation is numbered for one bump only: no bump is lost in another that took
\* the same number, unless their rotates were not kept apart.
BumpsNumberedApart ==
    \A x, y \in rotations :
        x.serviceId = y.serviceId /\ x.serviceRotation = y.serviceRotation =>
            x = y \/ Contended(x.serviceId)

\* A bump gives a service a number of its own and bumps all its descendants with it,
\* README.md says of rotations.  Two rotates whose locks did not keep them apart read
\* the same current rotation and so take the same number, and a seed takes no lock:
\* this is what TLC refutes.
BumpsAreWhole ==
    /\ \A x, y \in rotations :
         x.serviceId = y.serviceId /\ x.serviceRotation = y.serviceRotation => x = y
    /\ \A s \in Registered : parent[s] # NoParent => WithParent(s)

\* A rotate gives a new rotation to nothing but what it has locked and checked
\* and what a seed has added to the tree since.
RotatedWasLocked ==
    \A r \in Rotates : At(r, "unlock") =>
        \A x \in NewRotations(r) : x.serviceId \in descendants[r] \cup late[r]

\* A rotation that is answered by 204 has moved every service it locked that is
\* still there, whatever a seed deleted or added meanwhile.
RotatedWhole ==
    \A r \in Rotates : pc[r] = "done" /\ answer[r] = 204 =>
        \A s \in descendants[r] \cap Registered : CurrentOf(s).serviceRotation > 1

Acting(c) == A!Active(create(c))

\* A rotate slipped past run c: it checked the service between the check of the
\* reservation and the INSERT of the action, or outlived its lock.
SlippedPast(r, c) == r \in outdated \/ <<c, r>> \in missed

\* While an action is open its service stays at the rotation the action
\* carries, unless a rotate slipped past: the lock of a rotate and its check
\* stop every other order of reserving, fetching, inserting and rotating.
OpenActionKeepsRotation ==
    \A c \in Runs :
        Acting(c) /\ ServiceOf[c] \in Registered /\ carried[c] # {CurrentOf(ServiceOf[c])} =>
            \E r \in Rotates : ServiceOf[c] \in tree[r] /\ SlippedPast(r, c)

=============================================================================
