------------------------------- MODULE Reseed -------------------------------
(***************************************************************************)
(* A modification of a seeded namespace (packages/registry/db/seeds) while *)
(* services are rotated.  The seeder takes no lock of locky: its one       *)
(* transaction, at READ COMMITTED, reads what rotates have committed and   *)
(* shows them its own writes only when it commits.                         *)
(***************************************************************************)
EXTENDS Registry

\* An input: the services to delete, and those to add with their parents.  Names
\* are ids here: a service that is added, even under a name that was deleted, has
\* an id of its own.
Seed == [deletions : SUBSET Services, creations : SUBSET (Services \X (Services \cup {NoParent}))]

VARIABLES
    seed,        \* what is left of the input
    stage,       \* "idle", the loop of the transaction, or how it ended
    entry,       \* the service being added and its parent
    found,       \* the rotation of that parent, as it was read
    seedParent,  \* the service table as the transaction sees it
    seedRows,    \* the rotations it inserted
    late,        \* history: services added to the tree of a rotate it had read
    behind       \* history: those a rotate has passed, or is about to pass, by

seedVars == <<seed, stage, entry, found, seedParent, seedRows, late, behind>>

-----------------------------------------------------------------------------
Open == stage \in {"delete", "create", "save"}
SeedRegistered == DOMAIN seedParent

SeedBegin(x) ==
    /\ stage = "idle"
    /\ seed' = x
    /\ stage' = "delete"
    /\ seedParent' = parent
    /\ UNCHANGED <<parent, rotations, entry, found, seedRows, late, behind>>

SeedRollback ==
    /\ stage' = "rolled back"
    /\ seedParent' = parent
    /\ seedRows' = {}
    /\ UNCHANGED <<parent, rotations, seed, entry, found, late, behind>>

\* A service is deleted with all its descendants.
SeedDelete(s) ==
    /\ stage = "delete" /\ s \in seed.deletions
    /\ \/ s \notin SeedRegistered /\ SeedRollback
       \/ /\ s \in SeedRegistered
          /\ seedParent' = [t \in SeedRegistered \ Descendants(s) |-> parent[t]]
          /\ seed' = [seed EXCEPT !.deletions = @ \ {s}]
          /\ UNCHANGED <<parent, rotations, stage, entry, found, seedRows, late, behind>>

SeedDeleted ==
    /\ stage = "delete" /\ seed.deletions = {}
    /\ stage' = "create"
    /\ UNCHANGED <<parent, rotations, seed, entry, found, seedParent, seedRows, late, behind>>

\* Faulty variant: the rotations of the parent are not ordered.
ParentRotationUnordered(p) ==
    (CHOOSE x \in rotations \cup seedRows :
       /\ x.serviceId = p
       /\ \A y \in rotations \cup seedRows :
            y.serviceId = p => x.serviceRotation <= y.serviceRotation).serviceRotation

\* rotation.find, order serviceRotation desc, take 1.
ParentRotation(p) ==
    (CHOOSE x \in rotations \cup seedRows :
       /\ x.serviceId = p
       /\ \A y \in rotations \cup seedRows :
            y.serviceId = p => x.serviceRotation >= y.serviceRotation).serviceRotation

\* The next entry: its parent must exist by now, and its rotation is read.
SeedReadParent(e) ==
    /\ stage = "create" /\ e \in seed.creations
    /\ \/ e[2] \notin SeedRegistered \cup {NoParent} /\ SeedRollback
       \/ /\ e[2] \in SeedRegistered \cup {NoParent}
          /\ seed' = [seed EXCEPT !.creations = @ \ {e}]
          /\ stage' = "save"
          /\ entry' = e
          /\ found' = IF e[2] = NoParent THEN Null ELSE ParentRotation(e[2])
          /\ UNCHANGED <<parent, rotations, seedParent, seedRows, late, behind>>

SeedSave ==
    /\ stage = "save"
    /\ stage' = "create"
    /\ seedParent' = [t \in SeedRegistered \cup {entry[1]} |->
                        IF t = entry[1] THEN entry[2] ELSE seedParent[t]]
    /\ seedRows' = seedRows \cup
         {[serviceId |-> entry[1], parentRotation |-> found, serviceRotation |-> 1]}
    /\ UNCHANGED <<parent, rotations, seed, entry, found, late, behind>>

Added == SeedRegistered \ Registered

\* ON DELETE CASCADE: the rotations of a deleted service go with it.
Kept == {x \in rotations : x.serviceId \in SeedRegistered}

SeedCommit ==
    /\ stage = "create" /\ seed.creations = {}
    /\ stage' = "committed"
    /\ parent' = seedParent
    /\ rotations' = Kept \cup seedRows
    /\ late' = [r \in Rotates |->
         IF At(r, "idle") \/ At(r, "find") \/ At(r, "descendants") THEN {} ELSE Added]
    /\ behind' = {s \in Added :
         LET p == seedParent[s]
         IN  /\ p \in Registered
             /\ \/ ParentRotation(p) # (CHOOSE x \in seedRows : x.serviceId = s).parentRotation
                \/ \E r \in Rotates : pc[r] \in {"current", "insert"} /\ p \in tree[r]}
    /\ UNCHANGED <<seed, entry, found, seedParent, seedRows>>

StatementRejects == Open /\ SeedRollback

SeedStep ==
    \/ (\E s \in Services : SeedDelete(s)) \/ SeedDeleted
    \/ (\E e \in seed.creations : SeedReadParent(e))
    \/ SeedSave \/ SeedCommit \/ StatementRejects

\* A new rotation of a service the open transaction has deleted waits for it:
\* the foreign key needs the row that is locked.
InsertWaits ==
    Open => \A x \in rotations' \ rotations : x.serviceId \in SeedRegistered

ReseedInit ==
    /\ seed = [deletions |-> {}, creations |-> {}]
    /\ stage = "idle"
    /\ entry = <<NoParent, NoParent>>
    /\ found = Null
    /\ seedParent = parent
    /\ seedRows = {}
    /\ late = [r \in Rotates |-> {}]
    /\ behind = {}

=============================================================================
