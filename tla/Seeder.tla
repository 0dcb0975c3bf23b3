------------------------------- MODULE Seeder -------------------------------
(***************************************************************************)
(* The namespace seeder of the registry: packages/registry/db/seeds.  One  *)
(* database transaction creates, modifies or deletes a namespace from the  *)
(* list of services of an input file.                                      *)
(***************************************************************************)
EXTENDS Integers, Sequences, FiniteSets

CONSTANTS
    Names,       \* service names
    NoParent,    \* an entry without parent; a service whose parent_service_id is NULL
    NoService,   \* the namespace has no service of this name
    Inputs,      \* contents of the input file
    Trees        \* what the namespace may hold before the seed

Null == -1       \* parent_rotation IS NULL

Attributes == {"parallelism", "serviceType"}   \* what a modification may set

Entry == [ name : Names, action : {"create", "modify", "delete"}, parent : Names \cup {NoParent},
           rotation : Nat, blockees : SUBSET Names, sets : SUBSET Attributes ]
Input == [action : {"create", "modify", "delete"}, services : Seq(Entry)]

\* A service with its current rotation, and the attributes that were overwritten.
Service == [ parent : Names \cup {NoParent}, rotation : Nat, parentRotation : Nat \cup {Null},
             overwritten : SUBSET Attributes ]
Tree == [Names -> Service \cup {NoService}]

\* No service is without its parent, and a child has the rotation of its parent.
InStep(t) ==
    \A n \in Names : t[n] # NoService /\ t[n].parent # NoParent =>
        /\ t[t[n].parent] # NoService
        /\ t[n].parentRotation = t[t[n].parent].rotation

ASSUME SeederAssumptions ==
    /\ IsFiniteSet(Names) /\ NoParent \notin Names
    /\ NoService \notin Service
    /\ Inputs \subseteq Input
    /\ Trees \subseteq Tree

\* What was seeded and rotated before is in step.
ASSUME TreesInStep == \A t \in Trees : InStep(t)

VARIABLES
    input,      \* the content of the input file
    stage,      \* the loop the transaction is in, or how it ended
    index,      \* the entry that loop is at
    remaining,  \* entries createNamespace still has to create; deletions count, too
    tree,       \* the services of the namespace, as the transaction sees them
    blocks,     \* the blocks it wrote, as <<blocker, blockee>>
    found       \* what the namespace held before

vars == <<input, stage, index, remaining, tree, blocks, found>>

-----------------------------------------------------------------------------
Has(name) == tree[name] # NoService
entry == input.services[index]
AtEnd == index > Len(input.services)

\* Faulty variant: the next loop does not start over.
EnterOnwards(s) == stage' = s /\ index' = index + 1 /\ UNCHANGED <<input, found>>

Enter(s) == stage' = s /\ index' = 1 /\ UNCHANGED <<input, found>>
Proceed == index' = index + 1 /\ UNCHANGED <<input, stage, found>>

\* findOneOrFail finds nothing, map.get returns undefined, or a statement rejects.
Rollback ==
    /\ stage' = "rolled back"
    /\ tree' = found
    /\ blocks' = {}
    /\ UNCHANGED <<input, index, remaining, found>>

\* The services with a parent in S, and S with all their descendants.
Children(t, S) == {n \in Names : t[n] # NoService /\ t[n].parent \in S}
Below(t, S) ==
    {n \in Names : \A D \in SUBSET Names : S \subseteq D /\ Children(t, D) \subseteq D => n \in D}

\* Faulty variant: the children are deleted, but not theirs.
ChildrenOf(name) == {name} \cup Children(tree, {name})

\* deleteService goes down to the leaves.
Subtree(name) == Below(tree, {name})

ParentRotation(parent) == IF parent = NoParent THEN Null ELSE tree[parent].rotation

Save(e) ==
    tree' = [tree EXCEPT ![e.name] =
               [ parent |-> e.parent, rotation |-> e.rotation,
                 parentRotation |-> ParentRotation(e.parent), overwritten |-> {} ]]

-----------------------------------------------------------------------------
\* createNamespace: a namespace of the same name that exists is left alone.
CreateNamespace ==
    /\ stage = "start" /\ input.action = "create"
    /\ Enter("create")
    /\ tree' = [n \in Names |-> NoService]
    /\ remaining' = Len(input.services)
    /\ UNCHANGED blocks

Creatable(e) == ~ Has(e.name) /\ (e.parent # NoParent => Has(e.parent))

\* Faulty variant: an entry is passed over for good if its parent is missing.
CreateSkipCounts ==
    /\ stage = "create" /\ ~ AtEnd /\ ~ Creatable(entry)
    /\ Proceed
    /\ remaining' = remaining - 1
    /\ UNCHANGED <<tree, blocks>>

CreateSkip ==
    /\ stage = "create" /\ ~ AtEnd /\ ~ Creatable(entry)
    /\ Proceed
    /\ UNCHANGED <<remaining, tree, blocks>>

\* Faulty variant: a service that was created is still counted.
CreateSaveUncounted ==
    /\ stage = "create" /\ ~ AtEnd /\ Creatable(entry)
    /\ Save(entry)
    /\ Proceed
    /\ UNCHANGED <<remaining, blocks>>

CreateSave ==
    /\ stage = "create" /\ ~ AtEnd /\ Creatable(entry)
    /\ Save(entry)
    /\ remaining' = remaining - 1
    /\ Proceed
    /\ UNCHANGED blocks

CreatePassEnds ==
    /\ stage = "create" /\ AtEnd
    /\ Enter(IF remaining > 0 THEN "create" ELSE "block")
    /\ UNCHANGED <<remaining, tree, blocks>>

-----------------------------------------------------------------------------
\* modifyNamespace: deletions, then creations, then updates, then blocks.
ModifyNamespace ==
    /\ stage = "start" /\ input.action = "modify"
    /\ Enter("delete")
    /\ UNCHANGED <<remaining, tree, blocks>>

Pass ==
    /\ ~ AtEnd
    /\ \/ stage = "delete" /\ entry.action # "delete"
       \/ stage = "modify" /\ entry.action # "create"
       \/ stage = "update" /\ (entry.action # "modify" \/ entry.sets = {})
    /\ Proceed
    /\ UNCHANGED <<remaining, tree, blocks>>

ModifyDelete ==
    /\ stage = "delete" /\ ~ AtEnd /\ entry.action = "delete"
    /\ \/ ~ Has(entry.name) /\ Rollback
       \/ /\ Has(entry.name)
          /\ tree' = [n \in Names |-> IF n \in Subtree(entry.name) THEN NoService ELSE tree[n]]
          /\ remaining' = remaining - Cardinality(Subtree(entry.name))
          /\ Proceed
          /\ UNCHANGED blocks

\* An entry whose service exists is ignored; its parent must exist by now.
ModifyCreate ==
    /\ stage = "modify" /\ ~ AtEnd /\ entry.action = "create"
    /\ \/ Has(entry.name) /\ Proceed /\ UNCHANGED <<remaining, tree, blocks>>
       \/ /\ ~ Has(entry.name) /\ entry.parent # NoParent /\ ~ Has(entry.parent)
          /\ Rollback
       \/ /\ Creatable(entry)
          /\ Save(entry)
          /\ Proceed
          /\ UNCHANGED <<remaining, blocks>>

\* Faulty variant: an attribute the entry does not give is not kept.
UpdatedWhole(service, e) == [service EXCEPT !.overwritten = Attributes]

\* What the entry gives, and the rest as it was.
Updated(service, e) == [service EXCEPT !.overwritten = @ \cup e.sets]

ModifyUpdate ==
    /\ stage = "update" /\ ~ AtEnd /\ entry.action = "modify" /\ entry.sets # {}
    /\ \/ ~ Has(entry.name) /\ Rollback
       \/ /\ Has(entry.name)
          /\ tree' = [tree EXCEPT ![entry.name] = Updated(@, entry)]
          /\ Proceed
          /\ UNCHANGED <<remaining, blocks>>

NextLoop == [delete |-> "modify", modify |-> "update", update |-> "block"]

ModifyLoopEnds ==
    /\ stage \in DOMAIN NextLoop /\ AtEnd
    /\ Enter(NextLoop[stage])
    /\ UNCHANGED <<remaining, tree, blocks>>

\* The services a block needs: createNamespace looks at the blocker only when
\* there is a blockee, modifyNamespace always.
Ends(e) ==
    IF e.blockees = {} /\ input.action = "create" THEN {} ELSE {e.name} \cup e.blockees

\* Blocks are only added.
SaveBlocks ==
    /\ stage = "block" /\ ~ AtEnd
    /\ \/ entry.action = "delete" /\ Proceed /\ UNCHANGED <<remaining, tree, blocks>>
       \/ /\ entry.action # "delete"
          /\ \A n \in Ends(entry) : Has(n)
          /\ blocks' = blocks \cup ({entry.name} \X entry.blockees)
          /\ Proceed
          /\ UNCHANGED <<remaining, tree>>
       \/ /\ entry.action # "delete"
          /\ \E n \in Ends(entry) : ~ Has(n)
          /\ Rollback

-----------------------------------------------------------------------------
\* The services, rotations and blocks of a namespace go with it.
DeleteNamespace ==
    /\ stage = "start" /\ input.action = "delete"
    /\ stage' = "committed"
    /\ tree' = [n \in Names |-> NoService]
    /\ UNCHANGED <<input, index, remaining, blocks, found>>

Commit ==
    /\ stage = "block" /\ AtEnd
    /\ stage' = "committed"
    /\ UNCHANGED <<input, index, remaining, tree, blocks, found>>

StatementRejects == stage \notin {"committed", "rolled back"} /\ Rollback

-----------------------------------------------------------------------------
Init ==
    /\ input \in Inputs
    /\ tree \in Trees
    /\ found = tree
    /\ stage = "start"
    /\ index = 1
    /\ remaining = 0
    /\ blocks = {}

Next ==
    \/ CreateNamespace \/ CreateSkip \/ CreateSave \/ CreatePassEnds
    \/ ModifyNamespace \/ Pass \/ ModifyDelete \/ ModifyCreate \/ ModifyUpdate \/ ModifyLoopEnds
    \/ SaveBlocks \/ DeleteNamespace \/ Commit \/ StatementRejects

Spec == Init /\ [][Next]_vars

\* The seeder runs on as long as its statements settle.
FairSpec == Spec /\ WF_vars(Next)

-----------------------------------------------------------------------------
\* Types of the transaction's state.
TypeOK ==
    /\ input \in Input
    /\ stage \in {"start", "create", "delete", "modify", "update", "block", "committed", "rolled back"}
    /\ index \in 1 .. Len(input.services) + 1
    /\ remaining \in Int
    /\ tree \in Tree /\ found \in Tree
    /\ blocks \subseteq Names \X Names

\* What a seed commits is what the services start from: no service is left
\* without its parent, a child is in step with the rotation of its parent, and
\* blocks are between services of the namespace.
CommittedTreeInStep ==
    stage = "committed" =>
        /\ InStep(tree)
        /\ \A b \in blocks : Has(b[1]) /\ Has(b[2])

\* A namespace is created whole, in whatever order its services are listed.
CreatedWhole ==
    stage = "committed" /\ input.action = "create" =>
        \A i \in 1 .. Len(input.services) : Has(input.services[i].name)

Listed == {input.services[i] : i \in 1 .. Len(input.services)}

\* The services that go with a deletion; they may have been created again.
Deleted == Below(found, {e.name : e \in {d \in Listed : d.action = "delete"}})

\* A modification touches what it names and no more: a service that stays keeps
\* its parent and its rotations, and has exactly the attributes overwritten that
\* entries of its name set, whatever else the input deletes, creates or ignores.
ModifiedAsAsked ==
    stage = "committed" /\ input.action = "modify" =>
        \A n \in Names : Has(n) /\ found[n] # NoService /\ n \notin Deleted =>
            tree[n] = [found[n] EXCEPT !.overwritten = @ \cup
                         UNION {e.sets : e \in {m \in Listed : m.name = n /\ m.action = "modify"}}]

\* Every seed ends, by a commit or a rollback.
SeedEnds == <>(stage \in {"committed", "rolled back"})

=============================================================================
