---------------------------- MODULE SeederProofs ----------------------------
(***************************************************************************)
(* Theorems about Seeder, for every set of names, every input file and     *)
(* every namespace that is in step before the seed.                        *)
(***************************************************************************)
EXTENDS Seeder, FiniteSetTheorems, FunctionTheorems, SequenceTheorems, TLAPS

-----------------------------------------------------------------------------
\* Types.

\* Where a loop stands, it stands at an entry of the input.
LEMMA EntryType ==
    ASSUME TypeOK, ~ AtEnd
    PROVE  /\ entry \in Entry
           /\ index \in 1 .. Len(input.services)
           /\ index + 1 \in 1 .. Len(input.services) + 1
<1> DEFINE list == input.services
<1>1. list \in Seq(Entry)
  BY DEF TypeOK, Input
<1> HIDE DEF list
<1>2. Len(list) \in Nat /\ \A i \in 1 .. Len(list) : list[i] \in Entry
  BY <1>1, ElementOfSeq, LenProperties
<1>3. index \in 1 .. Len(list) + 1 /\ ~ (index > Len(list))
  BY DEF TypeOK, AtEnd, list
<1>4. index \in 1 .. Len(list) /\ index + 1 \in 1 .. Len(list) + 1
  BY <1>2, <1>3
<1> QED
  BY <1>2, <1>4 DEF entry, list

\* The first entry is in the range of every loop.
LEMMA FirstEntry ==
    ASSUME TypeOK
    PROVE  1 \in 1 .. Len(input.services) + 1 /\ Len(input.services) \in Nat
<1>1. input.services \in Seq(Entry)
  BY DEF TypeOK, Input
<1>2. Len(input.services) \in Nat
  BY <1>1, LenProperties
<1> QED
  BY <1>2

\* What a creation leaves is a tree.
LEMMA SaveType ==
    ASSUME tree \in Tree, NEW e \in Entry, Creatable(e), Save(e)
    PROVE  /\ tree' \in Tree
           /\ [ parent |-> e.parent, rotation |-> e.rotation,
                parentRotation |-> ParentRotation(e.parent), overwritten |-> {} ] \in Service
<1>1. ParentRotation(e.parent) \in Nat \cup {Null}
  <2>1. CASE e.parent = NoParent
    BY <2>1 DEF ParentRotation
  <2>2. CASE e.parent # NoParent
    <3>1. e.parent \in Names /\ tree[e.parent] \in Service
      BY <2>2 DEF Creatable, Has, Entry, Tree
    <3> QED
      BY <2>2, <3>1 DEF ParentRotation, Service
  <2> QED
    BY <2>1, <2>2
<1>2. [ parent |-> e.parent, rotation |-> e.rotation,
        parentRotation |-> ParentRotation(e.parent), overwritten |-> {} ] \in Service
  BY <1>1 DEF Entry, Service
<1> QED
  BY <1>2 DEF Save, Tree

\* A transaction that rolls back keeps the types.
LEMMA RollbackType == ASSUME TypeOK, Rollback PROVE TypeOK'
BY DEF TypeOK, Rollback

\* Every state of the transaction is well typed.
THEOREM TypeCorrect == Spec => []TypeOK
<1>1. Init => TypeOK
  BY SeederAssumptions DEF Init, TypeOK, Input
<1>2. TypeOK /\ [Next]_vars => TypeOK'
  <2> SUFFICES ASSUME TypeOK, [Next]_vars PROVE TypeOK'
    OBVIOUS
  <2> USE FirstEntry
  <2>1. CASE CreateNamespace
    BY <2>1 DEF CreateNamespace, Enter, TypeOK, Tree
  <2>2. CASE CreateSkip
    BY <2>2, EntryType DEF CreateSkip, Proceed, TypeOK
  <2>3. CASE CreateSave
    <3>1. tree' \in Tree
      BY <2>3, EntryType, SaveType DEF CreateSave, TypeOK
    <3> QED
      BY <2>3, <3>1, EntryType DEF CreateSave, Proceed, TypeOK
  <2>4. CASE CreatePassEnds
    BY <2>4 DEF CreatePassEnds, Enter, TypeOK
  <2>5. CASE ModifyNamespace
    BY <2>5 DEF ModifyNamespace, Enter, TypeOK
  <2>6. CASE Pass
    BY <2>6, EntryType DEF Pass, Proceed, TypeOK
  <2>7. CASE ModifyDelete
    <3>1. CASE Rollback
      BY <3>1, RollbackType
    <3>2. CASE Has(entry.name) /\ ~ Rollback
      <4>1. Subtree(entry.name) \in SUBSET Names
        BY DEF Subtree, Below
      <4>2. Cardinality(Subtree(entry.name)) \in Nat
        BY <4>1, FS_Subset, FS_CardinalityType, SeederAssumptions
      <4>3. tree' \in Tree
        BY <2>7, <3>2 DEF ModifyDelete, TypeOK, Tree
      <4>4. remaining' \in Int
        BY <2>7, <3>2, <4>2 DEF ModifyDelete, TypeOK
      <4> QED
        BY <2>7, <3>2, <4>3, <4>4, EntryType DEF ModifyDelete, Proceed, TypeOK
    <3> QED
      BY <2>7, <3>1, <3>2 DEF ModifyDelete
  <2>8. CASE ModifyCreate
    <3>1. CASE Rollback
      BY <3>1, RollbackType
    <3>2. CASE Creatable(entry) /\ Save(entry) /\ Proceed /\ UNCHANGED <<remaining, blocks>>
      <4>1. tree' \in Tree
        BY <2>8, <3>2, EntryType, SaveType DEF ModifyCreate, TypeOK
      <4> QED
        BY <2>8, <3>2, <4>1, EntryType DEF ModifyCreate, Proceed, TypeOK
    <3>3. CASE Proceed /\ UNCHANGED <<remaining, tree, blocks>>
      BY <2>8, <3>3, EntryType DEF ModifyCreate, Proceed, TypeOK
    <3> QED
      BY <2>8, <3>1, <3>2, <3>3 DEF ModifyCreate
  <2>9. CASE ModifyUpdate
    <3>1. CASE Rollback
      BY <3>1, RollbackType
    <3>2. CASE Has(entry.name) /\ ~ Rollback
      <4>1. entry \in Entry /\ tree[entry.name] \in Service
        BY <2>9, <3>2, EntryType DEF ModifyUpdate, Has, TypeOK, Tree, Entry
      <4>2. Updated(tree[entry.name], entry) \in Service
        BY <4>1 DEF Updated, Service, Entry
      <4>3. tree' \in Tree
        BY <2>9, <3>2, <4>2 DEF ModifyUpdate, TypeOK, Tree
      <4> QED
        BY <2>9, <3>2, <4>3, EntryType DEF ModifyUpdate, Proceed, TypeOK
    <3> QED
      BY <2>9, <3>1, <3>2 DEF ModifyUpdate
  <2>10. CASE ModifyLoopEnds
    <3>1. NextLoop[stage] \in {"modify", "update", "block"}
      BY <2>10 DEF ModifyLoopEnds, NextLoop
    <3>2. stage' = NextLoop[stage] /\ UNCHANGED <<remaining, tree, blocks>>
      BY <2>10 DEF ModifyLoopEnds, Enter
    <3>3. index' = 1 /\ UNCHANGED <<input, found>>
      BY <2>10 DEF ModifyLoopEnds, Enter
    <3> QED
      BY <3>1, <3>2, <3>3 DEF TypeOK
  <2>11. CASE SaveBlocks
    <3>1. CASE Rollback
      BY <3>1, RollbackType
    <3>2. CASE ~ Rollback
      <4>1. entry.name \in Names /\ entry.blockees \subseteq Names
        BY <2>11, EntryType DEF SaveBlocks, Entry
      <4> QED
        BY <2>11, <3>2, <4>1, EntryType DEF SaveBlocks, Proceed, TypeOK
    <3> QED
      BY <3>1, <3>2
  <2>12. CASE DeleteNamespace
    BY <2>12 DEF DeleteNamespace, TypeOK, Tree
  <2>13. CASE Commit
    BY <2>13 DEF Commit, TypeOK
  <2>14. CASE StatementRejects
    BY <2>14, RollbackType DEF StatementRejects
  <2>15. CASE UNCHANGED vars
    BY <2>15 DEF vars, TypeOK
  <2> QED
    BY <2>1, <2>2, <2>3, <2>4, <2>5, <2>6, <2>7, <2>8, <2>9, <2>10, <2>11, <2>12, <2>13,
       <2>14, <2>15 DEF Next
<1> QED
  BY <1>1, <1>2, PTL DEF Spec

-----------------------------------------------------------------------------
\* The tree stays in step, and blocks stay between its services.

\* What lies below some services is closed: it holds them and their children.
LEMMA BelowClosed ==
    ASSUME NEW t, NEW S \in SUBSET Names
    PROVE  S \subseteq Below(t, S) /\ Children(t, Below(t, S)) \subseteq Below(t, S)
<1>1. S \subseteq Below(t, S)
  BY DEF Below
<1>2. ASSUME NEW n \in Children(t, Below(t, S)) PROVE n \in Below(t, S)
  <2>1. n \in Names /\ t[n] # NoService /\ t[n].parent \in Below(t, S)
    BY <1>2 DEF Children
  <2>2. ASSUME NEW D \in SUBSET Names, S \subseteq D, Children(t, D) \subseteq D PROVE n \in D
    <3>1. t[n].parent \in D
      BY <2>1, <2>2 DEF Below
    <3> QED
      BY <2>1, <2>2, <3>1 DEF Children
  <2> QED
    BY <2>1, <2>2 DEF Below
<1> QED
  BY <1>1, <1>2

StepInv ==
    /\ InStep(tree) /\ InStep(found)
    /\ blocks = {} \/ stage \in {"block", "committed"}
    /\ \A b \in blocks : Has(b[1]) /\ Has(b[2])

\* A service that is added under an existing parent is in step, and nobody was
\* its child.
LEMMA SaveInStep ==
    ASSUME TypeOK, InStep(tree), NEW e \in Entry, Creatable(e), Save(e)
    PROVE  InStep(tree')
<1> DEFINE saved == [ parent |-> e.parent, rotation |-> e.rotation,
                      parentRotation |-> ParentRotation(e.parent), overwritten |-> {} ]
<1>1. tree \in Tree /\ tree' \in Tree /\ e.name \in Names
  BY SaveType DEF TypeOK, Entry
<1>2. tree'[e.name] = saved /\ \A n \in Names : n # e.name => tree'[n] = tree[n]
  BY <1>1 DEF Save, Tree
<1>3. e.parent # NoParent => e.parent \in Names /\ e.parent # e.name /\ tree[e.parent] # NoService
  BY DEF Creatable, Has, Entry
<1>4. tree[e.name] = NoService
  BY DEF Creatable, Has
<1> SUFFICES ASSUME NEW n \in Names, tree'[n] # NoService, tree'[n].parent # NoParent
             PROVE  /\ tree'[tree'[n].parent] # NoService
                    /\ tree'[n].parentRotation = tree'[tree'[n].parent].rotation
  BY DEF InStep
<1>5. CASE n = e.name
  <2>1. tree'[n].parent = e.parent /\ tree'[n].parentRotation = ParentRotation(e.parent)
    BY <1>2, <1>5
  <2>2. tree'[e.parent] = tree[e.parent]
    BY <1>2, <1>3, <2>1
  <2>3. ParentRotation(e.parent) = tree[e.parent].rotation
    BY <2>1 DEF ParentRotation
  <2> QED
    BY <1>3, <2>1, <2>2, <2>3
<1>6. CASE n # e.name
  <2>1. tree'[n] = tree[n]
    BY <1>2, <1>6
  <2>2. /\ tree[tree[n].parent] # NoService
        /\ tree[n].parentRotation = tree[tree[n].parent].rotation
    BY <2>1 DEF InStep
  <2>3. tree[n].parent \in Names
    BY <1>1, <2>1 DEF Tree, Service
  <2>4. tree'[tree[n].parent] = tree[tree[n].parent]
    BY <1>2, <1>4, <2>2, <2>3
  <2> QED
    BY <2>1, <2>2, <2>4
<1> QED
  BY <1>5, <1>6

\* Whoever stays when a service is deleted keeps its parent, too.
LEMMA DeleteInStep ==
    ASSUME TypeOK, InStep(tree), NEW name \in Names,
           tree' = [n \in Names |-> IF n \in Subtree(name) THEN NoService ELSE tree[n]]
    PROVE  InStep(tree')
<1>1. Children(tree, Subtree(name)) \subseteq Subtree(name)
  BY BelowClosed DEF Subtree
<1> SUFFICES ASSUME NEW n \in Names, tree'[n] # NoService, tree'[n].parent # NoParent
             PROVE  /\ tree'[tree'[n].parent] # NoService
                    /\ tree'[n].parentRotation = tree'[tree'[n].parent].rotation
  BY DEF InStep
<1>2. n \notin Subtree(name) /\ tree'[n] = tree[n]
  OBVIOUS
<1>3. tree[n].parent \in Names
  BY <1>2 DEF TypeOK, Tree, Service
<1>4. tree[n].parent \notin Subtree(name)
  BY <1>1, <1>2 DEF Children
<1>5. tree'[tree[n].parent] = tree[tree[n].parent]
  BY <1>3, <1>4
<1> QED
  BY <1>2, <1>5 DEF InStep

\* An update leaves parents and rotations alone.
LEMMA UpdateInStep ==
    ASSUME TypeOK, InStep(tree), NEW e \in Entry, Has(e.name),
           tree' = [tree EXCEPT ![e.name] = Updated(@, e)]
    PROVE  /\ InStep(tree')
           /\ \A n \in Names : tree'[n] = NoService <=> tree[n] = NoService
<1>1. e.name \in Names /\ tree \in Tree /\ tree[e.name] \in Service
  BY DEF Entry, TypeOK, Tree, Has
<1>2. Updated(tree[e.name], e) \in Service
  BY <1>1 DEF Updated, Service, Entry
<1>3. /\ Updated(tree[e.name], e).parent = tree[e.name].parent
      /\ Updated(tree[e.name], e).rotation = tree[e.name].rotation
      /\ Updated(tree[e.name], e).parentRotation = tree[e.name].parentRotation
  BY <1>1 DEF Updated, Service
<1>4. \A n \in Names :
        /\ tree'[n] = NoService <=> tree[n] = NoService
        /\ tree[n] # NoService =>
             /\ tree'[n].parent = tree[n].parent
             /\ tree'[n].rotation = tree[n].rotation
             /\ tree'[n].parentRotation = tree[n].parentRotation
  <2> TAKE n \in Names
  <2>1. CASE n = e.name
    <3>1. tree'[n] = Updated(tree[e.name], e)
      BY <1>1, <2>1 DEF Tree
    <3>2. tree'[n] # NoService /\ tree[n] # NoService
      BY <1>1, <1>2, <2>1, <3>1, SeederAssumptions
    <3> QED
      BY <1>3, <2>1, <3>1, <3>2
  <2>2. CASE n # e.name
    <3>1. tree'[n] = tree[n]
      BY <1>1, <2>2 DEF Tree
    <3> QED
      BY <3>1
  <2> QED
    BY <2>1, <2>2
<1>5. \A n \in Names : tree[n] # NoService /\ tree[n].parent # NoParent => tree[n].parent \in Names
  BY <1>1 DEF Tree, Service
<1> QED
  BY <1>4, <1>5 DEF InStep

\* A transaction that rolls back is where it started.
LEMMA RollbackInStep == ASSUME StepInv, Rollback PROVE StepInv'
BY DEF StepInv, Rollback, InStep, Has

\* Nothing but the loop and the entry changes.
LEMMA SameInStep ==
    ASSUME StepInv, UNCHANGED <<tree, found, blocks>>,
           blocks = {} \/ stage' \in {"block", "committed"}
    PROVE  StepInv'
BY DEF StepInv, InStep, Has

\* The tree changes before there are blocks.
LEMMA TreeInStep ==
    ASSUME StepInv, blocks = {}, InStep(tree'), UNCHANGED <<found, blocks>>
    PROVE  StepInv'
BY DEF StepInv, InStep, Has

\* The strengthening of the next theorem is inductive.
LEMMA StepInvariant == TypeOK /\ StepInv /\ [Next]_vars => StepInv'
<1> SUFFICES ASSUME TypeOK, StepInv, [Next]_vars PROVE StepInv'
  OBVIOUS
<1>0. stage \notin {"block", "committed"} => blocks = {}
  BY DEF StepInv
<1>1. CASE CreateNamespace
  <2>1. InStep(tree')
    BY <1>1 DEF CreateNamespace, InStep
  <2> QED
    BY <1>0, <1>1, <2>1, TreeInStep DEF CreateNamespace, Enter
<1>2. CASE CreateSkip
  BY <1>0, <1>2, SameInStep DEF CreateSkip, Proceed
<1>3. CASE CreateSave
  <2>1. InStep(tree')
    BY <1>3, EntryType, SaveInStep DEF CreateSave, StepInv
  <2> QED
    BY <1>0, <1>3, <2>1, TreeInStep DEF CreateSave, Proceed
<1>4. CASE CreatePassEnds
  BY <1>0, <1>4, SameInStep DEF CreatePassEnds, Enter
<1>5. CASE ModifyNamespace
  BY <1>0, <1>5, SameInStep DEF ModifyNamespace, Enter
<1>6. CASE Pass
  BY <1>0, <1>6, SameInStep DEF Pass, Proceed
<1>7. CASE ModifyDelete
  <2>1. CASE Rollback
    BY <2>1, RollbackInStep
  <2>2. CASE ~ Rollback
    <3>1. InStep(tree')
      BY <1>7, <2>2, EntryType, DeleteInStep DEF ModifyDelete, StepInv, Entry
    <3> QED
      BY <1>0, <1>7, <2>2, <3>1, TreeInStep DEF ModifyDelete, Proceed
  <2> QED
    BY <2>1, <2>2
<1>8. CASE ModifyCreate
  <2>1. CASE Rollback
    BY <2>1, RollbackInStep
  <2>2. CASE Creatable(entry) /\ Save(entry) /\ Proceed /\ UNCHANGED blocks
    <3>1. InStep(tree')
      BY <1>8, <2>2, EntryType, SaveInStep DEF ModifyCreate, StepInv
    <3> QED
      BY <1>0, <1>8, <2>2, <3>1, TreeInStep DEF ModifyCreate, Proceed
  <2>3. CASE Proceed /\ UNCHANGED <<tree, blocks>>
    BY <1>0, <1>8, <2>3, SameInStep DEF ModifyCreate, Proceed
  <2> QED
    BY <1>8, <2>1, <2>2, <2>3 DEF ModifyCreate
<1>9. CASE ModifyUpdate
  <2>1. CASE Rollback
    BY <2>1, RollbackInStep
  <2>2. CASE ~ Rollback
    <3>1. InStep(tree')
      BY <1>9, <2>2, EntryType, UpdateInStep DEF ModifyUpdate, StepInv
    <3> QED
      BY <1>0, <1>9, <2>2, <3>1, TreeInStep DEF ModifyUpdate, Proceed
  <2> QED
    BY <2>1, <2>2
<1>10. CASE ModifyLoopEnds
  <2>1. stage \notin {"block", "committed"}
    BY <1>10 DEF ModifyLoopEnds, NextLoop
  <2> QED
    BY <1>0, <1>10, <2>1, SameInStep DEF ModifyLoopEnds, Enter
<1>11. CASE SaveBlocks
  <2>1. CASE Rollback
    BY <2>1, RollbackInStep
  <2>2. CASE entry.action = "delete" /\ ~ Rollback
    BY <1>11, <2>2, SameInStep DEF SaveBlocks, Proceed
  <2>3. CASE entry.action # "delete" /\ ~ Rollback
    <3>1. UNCHANGED <<tree, found, stage>> /\ stage = "block"
      BY <1>11, <2>3 DEF SaveBlocks, Proceed
    <3>2. blocks' = blocks \cup ({entry.name} \X entry.blockees)
      BY <1>11, <2>3 DEF SaveBlocks
    <3>3. \A b \in {entry.name} \X entry.blockees : Has(b[1]) /\ Has(b[2])
      <4>1. SUFFICES ASSUME NEW n \in entry.blockees PROVE Has(entry.name) /\ Has(n)
        OBVIOUS
      <4>2. \A m \in {entry.name} \cup entry.blockees : Has(m)
        BY <1>11, <2>3, <4>1 DEF SaveBlocks, Ends
      <4> QED
        BY <4>1, <4>2
    <3> QED
      BY <3>1, <3>2, <3>3 DEF StepInv, InStep, Has
  <2> QED
    BY <2>1, <2>2, <2>3
<1>12. CASE DeleteNamespace
  <2>1. InStep(tree')
    BY <1>12 DEF DeleteNamespace, InStep
  <2> QED
    BY <1>0, <1>12, <2>1, TreeInStep DEF DeleteNamespace
<1>13. CASE Commit
  BY <1>13, SameInStep DEF Commit
<1>14. CASE StatementRejects
  BY <1>14, RollbackInStep DEF StatementRejects
<1>15. CASE UNCHANGED vars
  BY <1>15 DEF vars, StepInv, InStep, Has
<1> QED
  BY <1>1, <1>2, <1>3, <1>4, <1>5, <1>6, <1>7, <1>8, <1>9, <1>10, <1>11, <1>12, <1>13,
     <1>14, <1>15 DEF Next

\* What a seed commits is in step, and its blocks are between services that are
\* there, whatever the input and the namespace before.
THEOREM CommitsInStep == Spec => []CommittedTreeInStep
<1>1. Init => StepInv
  BY TreesInStep DEF Init, StepInv
<1>2. StepInv => CommittedTreeInStep
  BY DEF StepInv, CommittedTreeInStep
<1> QED
  BY <1>1, <1>2, StepInvariant, TypeCorrect, PTL DEF Spec

-----------------------------------------------------------------------------
\* A namespace is created whole: the services left to create are counted right.

Existing == {n \in Names : Has(n)}
NameAt == [i \in 1 .. Len(input.services) |-> input.services[i].name]
ListedNames == {NameAt[i] : i \in 1 .. Len(input.services)}

CountInv ==
    input.action = "create" =>
        /\ stage \in {"start", "create", "block", "committed", "rolled back"}
        /\ stage \in {"create", "block", "committed"} =>
             /\ Existing \subseteq ListedNames
             /\ remaining = Len(input.services) - Cardinality(Existing)
        /\ stage \in {"block", "committed"} => remaining <= 0

\* A new service is one more.
LEMMA OneMore ==
    ASSUME TypeOK, ~ AtEnd, Creatable(entry), Save(entry)
    PROVE  /\ Existing' = Existing \cup {entry.name}
           /\ Cardinality(Existing') = Cardinality(Existing) + 1
           /\ entry.name \in ListedNames
           /\ Cardinality(Existing) \in Nat
<1>1. entry \in Entry /\ index \in 1 .. Len(input.services) /\ entry.name \in Names
  BY EntryType DEF Entry
<1>2. tree' \in Tree /\ tree \in Tree /\ tree[entry.name] = NoService
  BY <1>1, SaveType DEF TypeOK, Creatable, Has
<1>3. [ parent |-> entry.parent, rotation |-> entry.rotation,
        parentRotation |-> ParentRotation(entry.parent), overwritten |-> {} ] = tree'[entry.name]
  BY <1>1, <1>2 DEF Save, Tree
<1>4. tree'[entry.name] # NoService
  <2>1. tree'[entry.name] \in Service
    BY <1>1, <1>3, SaveType DEF TypeOK
  <2> QED
    BY <2>1, SeederAssumptions
<1>5. \A n \in Names : n # entry.name => tree'[n] = tree[n]
  BY <1>1, <1>2 DEF Save, Tree
<1>6. Existing' = Existing \cup {entry.name} /\ entry.name \notin Existing
  BY <1>1, <1>2, <1>4, <1>5 DEF Existing, Has
<1>7. IsFiniteSet(Existing) /\ Cardinality(Existing) \in Nat
  BY FS_Subset, FS_CardinalityType, SeederAssumptions DEF Existing
<1>8. entry.name \in ListedNames
  BY <1>1 DEF ListedNames, NameAt, entry
<1> QED
  BY <1>6, <1>7, <1>8, FS_AddElement

\* A name for every entry and no more entries than names: every entry is there.
LEMMA AllThere ==
    ASSUME TypeOK, Existing \subseteq ListedNames,
           remaining = Len(input.services) - Cardinality(Existing), remaining <= 0
    PROVE  Existing = ListedNames
<1> DEFINE D == 1 .. Len(input.services)
<1>1. IsFiniteSet(D) /\ Cardinality(D) = Len(input.services) /\ Len(input.services) \in Nat
  <2>1. Len(input.services) \in Nat /\ 1 \in Int
    BY FirstEntry
  <2>2. Len(input.services) \in Int
    BY <2>1
  <2>3. IsFiniteSet(D) /\ Cardinality(D) = IF 1 > Len(input.services) THEN 0 ELSE Len(input.services) - 1 + 1
    BY <2>1, <2>2, FS_Interval
  <2> QED
    BY <2>1, <2>3
<1>2. NameAt \in Surjection(D, ListedNames)
  BY DEF NameAt, ListedNames, Surjection
<1>3. IsFiniteSet(ListedNames) /\ Cardinality(ListedNames) <= Cardinality(D)
  BY <1>1, <1>2, FS_Surjection
<1>4. Cardinality(Existing) <= Cardinality(ListedNames)
      /\ (Cardinality(Existing) = Cardinality(ListedNames) => Existing = ListedNames)
  BY <1>3, FS_Subset
<1>5. Cardinality(Existing) \in Nat /\ Cardinality(ListedNames) \in Nat
  BY <1>3, FS_Subset, FS_CardinalityType
<1> QED
  BY <1>1, <1>3, <1>4, <1>5

\* The count is right in every loop.
LEMMA CountInvariant == TypeOK /\ CountInv /\ [Next]_vars => CountInv'
<1> SUFFICES ASSUME TypeOK, CountInv, [Next]_vars, input'.action = "create" PROVE CountInv'
  BY DEF CountInv
<1>1. input' = input /\ input.action = "create"
  BY DEF Next, CreateNamespace, CreateSkip, CreateSave, CreatePassEnds, ModifyNamespace, Pass,
         ModifyDelete, ModifyCreate, ModifyUpdate, ModifyLoopEnds, SaveBlocks, DeleteNamespace,
         Commit, StatementRejects, Rollback, Enter, Proceed, vars
<1>2. ListedNames' = ListedNames
  BY <1>1 DEF ListedNames, NameAt
<1>3. stage \in {"start", "create", "block", "committed", "rolled back"}
  BY <1>1 DEF CountInv
<1>4. CASE CreateNamespace
  <2>1. Existing' = {}
    BY <1>4 DEF CreateNamespace, Existing, Has
  <2>2. remaining' = Len(input.services) /\ stage' = "create" /\ Len(input.services) \in Nat
    BY <1>4, FirstEntry DEF CreateNamespace, Enter
  <2>3. Cardinality(Existing') = 0 /\ Existing' \subseteq ListedNames'
    BY <2>1, FS_EmptySet
  <2>4. remaining' = Len(input'.services) - Cardinality(Existing')
    BY <1>1, <2>2, <2>3
  <2> QED
    BY <2>2, <2>3, <2>4 DEF CountInv
<1>5. CASE CreateSkip
  <2>1. Existing' = Existing
    BY <1>5 DEF CreateSkip, Existing, Has
  <2> QED
    BY <1>1, <1>2, <1>5, <2>1 DEF CreateSkip, Proceed, CountInv
<1>6. CASE CreateSave
  <2>1. /\ Existing' = Existing \cup {entry.name}
        /\ Cardinality(Existing') = Cardinality(Existing) + 1
        /\ entry.name \in ListedNames
        /\ Cardinality(Existing) \in Nat
    BY <1>6, OneMore DEF CreateSave
  <2>2. stage = "create" /\ stage' = "create" /\ remaining' = remaining - 1
    BY <1>6 DEF CreateSave, Proceed
  <2> QED
    BY <1>1, <1>2, <2>1, <2>2, FirstEntry DEF CountInv
<1>7. CASE CreatePassEnds
  <2>1. Existing' = Existing
    BY <1>7 DEF CreatePassEnds, Existing, Has
  <2> QED
    BY <1>1, <1>2, <1>7, <2>1 DEF CreatePassEnds, Enter, CountInv, TypeOK
<1>8. CASE SaveBlocks \/ StatementRejects
  <2>1. CASE Rollback
    BY <1>1, <2>1 DEF Rollback, CountInv
  <2>2. CASE ~ Rollback
    <3>1. UNCHANGED <<tree, remaining, stage>>
      BY <1>8, <2>2 DEF SaveBlocks, StatementRejects, Proceed
    <3>2. Existing' = Existing
      BY <3>1 DEF Existing, Has
    <3> QED
      BY <1>1, <1>2, <3>1, <3>2 DEF CountInv
  <2> QED
    BY <2>1, <2>2
<1>9. CASE Commit
  <2>1. Existing' = Existing
    BY <1>9 DEF Commit, Existing, Has
  <2> QED
    BY <1>1, <1>2, <1>9, <2>1 DEF Commit, CountInv
<1>10. CASE UNCHANGED vars
  <2>1. Existing' = Existing
    BY <1>10 DEF vars, Existing, Has
  <2> QED
    BY <1>1, <1>2, <1>10, <2>1 DEF vars, CountInv
<1>11. ~ (ModifyNamespace \/ Pass \/ ModifyDelete \/ ModifyCreate \/ ModifyUpdate
            \/ ModifyLoopEnds \/ DeleteNamespace)
  BY <1>1, <1>3 DEF ModifyNamespace, Pass, ModifyDelete, ModifyCreate, ModifyUpdate,
                    ModifyLoopEnds, NextLoop, DeleteNamespace
<1> QED
  BY <1>4, <1>5, <1>6, <1>7, <1>8, <1>9, <1>10, <1>11 DEF Next

\* A namespace that is committed holds every service of its list, in whatever
\* order they are listed.
THEOREM NamespacesWhole == Spec => []CreatedWhole
<1>1. Init => CountInv
  BY DEF Init, CountInv
<1>2. TypeOK /\ CountInv => CreatedWhole
  <2> SUFFICES ASSUME TypeOK, CountInv, stage = "committed", input.action = "create",
                      NEW i \in 1 .. Len(input.services)
               PROVE  Has(input.services[i].name)
    BY DEF CreatedWhole
  <2>1. Existing = ListedNames
    BY AllThere DEF CountInv
  <2> QED
    BY <2>1 DEF Existing, ListedNames, NameAt
<1> QED
  BY <1>1, <1>2, CountInvariant, TypeCorrect, PTL DEF Spec

-----------------------------------------------------------------------------
\* A modification does what it was asked: what the loops have done so far.

\* What the entries before the k-th set of a service.
SetBy(n, k) ==
    {a \in Attributes : \E i \in 1 .. Len(input.services) :
        /\ i < k
        /\ input.services[i].name = n /\ input.services[i].action = "modify"
        /\ a \in input.services[i].sets}

\* A service that is there before and that no deletion takes with it.
Stays(n) == found[n] # NoService /\ n \notin Deleted

SameButOverwritten(n, A) ==
    /\ tree[n] # NoService
    /\ tree[n].parent = found[n].parent
    /\ tree[n].rotation = found[n].rotation
    /\ tree[n].parentRotation = found[n].parentRotation
    /\ tree[n].overwritten = found[n].overwritten \cup A

ModifyInv ==
    input.action = "modify" =>
        /\ stage = "start" => tree = found
        /\ stage = "delete" => \A n \in Names : tree[n] \in {found[n], NoService}
        /\ stage \in {"delete", "modify"} => \A n \in Names : Stays(n) => tree[n] = found[n]
        /\ stage = "update" => \A n \in Names : Stays(n) => SameButOverwritten(n, SetBy(n, index))
        /\ stage \in {"block", "committed"} =>
             \A n \in Names : Stays(n) => SameButOverwritten(n, SetBy(n, Len(input.services) + 1))
        /\ stage # "create"

\* A deletion takes with it only what lies below a deleted service from the start.
LEMMA DeletesDeleted ==
    ASSUME TypeOK, ~ AtEnd, entry.action = "delete",
           \A n \in Names : tree[n] \in {found[n], NoService}
    PROVE  Subtree(entry.name) \subseteq Deleted
<1> DEFINE N == {e.name : e \in {d \in Listed : d.action = "delete"}}
<1>1. entry.name \in N
  <2>1. entry \in Listed
    BY EntryType DEF Listed, entry
  <2> QED
    BY <2>1
<1>2. ASSUME NEW D \in SUBSET Names, N \subseteq D, Children(found, D) \subseteq D
      PROVE  Children(tree, D) \subseteq D
  BY <1>2 DEF Children
<1> SUFFICES ASSUME NEW n \in Subtree(entry.name) PROVE n \in Deleted
  OBVIOUS
<1>3. ASSUME NEW D \in SUBSET Names, N \subseteq D, Children(found, D) \subseteq D
      PROVE  n \in D
  <2>1. {entry.name} \subseteq D /\ Children(tree, D) \subseteq D
    BY <1>1, <1>2, <1>3
  <2> QED
    BY <2>1 DEF Subtree, Below
<1>4. n \in Names
  BY DEF Subtree, Below
<1> QED
  BY <1>3, <1>4 DEF Deleted, Below

\* The loops set what the entries ask for, one entry at a time.
LEMMA SetByNone == ASSUME TypeOK PROVE \A n : SetBy(n, 1) = {}
<1>1. \A i \in 1 .. Len(input.services) : ~ (i < 1)
  BY FirstEntry
<1> QED
  BY <1>1 DEF SetBy

LEMMA SetByNext ==
    ASSUME TypeOK, ~ AtEnd, NEW n
    PROVE  SetBy(n, index + 1) =
             IF entry.name = n /\ entry.action = "modify" THEN SetBy(n, index) \cup entry.sets
             ELSE SetBy(n, index)
<1>1. /\ index \in 1 .. Len(input.services) /\ Len(input.services) \in Nat
      /\ entry.sets \subseteq Attributes
  BY EntryType, FirstEntry DEF Entry
<1>2. \A i \in 1 .. Len(input.services) : i < index + 1 <=> i < index \/ i = index
  BY <1>1
<1> QED
  BY <1>1, <1>2 DEF SetBy, entry

\* What rolls back, or moves on without touching the tree, keeps the invariant.
LEMMA RollbackModify == ASSUME ModifyInv, Rollback PROVE ModifyInv'
BY DEF ModifyInv, Rollback

LEMMA StaysOn == ASSUME UNCHANGED <<input, found>>
                 PROVE  \A n : (Stays(n)' <=> Stays(n)) /\ \A k : SetBy(n, k)' = SetBy(n, k)
BY DEF Stays, Deleted, Listed, Below, Children, SetBy

\* Each loop does its part and leaves the rest alone.
LEMMA ModifyInvariant == TypeOK /\ ModifyInv /\ [Next]_vars => ModifyInv'
<1> SUFFICES ASSUME TypeOK, ModifyInv, [Next]_vars PROVE ModifyInv'
  OBVIOUS
<1>0. CASE Rollback
  BY <1>0, RollbackModify
<1>1. ASSUME ~ Rollback PROVE UNCHANGED <<input, found>>
  BY <1>1 DEF Next, CreateNamespace, CreateSkip, CreateSave, CreatePassEnds, ModifyNamespace, Pass,
         ModifyDelete, ModifyCreate, ModifyUpdate, ModifyLoopEnds, SaveBlocks, DeleteNamespace,
         Commit, StatementRejects, Enter, Proceed, vars
<1> SUFFICES ASSUME ~ Rollback, input'.action = "modify" PROVE ModifyInv'
  BY <1>0 DEF ModifyInv
<1>2. /\ UNCHANGED <<input, found>> /\ input.action = "modify" /\ stage # "create"
      /\ \A n : (Stays(n)' <=> Stays(n)) /\ \A k : SetBy(n, k)' = SetBy(n, k)
  BY <1>1, StaysOn DEF ModifyInv
<1>3. CASE ModifyNamespace
  <2>1. tree' = found' /\ stage' = "delete"
    BY <1>2, <1>3 DEF ModifyNamespace, Enter, ModifyInv
  <2> QED
    BY <2>1 DEF ModifyInv
<1>4. CASE Pass
  <2>1. /\ UNCHANGED <<tree, stage>> /\ index' = index + 1
        /\ stage \in {"delete", "modify", "update"}
    BY <1>4 DEF Pass, Proceed
  <2>2. CASE stage = "update"
    <3>1. \A n \in Names : SetBy(n, index + 1) = SetBy(n, index)
      BY <1>4, <2>2, SetByNext DEF Pass
    <3>2. \A n \in Names : Stays(n)' => SameButOverwritten(n, SetBy(n, index))'
      BY <1>2, <2>1, <2>2, <3>1 DEF ModifyInv, SameButOverwritten
    <3> QED
      BY <2>1, <2>2, <3>2 DEF ModifyInv
  <2>3. CASE stage # "update"
    BY <1>2, <2>1, <2>3 DEF ModifyInv
  <2> QED
    BY <2>2, <2>3
<1>5. CASE ModifyDelete
  <2>1. /\ stage = "delete" /\ stage' = "delete" /\ ~ AtEnd /\ entry.action = "delete"
        /\ tree' = [n \in Names |-> IF n \in Subtree(entry.name) THEN NoService ELSE tree[n]]
    BY <1>5 DEF ModifyDelete, Proceed
  <2>2. Subtree(entry.name) \subseteq Deleted
    BY <1>2, <2>1, DeletesDeleted DEF ModifyInv
  <2>3. \A n \in Names : tree'[n] \in {found[n], NoService}
    BY <1>2, <2>1 DEF ModifyInv
  <2>4. \A n \in Names : Stays(n) => tree'[n] = found[n]
    BY <1>2, <2>1, <2>2 DEF ModifyInv, Stays
  <2> QED
    BY <1>2, <2>1, <2>3, <2>4 DEF ModifyInv
<1>6. CASE ModifyCreate
  <2>1. stage = "modify" /\ stage' = "modify" /\ ~ AtEnd
    BY <1>6 DEF ModifyCreate, Proceed
  <2>2. \A n \in Names : Stays(n) => tree'[n] = found[n]
    <3>1. CASE tree' = tree
      BY <1>2, <2>1, <3>1 DEF ModifyInv
    <3>2. CASE Creatable(entry) /\ Save(entry)
      <4>1. \A n \in Names : n # entry.name => tree'[n] = tree[n]
        BY <3>2 DEF Save, TypeOK, Tree
      <4>2. \A n \in Names : Stays(n) => n # entry.name
        BY <1>2, <2>1, <3>2 DEF ModifyInv, Stays, Creatable, Has
      <4> QED
        BY <1>2, <2>1, <4>1, <4>2 DEF ModifyInv
    <3> QED
      BY <1>6, <3>1, <3>2 DEF ModifyCreate
  <2> QED
    BY <1>2, <2>1, <2>2 DEF ModifyInv
<1>7. CASE ModifyUpdate
  <2>1. /\ stage = "update" /\ stage' = "update" /\ ~ AtEnd /\ entry.action = "modify"
        /\ Has(entry.name) /\ index' = index + 1
        /\ tree' = [tree EXCEPT ![entry.name] = Updated(@, entry)]
    BY <1>7 DEF ModifyUpdate, Proceed
  <2>2. \A n \in Names : Stays(n) => SameButOverwritten(n, SetBy(n, index))
    BY <1>2, <2>1 DEF ModifyInv
  <2>3. entry \in Entry /\ entry.name \in Names /\ tree[entry.name] \in Service
    BY <2>1, EntryType DEF Entry, TypeOK, Tree, Has
  <2>4. /\ Updated(tree[entry.name], entry) \in Service
        /\ Updated(tree[entry.name], entry).parent = tree[entry.name].parent
        /\ Updated(tree[entry.name], entry).rotation = tree[entry.name].rotation
        /\ Updated(tree[entry.name], entry).parentRotation = tree[entry.name].parentRotation
        /\ Updated(tree[entry.name], entry).overwritten = tree[entry.name].overwritten \cup entry.sets
    BY <2>3 DEF Updated, Service, Entry
  <2>5. ASSUME NEW n \in Names, Stays(n)' PROVE SameButOverwritten(n, SetBy(n, index))'
    <3>1. Stays(n) /\ SetBy(n, index)' = SetBy(n, index + 1) /\ found' = found
      BY <1>2, <2>1, <2>5
    <3>2. SameButOverwritten(n, SetBy(n, index))
      BY <2>2, <3>1
    <3>3. CASE n = entry.name
      <4>1. tree'[n] = Updated(tree[n], entry)
        BY <2>1, <2>3, <3>3 DEF TypeOK, Tree
      <4>2. SetBy(n, index + 1) = SetBy(n, index) \cup entry.sets
        BY <2>1, <3>3, SetByNext
      <4>3. tree'[n] # NoService
        BY <2>4, <3>3, <4>1, SeederAssumptions
      <4> QED
        BY <2>4, <3>1, <3>2, <3>3, <4>1, <4>2, <4>3 DEF SameButOverwritten
    <3>4. CASE n # entry.name
      <4>1. tree'[n] = tree[n]
        BY <2>1, <3>4 DEF TypeOK, Tree
      <4>2. SetBy(n, index + 1) = SetBy(n, index)
        BY <2>1, <3>4, SetByNext
      <4> QED
        BY <3>1, <3>2, <4>1, <4>2 DEF SameButOverwritten
    <3> QED
      BY <3>3, <3>4
  <2> QED
    BY <2>1, <2>5 DEF ModifyInv
<1>8. CASE ModifyLoopEnds
  <2>1. /\ AtEnd /\ tree' = tree /\ index' = 1
        /\ \/ stage = "delete" /\ stage' = "modify"
           \/ stage = "modify" /\ stage' = "update"
           \/ stage = "update" /\ stage' = "block"
    BY <1>8 DEF ModifyLoopEnds, NextLoop, Enter
  <2>2. CASE stage = "delete"
    BY <1>2, <2>1, <2>2 DEF ModifyInv
  <2>3. CASE stage = "modify"
    <3>1. \A n \in Names : SetBy(n, index)' = {}
      BY <1>2, <2>1, SetByNone
    <3>2. \A n \in Names : Stays(n) => tree'[n] = found[n] /\ found[n] \in Service
      BY <1>2, <2>1, <2>3 DEF ModifyInv, Stays, TypeOK, Tree
    <3>3. \A n \in Names : Stays(n)' => SameButOverwritten(n, SetBy(n, index))'
      BY <1>2, <3>1, <3>2, SeederAssumptions DEF SameButOverwritten
    <3> QED
      BY <2>1, <2>3, <3>3 DEF ModifyInv
  <2>4. CASE stage = "update"
    <3>1. index = Len(input.services) + 1
      <4>1. index \in 1 .. Len(input.services) + 1 /\ index > Len(input.services)
        BY <2>1 DEF AtEnd, TypeOK
      <4>2. Len(input.services) \in Nat
        BY FirstEntry
      <4> QED
        BY <4>1, <4>2
    <3>2. \A n \in Names : Stays(n) => SameButOverwritten(n, SetBy(n, Len(input.services) + 1))
      BY <1>2, <2>4, <3>1 DEF ModifyInv
    <3>3. \A n \in Names : Stays(n)' => SameButOverwritten(n, SetBy(n, Len(input.services) + 1))'
      BY <1>2, <2>1, <3>2 DEF SameButOverwritten
    <3> QED
      BY <2>1, <2>4, <3>3 DEF ModifyInv
  <2> QED
    BY <2>1, <2>2, <2>3, <2>4
<1>9. CASE SaveBlocks \/ Commit
  <2>1. tree' = tree /\ stage = "block" /\ stage' \in {"block", "committed"}
    BY <1>9 DEF SaveBlocks, Commit, Proceed
  <2>2. \A n \in Names : Stays(n)' => SameButOverwritten(n, SetBy(n, Len(input.services) + 1))'
    BY <1>2, <2>1 DEF ModifyInv, SameButOverwritten
  <2> QED
    BY <2>1, <2>2 DEF ModifyInv
<1>10. CASE UNCHANGED vars
  BY <1>2, <1>10 DEF vars, ModifyInv, SameButOverwritten
<1>11. ~ (CreateNamespace \/ CreateSkip \/ CreateSave \/ CreatePassEnds \/ DeleteNamespace
            \/ StatementRejects)
  BY <1>2 DEF CreateNamespace, CreateSkip, CreateSave, CreatePassEnds, DeleteNamespace,
              StatementRejects
<1> QED
  BY <1>3, <1>4, <1>5, <1>6, <1>7, <1>8, <1>9, <1>10, <1>11 DEF Next

\* A modification touches what it names and no more, in whatever order its
\* entries delete, create and update.
THEOREM ModifiesAsAsked == Spec => []ModifiedAsAsked
<1>1. Init => ModifyInv
  BY DEF Init, ModifyInv
<1>2. TypeOK /\ ModifyInv => ModifiedAsAsked
  <2> SUFFICES ASSUME TypeOK, ModifyInv, stage = "committed", input.action = "modify",
                      NEW n \in Names, found[n] # NoService, n \notin Deleted
               PROVE  tree[n] = [found[n] EXCEPT !.overwritten = @ \cup
                        UNION {e.sets : e \in {m \in Listed : m.name = n /\ m.action = "modify"}}]
    BY DEF ModifiedAsAsked
  <2> DEFINE asked == UNION {e.sets : e \in {m \in Listed : m.name = n /\ m.action = "modify"}}
  <2>1. SameButOverwritten(n, SetBy(n, Len(input.services) + 1))
    BY DEF ModifyInv, Stays
  <2>2. SetBy(n, Len(input.services) + 1) = asked
    <3>1. \A i \in 1 .. Len(input.services) :
            input.services[i].sets \subseteq Attributes /\ i < Len(input.services) + 1
      <4>1. input.services \in Seq(Entry)
        BY DEF TypeOK, Input
      <4>2. \A i \in 1 .. Len(input.services) : input.services[i] \in Entry
        BY <4>1, ElementOfSeq
      <4>3. \A i \in 1 .. Len(input.services) : i < Len(input.services) + 1
        BY FirstEntry
      <4>4. \A e \in Entry : e.sets \subseteq Attributes
        BY DEF Entry
      <4> QED
        BY <4>2, <4>3, <4>4
    <3> QED
      BY <3>1 DEF SetBy, Listed
  <2>3. tree[n] \in Service /\ found[n] \in Service
    BY <2>1 DEF SameButOverwritten, TypeOK, Tree
  <2> HIDE DEF asked
  <2>4. tree[n] = [found[n] EXCEPT !.overwritten = @ \cup asked]
    BY <2>1, <2>2, <2>3 DEF SameButOverwritten, Service
  <2> QED
    BY <2>4 DEF asked
<1> QED
  BY <1>1, <1>2, ModifyInvariant, TypeCorrect, PTL DEF Spec

=============================================================================
