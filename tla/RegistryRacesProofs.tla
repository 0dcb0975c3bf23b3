------------------------ MODULE RegistryRacesProofs ------------------------
(***************************************************************************)
(* Theorems about RegistryRaces, for every scenario of rotates, seeds and  *)
(* runs of services: what a rotate gives a new rotation to it had locked   *)
(* or a seed added since, and it forgets nothing it locked.                *)
(***************************************************************************)
EXTENDS RegistryRaces, RegistryProofs

-----------------------------------------------------------------------------
\* Trees of services.
Forest(t) ==
    /\ DOMAIN t \subseteq Services
    /\ \A s \in DOMAIN t : t[s] \in DOMAIN t \cup {NoParent}
    /\ \A D \in (SUBSET DOMAIN t) \ {{}} : \E s \in D : t[s] \notin D

SeedBounded == \E b \in Nat : \A x \in seedRows : x.parentRotation <= b

\* What a seed has written so far: services that were not there, each with one
\* rotation, and with that of its parent if the seed wrote the parent, too.
Writing ==
    /\ Forest(seedParent)
    /\ \A t \in SeedRegistered \cap Registered : seedParent[t] = parent[t]
    /\ stage = "delete" => SeedRegistered \subseteq Registered
    /\ \A e \in seed.creations : e[1] \in Services \ (Registered \cup SeedRegistered)
    /\ \A e, f \in seed.creations : e[1] = f[1] => e = f
    /\ \A x \in seedRows : /\ x \in Rotation /\ x.serviceId \in Added /\ x.serviceRotation = 1
                           /\ x.parentRotation = Null <=> seedParent[x.serviceId] = NoParent
                           /\ seedParent[x.serviceId] \in Added => x.parentRotation = 1
    /\ \A x, y \in seedRows : x.serviceId = y.serviceId => x = y
    /\ \A s \in Added : \E x \in seedRows : x.serviceId = s
    /\ SeedBounded

\* The service it is about to save.
Saving ==
    stage = "save" =>
        /\ entry[1] \in Services \ (Registered \cup SeedRegistered)
        /\ entry[2] \in SeedRegistered \cup {NoParent}
        /\ \A e \in seed.creations : e[1] # entry[1]
        /\ found \in (Nat \ {0}) \cup {Null}
        /\ found = Null <=> entry[2] = NoParent
        /\ entry[2] \in Added => found = 1

SeedOK ==
    /\ scenario \in Scenarios
    /\ stage \in {"idle", "delete", "create", "save", "rolled back", "committed"}
    /\ Forest(parent)
    /\ stage # "committed" =>
         parent = scenario.tree /\ late = [r \in Rotates |-> {}] /\ behind = {}
    /\ seed \in Seed /\ (stage = "idle" => seedRows = {})
    /\ Open => Writing /\ Saving

RowsOK == TableOK /\ \A s \in Registered : RotationsOf(s) # {}

-----------------------------------------------------------------------------
\* What a rotate knows of the tree.
Knows(r) ==
    /\ pc[r] = "idle" => descendants[r] = {} /\ tree[r] = {}
    /\ pc[r] \in {"idle", "find", "descendants", "lock", "verify", "tree", "current"} =>
         current[r] = {}
    /\ stage # "committed" => descendants[r] \cup tree[r] \subseteq Registered
    /\ pc[r] \in {"lock", "verify", "tree"} =>
         /\ Descendants(service[r]) \subseteq descendants[r] \cup late[r]
         /\ descendants[r] \cap Registered \subseteq Descendants(service[r])
    /\ pc[r] \in {"current", "insert", "unlock"} => tree[r] \subseteq descendants[r] \cup late[r]
    /\ pc[r] \in {"current", "insert"} => descendants[r] \cap Registered \subseteq tree[r]
    /\ \A t \in tree[r] \cap Registered : t = service[r] \/ parent[t] \in tree[r]

\* What a rotate read of the rotations.
Read(r) ==
    /\ \A x \in current[r] :
         /\ x.serviceId \in tree[r]
         /\ x.serviceId = service[r] \/ x.parentRotation # Null
         /\ x.serviceId \in Registered => x \in rotations
    /\ pc[r] = "insert" => \A s \in tree[r] \cap Registered : \E x \in current[r] : x.serviceId = s

\* What a rotate has done.
Moved(r) ==
    /\ pc[r] = "rollback" => answer[r] \in {409, 500}
    /\ pc[r] = "unlock" \/ (pc[r] = "done" /\ answer[r] = 204) =>
         \A s \in descendants[r] \cap Registered :
           \E x \in rotations : x.serviceId = s /\ x.serviceRotation > 1

\* The first rotation of a service sorts last.
Lineage ==
    \A x, y \in rotations :
        x.serviceId = y.serviceId /\ x.serviceRotation = 1 => x.parentRotation <= y.parentRotation

RInv ==
    /\ SeedOK /\ RowsOK /\ LocalsOK
    /\ \A r \in Rotates : Knows(r) /\ Read(r) /\ Moved(r)
    /\ Lineage


-----------------------------------------------------------------------------
\* Trees.  The descendants of a service are it and the children of descendants,
\* and its parent is none of them.
LEMMA DescendantsClosed ==
    ASSUME NEW q
    PROVE  /\ q \in Registered => q \in Descendants(q)
           /\ Children(Descendants(q)) \subseteq Descendants(q)
           /\ \A t \in Descendants(q) : t = q \/ parent[t] \in Descendants(q)
           /\ Forest(parent) /\ q \in Registered => parent[q] \notin Descendants(q)
<1>1. q \in Registered => q \in Descendants(q)
  BY DEF Descendants
<1>2. Children(Descendants(q)) \subseteq Descendants(q)
  <2> SUFFICES ASSUME NEW t \in Registered, parent[t] \in Descendants(q),
                      NEW D \in SUBSET Registered, {q} \cap Registered \subseteq D, Children(D) \subseteq D
               PROVE  t \in D
    BY DEF Children, Descendants
  <2> QED
    BY DEF Children, Descendants
<1>3. \A t \in Descendants(q) : t = q \/ parent[t] \in Descendants(q)
  <2> DEFINE D == {t \in Descendants(q) : t = q \/ parent[t] \in Descendants(q)}
  <2>1. D \in SUBSET Registered /\ {q} \cap Registered \subseteq D
    BY <1>1 DEF Descendants
  <2>2. Children(D) \subseteq D
    BY <1>2 DEF Children
  <2>3. Descendants(q) \subseteq D
    BY <2>1, <2>2 DEF Descendants
  <2> QED
    BY <2>3
<1>4. ASSUME Forest(parent), q \in Registered, parent[q] \in Descendants(q) PROVE FALSE
  <2>1. Descendants(q) \in (SUBSET DOMAIN parent) \ {{}}
    BY <1>1, <1>4 DEF Descendants, Registered
  <2>2. \A t \in Descendants(q) : parent[t] \in Descendants(q)
    BY <1>3, <1>4
  <2> QED
    BY <1>4, <2>1, <2>2 DEF Forest
<1> QED
  BY <1>1, <1>2, <1>3, <1>4

\* The commit of a seed changes the descendants of a service by what it added and
\* what it deleted.
LEMMA DescendantsAfterSeed ==
    ASSUME Forest(parent), Forest(parent)',
           \A t \in Registered \cap Registered' : parent'[t] = parent[t], NEW q
    PROVE  /\ Descendants(q)' \subseteq Descendants(q) \cup (Registered' \ Registered)
           /\ Descendants(q) \cap Registered' \subseteq Descendants(q)'
<1>0. /\ NoParent \notin Registered /\ NoParent \notin Registered'
      /\ \A t \in Registered : parent[t] \in Registered \cup {NoParent}
      /\ \A t \in Registered' : parent'[t] \in Registered' \cup {NoParent}
  BY RegistryAssumptions DEF Forest, Registered
<1>1. ASSUME NEW t \in Descendants(q)', t \in Registered PROVE t \in Descendants(q)
  <2> SUFFICES ASSUME NEW D \in SUBSET Registered, {q} \cap Registered \subseteq D,
                      Children(D) \subseteq D
               PROVE  t \in D
    BY <1>1 DEF Descendants
  <2> DEFINE E == (D \cap Registered') \cup (Registered' \ Registered)
  <2>1. E \in SUBSET Registered' /\ {q} \cap Registered' \subseteq E
    OBVIOUS
  <2>2. \A x \in Registered' : parent'[x] \in E => x \in E
    <3> SUFFICES ASSUME NEW x \in Registered', parent'[x] \in E, x \in Registered PROVE x \in D
      OBVIOUS
    <3>1. parent[x] = parent'[x] /\ parent[x] \in Registered
      BY <1>0
    <3> QED
      BY <3>1 DEF Children
  <2>3. t \in E
    BY <1>1, <2>1, <2>2 DEF Descendants, Children
  <2> QED
    BY <1>1, <2>3
<1>2. ASSUME NEW t \in Descendants(q), t \in Registered' PROVE t \in Descendants(q)'
  <2> SUFFICES ASSUME NEW D \in SUBSET Registered', {q} \cap Registered' \subseteq D,
                      \A x \in Registered' : parent'[x] \in D => x \in D
               PROVE  t \in D
    BY <1>2 DEF Descendants, Children
  <2> DEFINE E == (D \cap Registered) \cup (Registered \ Registered')
  <2>1. E \in SUBSET Registered /\ {q} \cap Registered \subseteq E
    OBVIOUS
  <2>2. Children(E) \subseteq E
    <3> SUFFICES ASSUME NEW x \in Registered, parent[x] \in E, x \in Registered' PROVE x \in D
      BY DEF Children
    <3>1. parent'[x] = parent[x] /\ parent'[x] \in Registered'
      BY <1>0
    <3> QED
      BY <3>1
  <2>3. t \in E
    BY <2>1, <2>2 DEF Descendants
  <2> QED
    BY <1>2, <2>3
<1> QED
  BY <1>1, <1>2 DEF Descendants

-----------------------------------------------------------------------------
\* The course of a rotate: it locks a tree, reads it again, reads its rotations,
\* and inserts what follows them.
Waits(r) ==
    /\ descendants'[r] = descendants[r] /\ tree'[r] = tree[r] /\ current'[r] = current[r]
    /\ NoRotation
    /\ \/ pc'[r] = pc[r]
       \/ pc[r] = "idle" /\ pc'[r] = "find"
       \/ pc[r] = "find" /\ pc'[r] = "descendants"
       \/ pc[r] = "lock" /\ pc'[r] = "verify"
       \/ pc[r] = "verify" /\ pc'[r] = "tree"
       \/ pc'[r] \in {"done", "dropped", "rollback"}
    /\ pc'[r] = "rollback" =>
         answer'[r] \in {409, 500} \/ (pc[r] = "rollback" /\ answer'[r] = answer[r])
    /\ pc'[r] = "done" /\ answer'[r] = 204 =>
         pc[r] = "unlock" \/ (pc[r] = "rollback" /\ answer[r] = 204)

Locks(r) ==
    /\ pc[r] = "descendants" /\ pc'[r] = "lock"
    /\ descendants'[r] = Descendants(service[r]) /\ tree'[r] = tree[r] /\ current'[r] = current[r]
    /\ NoRotation

ReadsTree(r) ==
    /\ pc[r] = "tree" /\ pc'[r] = "current"
    /\ descendants'[r] = descendants[r] /\ tree'[r] = Descendants(service[r])
    /\ current'[r] = current[r]
    /\ NoRotation

ReadsCurrent(r) ==
    /\ pc[r] = "current" /\ pc'[r] = "insert"
    /\ descendants'[r] = descendants[r] /\ tree'[r] = tree[r] /\ current'[r] = Reads(r)
    /\ NoRotation

Writes(r) ==
    /\ pc[r] = "insert" /\ (pc'[r] = "unlock" \/ (pc'[r] = "done" /\ answer'[r] = 500))
    /\ descendants'[r] = descendants[r] /\ tree'[r] = tree[r] /\ current'[r] = current[r]
    /\ InsertRotations(r)

Course(r) ==
    /\ pc'[r] # "idle" /\ pc[r] \notin {"done", "dropped"}
    /\ pc[r] # "idle" => service'[r] = service[r]
    /\ \A q \in Rotates \ {r} : /\ pc'[q] = pc[q] /\ service'[q] = service[q]
                                /\ descendants'[q] = descendants[q] /\ tree'[q] = tree[q]
                                /\ current'[q] = current[q] /\ answer'[q] = answer[q]
    /\ Waits(r) \/ Locks(r) \/ ReadsTree(r) \/ ReadsCurrent(r) \/ Writes(r)

LEMMA StepCourse ==
    ASSUME LocalsOK, NEW r \in Rotates,
           (\E s \in Services : RotateService(r, s)) \/ Step(r) \/ Crash(r)
    PROVE  Course(r)
<1> USE DEF Course, Waits, Busy, At, LocalsOK
<1>3. ASSUME NEW p \in {"descendants", "dropped"}, Goto(r, p), pc[r] \in Busy, NoRotation,
             p = "descendants" => pc[r] = "find"
      PROVE  Course(r)
  BY <1>3 DEF Goto
<1>4. ASSUME NEW c \in {0, 404, 409, 500}, Answer(r, c), pc[r] \in Busy, NoRotation
      PROVE  Course(r)
  BY <1>4 DEF Answer
<1>5. CASE \E s \in Services : RotateService(r, s)
  BY <1>5 DEF RotateService
<1>6. CASE RotateFind(r)
  BY <1>3, <1>4, <1>6 DEF RotateFind
<1>7. CASE RotateDescendants(r)
  <2>1. CASE Answer(r, 500)
    BY <1>4, <1>7, <2>1 DEF RotateDescendants
  <2>2. CASE ~ Answer(r, 500)
    BY <1>7, <2>2 DEF RotateDescendants, LockedBy, Locks
  <2> QED
    BY <2>1, <2>2
<1>8. CASE RotateLocked(r)
  <2>1. CASE Answer(r, 409) \/ Answer(r, 500)
    BY <1>4, <1>8, <2>1 DEF RotateLocked
  <2>2. CASE ~ (Answer(r, 409) \/ Answer(r, 500))
    BY <1>8, <2>2 DEF RotateLocked
  <2> QED
    BY <2>1, <2>2
<1>9. ASSUME NEW s \in Services, RotateVerify(r, s) PROVE Course(r)
  <2>1. CASE VerifyPasses(r, s)
    BY <1>9, <2>1 DEF RotateVerify, VerifyPasses
  <2>2. ASSUME NEW c \in {409, 500}, Throw(r, c) PROVE Course(r)
    BY <1>9, <2>2 DEF RotateVerify, Throw
  <2> QED
    BY <1>9, <2>1, <2>2 DEF RotateVerify
<1>10. CASE RotateVerified(r)
  BY <1>10 DEF RotateVerified, Goto
<1>11. CASE RotateTree(r)
  <2>1. CASE Answer(r, 500)
    BY <1>4, <1>11, <2>1 DEF RotateTree
  <2>2. CASE ~ Answer(r, 500)
    BY <1>11, <2>2 DEF RotateTree, ReadsTree
  <2> QED
    BY <2>1, <2>2
<1>12. CASE RotateCurrent(r)
  <2>1. current' = [current EXCEPT ![r] = Reads(r)]
    BY <1>12 DEF RotateCurrent, Reads
  <2> QED
    BY <1>12, <2>1 DEF RotateCurrent, ReadsCurrent
<1>13. CASE RotateInsert(r)
  BY <1>13 DEF RotateInsert, Writes
<1>14. CASE RotateUnlocked(r)
  BY <1>14 DEF RotateUnlocked, Answer
<1>15. CASE SendAgain(r)
  BY <1>15 DEF SendAgain
<1>16. CASE CallRejects(r)
  BY <1>4, <1>16 DEF CallRejects
<1>17. CASE ReadRejects(r)
  BY <1>4, <1>17 DEF ReadRejects
<1>18. CASE InsertRejects(r)
  <2>1. CASE InsertRotations(r)
    BY <1>18, <2>1 DEF InsertRejects, Answer, Writes
  <2>2. CASE NoRotation
    BY <1>4, <1>18, <2>2 DEF InsertRejects
  <2> QED
    BY <1>18, <2>1, <2>2 DEF InsertRejects
<1>19. CASE Crash(r)
  BY <1>3, <1>19 DEF Crash
<1> QED
  BY <1>5, <1>6, <1>7, <1>8, <1>9, <1>10, <1>11, <1>12, <1>13, <1>14, <1>15, <1>16, <1>17,
     <1>18, <1>19 DEF Step

-----------------------------------------------------------------------------
\* A row that a rotate inserts follows one that is there.
Follows(x, y, r) ==
    /\ y \in current[r] /\ y \in rotations /\ x.serviceId = y.serviceId
    /\ x.serviceId \in tree[r] /\ x.serviceId \in Registered
    /\ x.serviceRotation = y.serviceRotation + 1
    /\ x.parentRotation = IF x.serviceId = service[r] THEN y.parentRotation ELSE y.parentRotation + 1
    /\ x \in Rotation /\ Matched(x)

LEMMA NewRows ==
    ASSUME RInv, NEW r \in Rotates, InsertRotations(r)
    PROVE  /\ \A x \in NewRotations(r) : \E y \in rotations : Follows(x, y, r)
           /\ \A y \in current[r] : \E x \in NewRotations(r) : Follows(x, y, r)
<1>1. ASSUME NEW y \in current[r] PROVE Follows(NextRotation(y, service[r]), y, r)
  <2> DEFINE x == NextRotation(y, service[r])
  <2>1. x \in NewRotations(r) /\ x.serviceId = y.serviceId
    BY DEF NewRotations, NextRotation
  <2>2. /\ x.serviceId \in Registered /\ y \in rotations /\ y \in Rotation /\ Matched(y)
        /\ y.serviceId \in tree[r]
        /\ y.serviceId = service[r] \/ y.parentRotation # Null
    BY <2>1 DEF InsertRotations, RInv, Read, RowsOK, TableOK
  <2>3. /\ y.serviceId \in Services /\ y.serviceRotation \in Nat \ {0}
        /\ y.parentRotation \in (Nat \ {0}) \cup {Null}
    BY <2>2 DEF Rotation
  <2>4. /\ x.serviceRotation = y.serviceRotation + 1
        /\ x.parentRotation = IF x.serviceId = service[r] THEN y.parentRotation
                              ELSE y.parentRotation + 1
    BY <2>1 DEF NextRotation
  <2>5. x \in Rotation
    BY <2>2, <2>3 DEF NextRotation, Rotation
  <2>6. Matched(x)
    BY <2>1, <2>2, <2>3, <2>4 DEF Matched, Null
  <2> QED
    BY <2>1, <2>2, <2>4, <2>5, <2>6 DEF Follows
<1>2. \A x \in NewRotations(r) : \E y \in current[r] : x = NextRotation(y, service[r])
  BY DEF NewRotations
<1>3. \A y \in current[r] : NextRotation(y, service[r]) \in NewRotations(r)
  BY DEF NewRotations
<1> QED
  BY <1>1, <1>2, <1>3 DEF Follows

\* The table stays typed.
LEMMA WritesKeepRows ==
    ASSUME RInv, NEW r \in Rotates, InsertRotations(r) \/ rotations' = rotations,
           outdated' \subseteq Rotates, parent' = parent
    PROVE  RowsOK' /\ Lineage'
<1>0. RowsOK /\ Lineage /\ Registered' = Registered
  BY DEF RInv, Registered
<1>1. CASE rotations' = rotations
  BY <1>0, <1>1 DEF RowsOK, Lineage, TableOK, Matched, Bounded, RotationsOf
<1>2. CASE InsertRotations(r)
  <2>1. /\ rotations' = rotations \cup NewRotations(r)
        /\ \A x \in NewRotations(r) : \E y \in rotations : Follows(x, y, r)
    BY <1>2, NewRows DEF InsertRotations
  <2>2. rotations' \subseteq Rotation /\ \A x \in rotations' : Matched(x)'
    <3>1. \A x \in rotations' : x \in Rotation /\ Matched(x)
      BY <1>0, <2>1 DEF RowsOK, TableOK, Follows
    <3> QED
      BY <1>0, <3>1 DEF Matched
  <2>3. Bounded'
    <3>1. PICK b \in Nat : \A x \in rotations : x.parentRotation <= b /\ x.serviceRotation <= b
      BY <1>0 DEF RowsOK, TableOK, Bounded
    <3>2. \A x \in rotations' : x.parentRotation \in Int /\ x.serviceRotation \in Int
      BY <2>2 DEF Rotation, Null
    <3>3. \A x \in rotations' : x.parentRotation <= b + 1 /\ x.serviceRotation <= b + 1
      <4> SUFFICES ASSUME NEW x \in NewRotations(r)
                   PROVE  x.parentRotation <= b + 1 /\ x.serviceRotation <= b + 1
        BY <2>1, <3>1, <3>2
      <4>1. PICK y \in rotations : Follows(x, y, r)
        BY <2>1
      <4>2. y \in rotations' /\ x \in rotations'
        BY <2>1
      <4> QED
        BY <3>1, <3>2, <4>1, <4>2 DEF Follows
    <3> QED
      BY <3>3 DEF Bounded
  <2>4. \A s \in Registered' : RotationsOf(s)' # {}
    <3>1. \A s \in Registered : RotationsOf(s) \subseteq RotationsOf(s)'
      BY <2>1 DEF RotationsOf
    <3> QED
      BY <1>0, <3>1 DEF RowsOK
  <2>5. Lineage'
    <3> SUFFICES ASSUME NEW x \in rotations', NEW y \in rotations', x.serviceId = y.serviceId,
                        x.serviceRotation = 1
                 PROVE  x.parentRotation <= y.parentRotation
      BY DEF Lineage
    <3>0. \A z \in rotations' : z.parentRotation \in Int /\ z.serviceRotation \in Nat \ {0}
      BY <2>2 DEF Rotation, Null
    <3>1. x \in rotations
      <4> SUFFICES ASSUME x \in NewRotations(r) PROVE FALSE
        BY <2>1
      <4>1. PICK z \in rotations : Follows(x, z, r)
        BY <2>1
      <4>2. z \in rotations'
        BY <2>1
      <4> QED
        BY <3>0, <4>1, <4>2 DEF Follows
    <3>2. CASE y \in rotations
      BY <1>0, <3>1, <3>2 DEF Lineage
    <3>3. CASE y \in NewRotations(r)
      <4>1. PICK z \in rotations : Follows(y, z, r)
        BY <2>1, <3>3
      <4>2. z \in rotations' /\ x.parentRotation <= z.parentRotation
        BY <1>0, <2>1, <3>1, <4>1 DEF Lineage, Follows
      <4> QED
        BY <3>0, <4>1, <4>2 DEF Follows
    <3> QED
      BY <2>1, <3>2, <3>3
  <2> QED
    BY <1>0, <2>2, <2>3, <2>4, <2>5 DEF RowsOK, TableOK
<1> QED
  BY <1>1, <1>2

\* What a rotate reads is there.
LEMMA ReadsRows ==
    ASSUME RInv, NEW r \in Rotates
    PROVE  /\ \A x \in Reads(r) : x \in rotations /\ x.serviceId \in tree[r]
           /\ \A s \in tree[r] \cap Registered : \E x \in Reads(r) : x.serviceId = s
<1>1. /\ rotations \subseteq Rotation /\ Bounded /\ LocalsOK /\ Registered \subseteq Services
      /\ \A s \in Registered : RotationsOf(s) # {}
  BY DEF RInv, RowsOK, TableOK, SeedOK, Forest, Registered
<1>2. ASSUME NEW s \in tree[r] \cap Registered PROVE \E x \in Reads(r) : x.serviceId = s
  <2>1. RotationsOf(s) # {}
    BY <1>1
  <2>2. CurrentOf(s) \in RotationsOf(s)
    BY <1>1, <2>1, CurrentIsOne
  <2>3. CurrentOf(s) \in Reads(r)
    BY <2>1 DEF Reads
  <2> QED
    BY <2>2, <2>3 DEF RotationsOf
<1> QED
  BY <1>1, <1>2, ReadsRotations DEF Readable

\* A step of a rotate leaves the tree alone.
LEMMA SameTree ==
    ASSUME parent' = parent, NEW q \in Rotates, NEW s, service'[q] = s
    PROVE  Registered' = Registered /\ Descendants(service[q])' = Descendants(s)
  BY DEF Registered, Descendants, Children

LEMMA CourseKnows ==
    ASSUME RInv, NEW r \in Rotates, Course(r), parent' = parent, stage' = stage, late' = late
    PROVE  \A q \in Rotates : Knows(q)'
<1>1. ASSUME NEW q \in Rotates, q # r PROVE Knows(q)'
  <2>1. PICK s : s = service[q]
    OBVIOUS
  <2>2. service'[q] = s
    BY <1>1, <2>1 DEF Course
  <2>3. Registered' = Registered /\ Descendants(service[q])' = Descendants(s)
    BY <2>2, SameTree
  <2> QED
    BY <1>1, <2>1, <2>2, <2>3 DEF Course, RInv, Knows
<1>2. Knows(r)'
  <2>1. PICK s : s = service'[r]
    OBVIOUS
  <2>2. /\ Registered' = Registered /\ Descendants(service[r])' = Descendants(s)
        /\ pc[r] # "idle" => s = service[r]
        /\ Knows(r)
    BY <2>1, SameTree DEF Course, RInv
  <2>3. /\ Descendants(s) \subseteq Registered
        /\ \A t \in Descendants(s) : t = s \/ parent[t] \in Descendants(s)
    BY DescendantsClosed DEF Descendants
  <2>4. CASE Waits(r)
    <3>1. /\ pc'[r] # "idle" /\ descendants'[r] = descendants[r] /\ tree'[r] = tree[r]
          /\ pc'[r] \in {"lock", "verify", "tree"} => pc[r] \in {"lock", "verify", "tree"}
          /\ pc'[r] \in {"current", "insert", "unlock"} => pc'[r] = pc[r]
          /\ pc'[r] \in {"idle", "find", "descendants", "lock", "verify", "tree", "current"} =>
               current'[r] = {}
      BY <2>2, <2>4 DEF Waits, Course, Knows
    <3>2. \A t \in tree[r] \cap Registered : t = s \/ parent[t] \in tree[r]
      BY <2>2 DEF Knows
    <3> QED
      BY <2>1, <2>2, <3>1, <3>2 DEF Knows
  <2>5. CASE Locks(r)
    BY <2>1, <2>2, <2>3, <2>5 DEF Knows, Locks
  <2>6. CASE ReadsTree(r)
    BY <2>1, <2>2, <2>3, <2>6 DEF Knows, ReadsTree
  <2>7. CASE ReadsCurrent(r) \/ Writes(r)
    BY <2>1, <2>2, <2>7 DEF Knows, ReadsCurrent, Writes
  <2> QED
    BY <2>4, <2>5, <2>6, <2>7 DEF Course
<1> QED
  BY <1>1, <1>2

LEMMA CourseReads ==
    ASSUME RInv, NEW r \in Rotates, Course(r), parent' = parent
    PROVE  \A q \in Rotates : Read(q)'
<1>0. Registered' = Registered /\ rotations \subseteq rotations'
  BY DEF Registered, Course, Waits, Locks, ReadsTree, ReadsCurrent, Writes, NoRotation, InsertRotations
<1>1. ASSUME NEW q \in Rotates, q # r PROVE Read(q)'
  BY <1>0, <1>1 DEF Course, RInv, Read
<1>2. Read(r)'
  <2>0. Read(r) /\ Knows(r)
    BY DEF RInv
  <2>1. CASE Waits(r) \/ Locks(r) \/ Writes(r)
    <3>1. /\ tree'[r] = tree[r] /\ current'[r] = current[r]
          /\ pc[r] = "idle" => current[r] = {}
          /\ pc'[r] = "insert" => pc[r] = "insert"
      BY <2>0, <2>1 DEF Waits, Locks, Writes, Knows
    <3> QED
      BY <1>0, <2>0, <3>1 DEF Course, Read
  <2>2. CASE ReadsTree(r)
    BY <2>0, <2>2 DEF ReadsTree, Read, Knows
  <2>3. CASE ReadsCurrent(r)
    <3>1. ASSUME NEW x \in Reads(r) PROVE x.serviceId = service[r] \/ x.parentRotation # Null
      <4>1. x \in rotations /\ x.serviceId \in tree[r]
        BY ReadsRows
      <4>2. Matched(x) /\ x.serviceId \in Registered
        BY <4>1 DEF RInv, RowsOK, TableOK, Matched
      <4>3. x.serviceId = service[r] \/ parent[x.serviceId] # NoParent
        <5>1. NoParent \notin Services /\ tree[r] \subseteq Services
          BY RegistryAssumptions DEF RInv, LocalsOK
        <5> QED
          BY <2>0, <4>1, <4>2, <5>1 DEF Knows
      <4> QED
        BY <4>2, <4>3 DEF Matched
    <3> QED
      BY <1>0, <2>3, <3>1, ReadsRows DEF ReadsCurrent, Read, Course
  <2> QED
    BY <2>1, <2>2, <2>3 DEF Course
<1> QED
  BY <1>1, <1>2

LEMMA CourseMoves ==
    ASSUME RInv, NEW r \in Rotates, Course(r), parent' = parent
    PROVE  \A q \in Rotates : Moved(q)'
<1>0. /\ Registered' = Registered /\ rotations \subseteq rotations'
      /\ Moved(r) /\ Knows(r) /\ Read(r)
  BY DEF RInv, Registered, Course, Waits, Locks, ReadsTree, ReadsCurrent, Writes, NoRotation,
     InsertRotations
<1>1. ASSUME NEW q \in Rotates, q # r PROVE Moved(q)'
  BY <1>0, <1>1 DEF Course, RInv, Moved
<1>2. Moved(r)'
  <2>1. CASE Waits(r)
    <3>1. /\ descendants'[r] = descendants[r]
          /\ pc'[r] = "rollback" => answer'[r] \in {409, 500}
          /\ pc'[r] = "unlock" \/ (pc'[r] = "done" /\ answer'[r] = 204) => pc[r] = "unlock"
      BY <1>0, <2>1 DEF Waits, Moved
    <3> QED
      BY <1>0, <3>1 DEF Moved
  <2>2. CASE Locks(r) \/ ReadsTree(r) \/ ReadsCurrent(r)
    BY <1>0, <2>2 DEF Locks, ReadsTree, ReadsCurrent, Moved
  <2>3. CASE Writes(r)
    <3>1. ASSUME NEW s \in descendants[r] \cap Registered
          PROVE  \E x \in rotations' : x.serviceId = s /\ x.serviceRotation > 1
      <4>1. PICK y \in current[r] : y.serviceId = s
        BY <1>0, <2>3 DEF Writes, Knows, Read
      <4>2. PICK x \in NewRotations(r) : Follows(x, y, r)
        BY <2>3, NewRows DEF Writes
      <4>3. x.serviceId = s /\ x.serviceRotation > 1
        BY <4>1, <4>2 DEF Follows, Rotation, RInv, RowsOK, TableOK
      <4>4. x \in rotations'
        BY <2>3 DEF Writes, InsertRotations
      <4> QED
        BY <4>3, <4>4
    <3> QED
      BY <1>0, <2>3, <3>1 DEF Writes, Moved
  <2> QED
    BY <2>1, <2>2, <2>3 DEF Course
<1> QED
  BY <1>1, <1>2

\* A step of a rotate keeps the invariant.
LEMMA RotateKeepsRInv ==
    ASSUME RInv, NEW r \in Rotates,
           (\E s \in Services : RotateService(r, s)) \/ Step(r) \/ Crash(r),
           UNCHANGED <<parent, seedVars, scenario>>
    PROVE  RInv'
<1>1. Readable /\ LocalsOK
  BY DEF RInv, RowsOK, TableOK, SeedOK, Forest, Registered, Readable
<1>2. LocalsOK' /\ Course(r) /\ (InsertRotations(r) \/ NoRotation)
  BY <1>1, StepMoves, StepCourse DEF Moves, TableEffect
<1>3. outdated' \subseteq Rotates
  BY <1>2 DEF RInv, RowsOK, TableOK, InsertRotations, NoRotation
<1>4. SeedOK'
  BY DEF RInv, SeedOK, seedVars, Open, Writing, Saving, SeedBounded, Added, SeedRegistered,
     Registered
<1>5. RowsOK' /\ Lineage'
  BY <1>2, <1>3, WritesKeepRows DEF NoRotation
<1>6. \A q \in Rotates : Knows(q)' /\ Read(q)' /\ Moved(q)'
  BY <1>2, CourseKnows, CourseReads, CourseMoves DEF seedVars
<1> QED
  BY <1>2, <1>4, <1>5, <1>6 DEF RInv

\* Nobody else changes what a rotate knows of the registry, but the commit of a seed.
LEMMA OthersKeepRInv ==
    ASSUME RInv, UNCHANGED <<locals, parent, rotations, outdated, late>>, SeedOK',
           stage = "committed" => stage' = "committed"
    PROVE  RInv'
<1>1. ASSUME NEW q \in Rotates PROVE Knows(q)'
  <2>1. PICK s : s = service[q]
    OBVIOUS
  <2>2. Registered' = Registered /\ Descendants(service[q])' = Descendants(s)
    BY <2>1, SameTree DEF locals
  <2> QED
    BY <2>1, <2>2 DEF RInv, locals, Knows
<1>2. \A q \in Rotates : Read(q)' /\ Moved(q)'
  BY DEF RInv, locals, Read, Moved, Registered
<1>3. RowsOK' /\ Lineage' /\ LocalsOK'
  BY DEF RInv, RowsOK, TableOK, LocalsOK, Lineage, locals, Bounded, Matched, Registered, RotationsOf
<1> QED
  BY <1>1, <1>2, <1>3 DEF RInv

-----------------------------------------------------------------------------
\* The statements of a seed.  The rotation of a parent that exists by now is found.
LEMMA ParentHasRotation ==
    ASSUME RowsOK, Writing, Registered \subseteq Services, NEW p \in SeedRegistered
    PROVE  LET rows == {x \in rotations \cup seedRows : x.serviceId = p}
           IN  \E x \in rows : /\ \A y \in rows : x.serviceRotation >= y.serviceRotation
                               /\ ParentRotation(p) = x.serviceRotation
<1> DEFINE rows == {x \in rotations \cup seedRows : x.serviceId = p}
<1>1. rows # {}
  <2>1. CASE p \in Registered
    BY <2>1 DEF RowsOK, RotationsOf
  <2>2. CASE p \notin Registered
    BY <2>2 DEF Writing, Added
  <2> QED
    BY <2>1, <2>2
<1>2. PICK b \in Nat : \A x \in rotations : x.serviceRotation <= b
  BY DEF RowsOK, TableOK, Bounded
<1>3. \A x \in rows : x.serviceRotation \in Nat /\ x.serviceRotation <= b + 1
  <2>1. \A x \in rotations : x.serviceRotation \in Nat
    BY DEF RowsOK, TableOK, Rotation
  <2>2. \A x \in seedRows : x.serviceRotation = 1
    BY DEF Writing
  <2> QED
    BY <1>2, <2>1, <2>2
<1>4. PICK x \in rows : \A y \in rows : y.serviceRotation <= x.serviceRotation
  <2> DEFINE T == {b + 1 - x.serviceRotation : x \in rows}
  <2>1. T \in SUBSET Nat /\ T # {}
    BY <1>1, <1>3
  <2>2. PICK n \in T : \A m \in T : n <= m
    BY <2>1, LeastElement
  <2>3. PICK x \in rows : n = b + 1 - x.serviceRotation
    OBVIOUS
  <2>4. \A y \in rows : b + 1 - x.serviceRotation <= b + 1 - y.serviceRotation
    BY <2>2, <2>3
  <2> QED
    BY <1>3, <2>4
<1> DEFINE Top(z) == /\ z.serviceId = p
                     /\ \A y \in rotations \cup seedRows :
                          y.serviceId = p => z.serviceRotation >= y.serviceRotation
           top == CHOOSE z \in rotations \cup seedRows : Top(z)
<1>5. top \in rotations \cup seedRows /\ Top(top)
  <2>1. x \in rotations \cup seedRows /\ Top(x)
    BY <1>3, <1>4
  <2> HIDE DEF Top
  <2> QED
    BY <2>1
<1>6. ParentRotation(p) = top.serviceRotation
  BY DEF ParentRotation
<1> HIDE DEF top
<1> QED
  BY <1>5, <1>6

\* Before the commit of the seed the tree is that of the scenario.
LEMMA BeforeCommit ==
    ASSUME SeedOK
    PROVE  /\ Registered \subseteq Services /\ NoParent \notin Services
           /\ \A x \in scenario.seeds :
                /\ x \in Seed
                /\ stage # "committed" => \A e \in x.creations :
                     e[1] \notin Registered /\ \A f \in x.creations : e[1] = f[1] => e = f
<1>1. scenario \in Scenario /\ scenario.seeds \subseteq Seed
  BY RegistryRacesAssumptions DEF SeedOK, Scenario
<1>2. \A x \in scenario.seeds : \A e \in x.creations :
        /\ e[1] \notin DOMAIN scenario.tree
        /\ \A f \in x.creations : e[1] = f[1] => e = f
  BY RegistryRacesAssumptions DEF SeedOK
<1> QED
  BY <1>1, <1>2, RegistryAssumptions DEF SeedOK, Forest, Registered

LEMMA SeedBeginKeeps ==
    ASSUME SeedOK, NEW x \in scenario.seeds, SeedBegin(x), scenario' = scenario
    PROVE  SeedOK'
<1>1. /\ x \in Seed /\ Registered \subseteq Services
      /\ \A e \in x.creations : /\ e[1] \in Services \ Registered
                                /\ \A f \in x.creations : e[1] = f[1] => e = f
  BY BeforeCommit DEF SeedBegin, Seed
<1>2. /\ seed' = x /\ seedParent' = parent /\ parent' = parent /\ seedRows' = {} /\ stage' = "delete"
      /\ SeedRegistered' = Registered /\ Registered' = Registered /\ Added' = {}
  BY DEF SeedBegin, SeedRegistered, Registered, Added, SeedOK
<1>3. Writing'
  <2>1. Forest(parent) /\ 0 \in Nat
    BY DEF SeedOK
  <2> QED
    BY <1>1, <1>2, <2>1 DEF Writing, SeedBounded
<1> QED
  BY <1>1, <1>2, <1>3 DEF SeedOK, Saving, SeedBegin

LEMMA SeedDeleteKeeps ==
    ASSUME SeedOK, NEW s, SeedDelete(s), scenario' = scenario
    PROVE  SeedOK'
<1>1. CASE SeedRollback
  BY <1>1 DEF SeedDelete, SeedRollback, SeedOK, Open
<1>2. CASE ~ SeedRollback
  <2>1. /\ stage = "delete" /\ stage' = "delete"
        /\ seedParent' = [t \in SeedRegistered \ Descendants(s) |-> parent[t]]
        /\ seed' = [seed EXCEPT !.deletions = @ \ {s}]
        /\ parent' = parent /\ seedRows' = seedRows
    BY <1>2 DEF SeedDelete
  <2>2. /\ Writing /\ SeedRegistered \subseteq Registered /\ Forest(parent) /\ Forest(seedParent)
        /\ \A t \in SeedRegistered : seedParent[t] = parent[t]
        /\ seed \in Seed
    BY <2>1 DEF SeedOK, Open, Writing
  <2>3. /\ Registered' = Registered /\ SeedRegistered' = SeedRegistered \ Descendants(s)
        /\ Added = {} /\ Added' = {} /\ seedRows = {}
    BY <2>1, <2>2 DEF Registered, SeedRegistered, Added, Writing
  <2>4. Forest(seedParent')
    <3>1. ASSUME NEW t \in SeedRegistered \ Descendants(s)
          PROVE  parent[t] \in (SeedRegistered \ Descendants(s)) \cup {NoParent}
      <4>1. parent[t] \in SeedRegistered \cup {NoParent}
        BY <2>2 DEF Forest, SeedRegistered
      <4>2. parent[t] \notin Descendants(s)
        BY <2>2, DescendantsClosed DEF Children
      <4> QED
        BY <4>1, <4>2
    <3>2. DOMAIN seedParent' \subseteq DOMAIN parent /\ DOMAIN parent \subseteq Services
      BY <2>1, <2>2 DEF Forest, Registered
    <3>3. \A t \in DOMAIN seedParent' : seedParent'[t] = parent[t]
      BY <2>1
    <3>4. \A D \in (SUBSET DOMAIN parent) \ {{}} : \E t \in D : parent[t] \notin D
      BY <2>2 DEF Forest
    <3>5. \A D \in (SUBSET DOMAIN seedParent') \ {{}} : \E t \in D : seedParent'[t] \notin D
      BY <3>2, <3>3, <3>4
    <3> QED
      BY <2>1, <3>1, <3>2, <3>3, <3>5 DEF Forest
  <2>5. seed' \in Seed /\ seed'.creations = seed.creations
    BY <2>1, <2>2 DEF Seed
  <2>6. Writing'
    BY <2>1, <2>2, <2>3, <2>4, <2>5 DEF Writing, SeedBounded
  <2> QED
    BY <1>2, <2>1, <2>5, <2>6 DEF SeedDelete, SeedOK, Saving
<1> QED
  BY <1>1, <1>2

LEMMA SeedReadKeeps ==
    ASSUME SeedOK, RowsOK, NEW e \in seed.creations, SeedReadParent(e), scenario' = scenario
    PROVE  SeedOK'
<1>1. CASE SeedRollback
  BY <1>1 DEF SeedReadParent, SeedRollback, SeedOK, Open
<1>2. CASE ~ SeedRollback
  <2>1. /\ stage = "create" /\ stage' = "save" /\ e[2] \in SeedRegistered \cup {NoParent}
        /\ seed' = [seed EXCEPT !.creations = @ \ {e}]
        /\ entry' = e
        /\ found' = IF e[2] = NoParent THEN Null ELSE ParentRotation(e[2])
        /\ UNCHANGED <<parent, seedParent, seedRows, late, behind>>
    BY <1>2 DEF SeedReadParent
  <2>2. Writing /\ seed \in Seed /\ Registered \subseteq Services /\ NoParent \notin Services
    BY <2>1, BeforeCommit DEF SeedOK, Open
  <2>3. seed' \in Seed /\ seed'.creations = seed.creations \ {e}
    BY <2>1, <2>2 DEF Seed
  <2>4. Registered' = Registered /\ SeedRegistered' = SeedRegistered /\ Added' = Added
    BY <2>1 DEF Registered, SeedRegistered, Added
  <2>5. Writing'
    BY <2>1, <2>2, <2>3, <2>4 DEF Writing, SeedBounded
  <2>6. NoParent \notin SeedRegistered
    BY <2>2 DEF Writing, Forest, SeedRegistered
  <2>7. e[2] \in SeedRegistered =>
          found' \in Nat \ {0} /\ (e[2] \in Added => found' = 1)
    <3> SUFFICES ASSUME e[2] \in SeedRegistered
                 PROVE  found' \in Nat \ {0} /\ (e[2] \in Added => found' = 1)
      OBVIOUS
    <3>1. PICK x \in rotations \cup seedRows : x.serviceId = e[2] /\ ParentRotation(e[2]) = x.serviceRotation
      BY <2>2, ParentHasRotation
    <3>2. found' = x.serviceRotation
      BY <2>1, <2>6, <3>1
    <3>3. CASE x \in seedRows
      BY <2>2, <3>2, <3>3 DEF Writing
    <3>4. CASE x \in rotations
      <4>1. x \in Rotation /\ x.serviceId \in Registered
        BY <3>4 DEF RowsOK, TableOK, Matched
      <4> QED
        BY <3>1, <3>2, <4>1 DEF Rotation, Added
    <3> QED
      BY <3>3, <3>4
  <2>8. Saving'
    <3>1. e[1] \in Services \ (Registered \cup SeedRegistered) /\ \A f \in seed.creations \ {e} : f[1] # e[1]
      BY <2>2 DEF Writing
    <3>2. NoParent \notin Added /\ found' \in (Nat \ {0}) \cup {Null}
      BY <2>1, <2>6, <2>7 DEF Added
    <3>3. found' = Null <=> e[2] = NoParent
      BY <2>1, <2>6, <2>7 DEF Null
    <3>4. e[2] \in Added => found' = 1
      BY <2>1, <2>7, <3>2
    <3> QED
      BY <2>1, <2>3, <2>4, <3>1, <3>2, <3>3, <3>4 DEF Saving
  <2> QED
    BY <2>1, <2>3, <2>5, <2>8 DEF SeedOK
<1> QED
  BY <1>1, <1>2

LEMMA SeedSaveKeeps ==
    ASSUME SeedOK, SeedSave, scenario' = scenario
    PROVE  SeedOK'
<1> DEFINE n == entry[1]
           row == [serviceId |-> n, parentRotation |-> found, serviceRotation |-> 1]
<1>1. /\ stage = "save" /\ stage' = "create"
      /\ seedParent' = [t \in SeedRegistered \cup {n} |-> IF t = n THEN entry[2] ELSE seedParent[t]]
      /\ seedRows' = seedRows \cup {row}
      /\ UNCHANGED <<parent, seed, late, behind>>
  BY DEF SeedSave
<1>2. /\ Writing /\ Saving /\ NoParent \notin Services
      /\ n \in Services \ (Registered \cup SeedRegistered) /\ entry[2] \in SeedRegistered \cup {NoParent}
  BY <1>1, BeforeCommit DEF SeedOK, Open, Saving
<1>3. /\ Registered' = Registered /\ SeedRegistered' = SeedRegistered \cup {n}
      /\ Added' = Added \cup {n}
      /\ seedParent'[n] = entry[2] /\ \A t \in SeedRegistered : seedParent'[t] = seedParent[t]
  BY <1>1, <1>2 DEF Registered, SeedRegistered, Added
<1> HIDE DEF n
<1>4. Forest(seedParent')
  <2>1. /\ SeedRegistered \subseteq Services
        /\ \A t \in SeedRegistered : seedParent[t] \in SeedRegistered \cup {NoParent}
        /\ \A D \in (SUBSET SeedRegistered) \ {{}} : \E t \in D : seedParent[t] \notin D
    BY <1>2 DEF Writing, Forest, SeedRegistered
  <2>2. ASSUME NEW D \in (SUBSET (SeedRegistered \cup {n})) \ {{}}
        PROVE  \E t \in D : seedParent'[t] \notin D
    <3>1. CASE D = {n}
      BY <1>2, <1>3, <3>1
    <3>2. CASE D # {n}
      <4>1. D \ {n} \in (SUBSET SeedRegistered) \ {{}}
        BY <2>2, <3>2
      <4>2. PICK t \in D \ {n} : seedParent[t] \notin D \ {n}
        BY <2>1, <4>1
      <4>3. t \in SeedRegistered /\ seedParent[t] # n
        BY <1>2, <2>1, <4>1
      <4> QED
        BY <1>3, <4>2, <4>3
    <3> QED
      BY <3>1, <3>2
  <2>3. DOMAIN seedParent' = SeedRegistered \cup {n}
    BY <1>1
  <2>4. \A t \in SeedRegistered \cup {n} : seedParent'[t] \in SeedRegistered \cup {n} \cup {NoParent}
    BY <1>2, <1>3, <2>1
  <2> QED
    BY <1>2, <2>1, <2>2, <2>3, <2>4 DEF Forest
<1>5. /\ row \in Rotation /\ row.serviceId = n /\ row.serviceRotation = 1
      /\ row.parentRotation = found
      /\ found = Null <=> entry[2] = NoParent
      /\ entry[2] \in Added => found = 1
  BY <1>1, <1>2 DEF Saving, Rotation, n
<1> HIDE DEF row
<1>6. \A x \in seedRows : /\ x.serviceId \in Added /\ x.serviceId \in SeedRegistered /\ x.serviceId # n
                          /\ seedParent'[x.serviceId] = seedParent[x.serviceId]
                          /\ seedParent[x.serviceId] # n
  <2>1. \A x \in seedRows : x.serviceId \in SeedRegistered /\ x.serviceId \in Added
    BY <1>2 DEF Writing, Added
  <2>2. \A t \in SeedRegistered : seedParent[t] # n
    BY <1>2 DEF Writing, Forest, SeedRegistered
  <2> QED
    BY <1>2, <1>3, <2>1, <2>2
<1>7. \A x \in seedRows' : /\ x \in Rotation /\ x.serviceId \in Added' /\ x.serviceRotation = 1
                           /\ x.parentRotation = Null <=> seedParent'[x.serviceId] = NoParent
                           /\ seedParent'[x.serviceId] \in Added' => x.parentRotation = 1
  <2>1. /\ n # NoParent /\ entry[2] # n
    BY <1>2
  <2> QED
    BY <1>1, <1>2, <1>3, <1>5, <1>6, <2>1 DEF Writing
<1>8. \A x, y \in seedRows' : x.serviceId = y.serviceId => x = y
  BY <1>1, <1>2, <1>5, <1>6 DEF Writing
<1>9. \A s \in Added' : \E x \in seedRows' : x.serviceId = s
  BY <1>1, <1>2, <1>3, <1>5 DEF Writing
<1>10. SeedBounded'
  <2>1. PICK b \in Nat : \A x \in seedRows : x.parentRotation <= b
    BY <1>2 DEF Writing, SeedBounded
  <2>2. found \in Int /\ \A x \in seedRows : x.parentRotation \in Int
    BY <1>1, <1>2 DEF Saving, Writing, Rotation, Null
  <2>3. \E c \in Nat : found <= c /\ b <= c
    <3>1. CASE found <= b
      BY <3>1
    <3>2. CASE ~ (found <= b)
      BY <2>2, <3>2
    <3> QED
      BY <3>1, <3>2
  <2>4. PICK c \in Nat : found <= c /\ b <= c
    BY <2>3
  <2>5. \A x \in seedRows' : x.parentRotation <= c
    BY <1>1, <1>5, <2>1, <2>2, <2>4
  <2> QED
    BY <2>5 DEF SeedBounded
<1>11. \A e \in seed.creations : /\ e[1] \in Services \ (Registered \cup SeedRegistered \cup {n})
                                 /\ \A f \in seed.creations : e[1] = f[1] => e = f
  BY <1>1, <1>2 DEF Writing, Saving, n
<1>12. \A t \in SeedRegistered' \cap Registered' : seedParent'[t] = parent'[t]
  BY <1>1, <1>2, <1>3 DEF Writing
<1>13. Writing'
  BY <1>1, <1>3, <1>4, <1>7, <1>8, <1>9, <1>10, <1>11, <1>12 DEF Writing
<1> QED
  BY <1>1, <1>13 DEF SeedOK, Saving

\* Every step of the seeder but the commit.
LEMMA SeedKeepsSeedOK ==
    ASSUME SeedOK, RowsOK, scenario' = scenario,
           (\E x \in scenario.seeds : SeedBegin(x)) \/ (SeedStep /\ ~ SeedCommit)
    PROVE  /\ SeedOK' /\ UNCHANGED <<parent, rotations, late, behind>>
           /\ stage # "committed"
<1>1. CASE \E x \in scenario.seeds : SeedBegin(x)
  BY <1>1, SeedBeginKeeps DEF SeedBegin
<1>2. CASE \E s \in Services : SeedDelete(s)
  BY <1>2, SeedDeleteKeeps DEF SeedDelete, SeedRollback
<1>3. CASE SeedDeleted
  <2>1. /\ stage = "delete" /\ stage' = "create"
        /\ UNCHANGED <<parent, rotations, late, behind, seed, seedParent, seedRows>>
    BY <1>3 DEF SeedDeleted
  <2>2. Writing'
    BY <2>1 DEF SeedOK, Open, Writing, SeedBounded, Added, SeedRegistered, Registered
  <2> QED
    BY <2>1, <2>2 DEF SeedOK, Saving
<1>4. CASE \E e \in seed.creations : SeedReadParent(e)
  BY <1>4, SeedReadKeeps DEF SeedReadParent, SeedRollback
<1>5. CASE SeedSave
  BY <1>5, SeedSaveKeeps DEF SeedSave
<1>6. CASE StatementRejects
  BY <1>6 DEF StatementRejects, SeedRollback, SeedOK, Open
<1> QED
  BY <1>1, <1>2, <1>3, <1>4, <1>5, <1>6 DEF SeedStep

-----------------------------------------------------------------------------
\* The commit of a seed.  What was there and is not deleted keeps its rotations
\* and its place; what was added has one rotation.
Committed ==
    /\ Forest(parent)' /\ parent' = seedParent /\ Registered' = SeedRegistered
    /\ stage = "create" /\ stage' = "committed"
    /\ \A t \in Registered \cap Registered' : parent'[t] = parent[t]
    /\ Added = Registered' \ Registered
    /\ rotations' = Kept \cup seedRows
    /\ \A x \in Kept : x \in rotations /\ x.serviceId \in Registered \cap Registered'
    /\ \A x \in rotations : x.serviceId \in Registered' => x \in Kept
    /\ \A x \in seedRows : x.serviceId \in Added
    /\ late = [r \in Rotates |-> {}]
    /\ \A r \in Rotates : late'[r] = IF pc[r] \in {"idle", "find", "descendants"} THEN {} ELSE Added

LEMMA SeedCommits ==
    ASSUME SeedOK, RowsOK, SeedCommit
    PROVE  Committed /\ Writing
<1>1. Writing /\ stage = "create"
  BY DEF SeedCommit, SeedOK, Open
<1>2. /\ parent' = seedParent /\ Registered' = SeedRegistered
      /\ rotations' = Kept \cup seedRows /\ stage' = "committed"
      /\ late' = [r \in Rotates |->
           IF At(r, "idle") \/ At(r, "find") \/ At(r, "descendants") THEN {} ELSE Added]
  BY DEF SeedCommit, SeedRegistered, Registered
<1>3. Forest(parent)'
  BY <1>1, <1>2 DEF Writing
<1>4. \A x \in rotations : x.serviceId \in Registered
  BY DEF RowsOK, TableOK, Matched
<1> QED
  BY <1>1, <1>2, <1>3, <1>4 DEF Committed, Writing, Kept, Added, SeedOK, At

LEMMA CommitKeepsRows ==
    ASSUME RowsOK, Lineage, Committed, Writing, outdated' = outdated
    PROVE  RowsOK' /\ Lineage'
<1>1. \A x \in rotations' : x \in Rotation /\ Matched(x)'
  <2>1. ASSUME NEW x \in Kept PROVE x \in Rotation /\ Matched(x)'
    BY <2>1 DEF RowsOK, TableOK, Matched, Committed
  <2>2. ASSUME NEW x \in seedRows PROVE x \in Rotation /\ Matched(x)'
    BY <2>2 DEF Writing, Matched, Committed, Added
  <2> QED
    BY <2>1, <2>2 DEF Committed
<1>2. Bounded'
  <2>1. PICK b \in Nat : \A x \in rotations : x.parentRotation <= b /\ x.serviceRotation <= b
    BY DEF RowsOK, TableOK, Bounded
  <2>2. PICK c \in Nat : \A x \in seedRows : x.parentRotation <= c
    BY DEF Writing, SeedBounded
  <2>3. \A x \in seedRows : x.serviceRotation = 1
    BY DEF Writing
  <2>4. \A x \in rotations' : x.parentRotation \in Int /\ x.serviceRotation \in Int
    BY <1>1 DEF Rotation, Null
  <2>5. \A x \in rotations' : x.parentRotation <= b + c + 1 /\ x.serviceRotation <= b + c + 1
    <3>1. ASSUME NEW x \in Kept PROVE x.parentRotation <= b + c + 1 /\ x.serviceRotation <= b + c + 1
      BY <2>1, <2>4 DEF Committed
    <3>2. ASSUME NEW x \in seedRows PROVE x.parentRotation <= b + c + 1 /\ x.serviceRotation <= b + c + 1
      BY <2>2, <2>3, <2>4 DEF Committed
    <3> QED
      BY <3>1, <3>2 DEF Committed
  <2>6. b + c + 1 \in Nat
    OBVIOUS
  <2> QED
    BY <2>5, <2>6 DEF Bounded
<1>3. \A s \in Registered' : RotationsOf(s)' # {}
  <2> SUFFICES ASSUME NEW s \in Registered' PROVE \E x \in rotations' : x.serviceId = s
    BY DEF RotationsOf
  <2>1. CASE s \in Registered
    BY <2>1 DEF RowsOK, RotationsOf, Committed
  <2>2. CASE s \notin Registered
    BY <2>2 DEF Writing, Committed
  <2> QED
    BY <2>1, <2>2
<1>4. Lineage'
  <2> SUFFICES ASSUME NEW x \in rotations', NEW y \in rotations', x.serviceId = y.serviceId,
                      x.serviceRotation = 1
               PROVE  x.parentRotation <= y.parentRotation
    BY DEF Lineage
  <2>1. CASE x \in Kept /\ y \in Kept
    BY <2>1 DEF Lineage, Committed
  <2>2. CASE x \in seedRows /\ y \in seedRows
    <3>1. x = y /\ x.parentRotation \in Int
      BY <1>1, <2>2 DEF Writing, Rotation, Null
    <3> QED
      BY <3>1
  <2> QED
    BY <2>1, <2>2 DEF Committed
<1> QED
  BY <1>1, <1>2, <1>3, <1>4 DEF RowsOK, TableOK, Committed

LEMMA CommitKeepsRInv ==
    ASSUME RInv, SeedCommit, UNCHANGED <<locals, outdated, scenario>>
    PROVE  RInv'
<1>1. Committed /\ Writing /\ SeedOK /\ RowsOK /\ Lineage
  BY SeedCommits DEF RInv
<1>2. RowsOK' /\ Lineage' /\ LocalsOK'
  BY <1>1, CommitKeepsRows DEF RInv, LocalsOK, locals
<1>3. SeedOK'
  BY <1>1 DEF SeedOK, SeedCommit, Committed, Open
<1>4. ASSUME NEW r \in Rotates PROVE Knows(r)' /\ Read(r)' /\ Moved(r)'
  <2>0. /\ Knows(r) /\ Read(r) /\ Moved(r) /\ descendants[r] \cup tree[r] \subseteq Registered
        /\ late[r] = {}
        /\ UNCHANGED <<service, pc, descendants, tree, current, answer>>
    BY <1>1 DEF RInv, Committed, Knows, locals
  <2>1. PICK s : s = service[r]
    OBVIOUS
  <2>2. Descendants(service[r])' = Descendants(s)'
    BY <2>0, <2>1 DEF Descendants, Registered, Children
  <2>3. /\ Descendants(s)' \subseteq Descendants(s) \cup Added
        /\ Descendants(s) \cap Registered' \subseteq Descendants(s)'
    BY <1>1, DescendantsAfterSeed DEF Committed, SeedOK
  <2>4. Knows(r)'
    <3>1. pc[r] \in {"lock", "verify", "tree"} =>
            /\ Descendants(s)' \subseteq descendants[r] \cup late'[r]
            /\ descendants[r] \cap Registered' \subseteq Descendants(s)'
      BY <1>1, <2>0, <2>1, <2>3 DEF Knows, Committed
    <3>2. \A t \in tree[r] \cap Registered' : t = service[r] \/ parent'[t] \in tree[r]
      BY <1>1, <2>0 DEF Knows, Committed
    <3> QED
      BY <1>1, <2>0, <2>1, <2>2, <3>1, <3>2 DEF Knows, Committed
  <2>5. Read(r)'
    BY <1>1, <2>0 DEF Read, Committed
  <2>6. Moved(r)'
    BY <1>1, <2>0 DEF Moved, Committed
  <2> QED
    BY <2>4, <2>5, <2>6
<1> QED
  BY <1>2, <1>3, <1>4 DEF RInv

-----------------------------------------------------------------------------
LEMMA RInvInductive ==
    /\ RacesInit => RInv
    /\ RInv /\ [RacesNext]_allVars => RInv'
<1>1. ASSUME RacesInit PROVE RInv
  <2>1. /\ scenario \in Scenarios /\ scenario \in Scenario /\ parent = scenario.tree /\ parent \in Trees
        /\ Init /\ ReseedInit
    BY <1>1, RegistryRacesAssumptions DEF RacesInit, Init
  <2>2. Forest(parent)
    BY <2>1, RegistryAssumptions, TreesAreForests DEF Forest
  <2>3. SeedOK
    BY <2>1, <2>2 DEF SeedOK, ReseedInit, Open, Seed
  <2>4. \A x \in rotations : x \in Rotation /\ Matched(x) /\ x.parentRotation <= 1 /\ x.serviceRotation = 1
    BY <2>1, <2>2 DEF Init, Rotation, Matched, Null, Forest, Registered
  <2>5. RowsOK
    <3>1. ASSUME NEW s \in Registered PROVE RotationsOf(s) # {}
      <4> DEFINE x == [ serviceId |-> s,
                        parentRotation |-> IF parent[s] = NoParent THEN Null ELSE 1,
                        serviceRotation |-> 1 ]
      <4>1. x \in rotations /\ x.serviceId = s
        BY <2>1 DEF Init
      <4> QED
        BY <4>1 DEF RotationsOf
    <3> QED
      BY <2>1, <2>4, <3>1 DEF Init, RowsOK, TableOK, Bounded
  <2>6. LocalsOK
    BY <2>1 DEF Init, LocalsOK
  <2>7. Lineage
    <3> SUFFICES ASSUME NEW x \in rotations, NEW y \in rotations, x.serviceId = y.serviceId
                 PROVE  x.parentRotation <= y.parentRotation
      BY DEF Lineage
    <3>1. x.parentRotation = y.parentRotation /\ x.parentRotation \in Int
      BY <2>1, <2>4 DEF Init, Rotation, Null
    <3> QED
      BY <3>1
  <2>8. \A r \in Rotates : Knows(r) /\ Read(r) /\ Moved(r)
    BY <2>1 DEF Init, Knows, Read, Moved
  <2> QED
    BY <2>3, <2>5, <2>6, <2>7, <2>8 DEF RInv
<1>2. ASSUME RInv, [RacesNext]_allVars PROVE RInv'
  <2>1. CASE UNCHANGED allVars
    <3>1. UNCHANGED <<locals, parent, rotations, outdated, late, stage, scenario>>
      BY <2>1 DEF allVars, vars, seedVars, locals
    <3>2. SeedOK'
      BY <1>2, <2>1 DEF allVars, vars, seedVars, RInv, SeedOK, Open, Writing, Saving, SeedBounded,
         Added, SeedRegistered, Registered
    <3> QED
      BY <1>2, <3>1, <3>2, OthersKeepRInv
  <2>2. ASSUME NEW r \in Rotates, UNCHANGED <<parent, seedVars, scenario>>,
               (\E s \in Services : RotateService(r, s)) \/ Step(r) \/ Crash(r)
        PROVE  RInv'
    BY <1>2, <2>2, RotateKeepsRInv
  <2>3. CASE UNCHANGED <<locals, rotations, outdated, parent, seedVars, scenario>>
    <3>1. SeedOK'
      BY <1>2, <2>3 DEF seedVars, RInv, SeedOK, Open, Writing, Saving, SeedBounded,
         Added, SeedRegistered, Registered
    <3> QED
      BY <1>2, <2>3, <3>1, OthersKeepRInv DEF seedVars
  <2>4. CASE SeedMoves /\ ~ SeedCommit /\ UNCHANGED scenario
    <3>1. (\E x \in scenario.seeds : SeedBegin(x)) \/ (SeedStep /\ ~ SeedCommit)
      BY <2>4 DEF SeedMoves
    <3>2. SeedOK' /\ UNCHANGED <<parent, rotations, late>> /\ stage # "committed"
      BY <1>2, <2>4, <3>1, SeedKeepsSeedOK DEF RInv
    <3> QED
      BY <1>2, <2>4, <3>2, OthersKeepRInv DEF SeedMoves
  <2>5. CASE SeedCommit /\ SeedMoves /\ UNCHANGED scenario
    BY <1>2, <2>5, CommitKeepsRInv DEF SeedMoves
  <2>6. scenario.rotates \subseteq Rotates
    BY <1>2, RegistryRacesAssumptions DEF RInv, SeedOK, Scenario
  <2> QED
    BY <1>2, <2>1, <2>2, <2>3, <2>4, <2>5, <2>6 DEF RacesNext, RotateStep, ClientStep, LockyStep
<1> QED
  BY <1>1, <1>2

LEMMA TreeAndReads == RacesSpec => []RInv
  BY RInvInductive, PTL DEF RacesSpec

\* A rotate inserts rotations of nothing that it had not locked, whatever a seed
\* did to the tree between its two readings, but of what the seed added.
THEOREM NothingRotatedUnlocked == RacesSpec => []RotatedWasLocked
<1>1. RInv => RotatedWasLocked
  <2> SUFFICES ASSUME RInv, NEW r \in Rotates, At(r, "unlock"), NEW x \in NewRotations(r)
               PROVE  x.serviceId \in descendants[r] \cup late[r]
    BY DEF RotatedWasLocked
  <2>1. PICK y \in current[r] : x = NextRotation(y, service[r])
    BY DEF NewRotations
  <2> QED
    BY <2>1 DEF NextRotation, RInv, Knows, Read, At
<1> QED
  BY <1>1, TreeAndReads, PTL

\* A rotate that answered 204 left no service it had locked behind.
THEOREM LockedWasRotated == RacesSpec => []RotatedWhole
<1>1. RInv => RotatedWhole
  <2> SUFFICES ASSUME RInv, NEW r \in Rotates, pc[r] = "done", answer[r] = 204,
                      NEW s \in descendants[r] \cap Registered
               PROVE  CurrentOf(s).serviceRotation > 1
    BY DEF RotatedWhole
  <2>1. PICK x \in rotations : x.serviceId = s /\ x.serviceRotation > 1
    BY DEF RInv, Moved
  <2>2. rotations \subseteq Rotation /\ Bounded /\ RotationsOf(s) # {}
    BY DEF RInv, RowsOK, TableOK
  <2>3. CurrentOf(s) \in RotationsOf(s) /\ Sorted(CurrentOf(s), x)
    BY <2>1, <2>2, CurrentIsOne DEF RotationsOf
  <2> QED
    BY <2>1, <2>2, <2>3 DEF Sorted, RInv, Lineage, RotationsOf, Rotation, Null
<1> QED
  BY <1>1, TreeAndReads, PTL

=============================================================================
