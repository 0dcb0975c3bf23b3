--------------------------- MODULE RegistryProofs ---------------------------
(***************************************************************************)
(* Theorems about Registry, for every tree of services, any number of      *)
(* rotates and retries: the types of the rotation table, that a service    *)
(* that acts is not rotated, and that what a rotate asks of locky is       *)
(* within what locky expects, so the theorems about Locky hold of its lock. *)
(***************************************************************************)
EXTENDS Registry, WellFoundedInduction, TLAPS

P == INSTANCE LockyProofs WITH
       Requests <- {post(r, n) : r \in Rotates, n \in Attempts}
                     \cup {delete(r, n) : r \in Rotates, n \in Attempts} \cup OtherRequests,
       Blockees <- [s \in Services |-> {}], ReserveExpiration <- 1,
       LockBodies <- [services : SUBSET Services, expiration : {RotationLockExpiration}],
       MaxInFlight <- LockyInFlight, call <- lockCall, pc <- lockPc,
       pending <- lockPending, answer <- lockAnswer, before <- lockBefore

-----------------------------------------------------------------------------
\* The tree.  A service below another has a parent.
LEMMA DescendantsOf ==
    ASSUME Registered \subseteq Services, NEW s
    PROVE  /\ Descendants(s) \subseteq Registered
           /\ \A t \in Descendants(s) : t = s \/ parent[t] # NoParent
           /\ s \in Registered => s \in Descendants(s)
<1>1. NoParent \notin Services
  BY RegistryAssumptions
<1> DEFINE D == {t \in Registered : t = s \/ parent[t] # NoParent}
<1>2. D \in SUBSET Registered /\ {s} \cap Registered \subseteq D /\ Children(D) \subseteq D
  BY <1>1 DEF Children
<1>3. \A t \in Descendants(s) : t \in D
  BY <1>2 DEF Descendants
<1> QED
  BY <1>1, <1>3 DEF Descendants

-----------------------------------------------------------------------------
\* The current rotation of a service that has any is one of them, and none
\* sorts before it.  None is later than some bound, so there is a last one.
LEMMA LeastElement ==
    ASSUME NEW T \in SUBSET Nat, T # {}
    PROVE  \E n \in T : \A m \in T : n <= m
<1>1. PICK n \in T : \A m \in T : ~ (<<m, n>> \in OpToRel(<, Nat))
  BY NatLessThanWellFounded, WFMin
<1>2. \A m \in T : ~ (m < n)
  BY <1>1 DEF OpToRel
<1> QED
  BY <1>2

Bounded == \E b \in Nat : \A x \in rotations : x.parentRotation <= b /\ x.serviceRotation <= b

LEMMA CurrentIsOne ==
    ASSUME rotations \subseteq Rotation, Bounded, NEW s, RotationsOf(s) # {}
    PROVE  /\ CurrentOf(s) \in RotationsOf(s)
           /\ \A y \in RotationsOf(s) : Sorted(CurrentOf(s), y)
<1> DEFINE rows == RotationsOf(s)
<1>0. \A x \in rows : x \in rotations /\ x.parentRotation \in Int /\ x.serviceRotation \in Nat
  BY DEF RotationsOf, Rotation, Null
<1>1. PICK b \in Nat : \A x \in rotations : x.parentRotation <= b /\ x.serviceRotation <= b
  BY DEF Bounded
<1>2. PICK y \in rows : \A x \in rows : x.parentRotation <= y.parentRotation
  <2> DEFINE T == {b - x.parentRotation : x \in rows}
  <2>1. T \in SUBSET Nat /\ T # {}
    BY <1>0, <1>1
  <2>2. PICK n \in T : \A m \in T : n <= m
    BY <2>1, LeastElement
  <2>3. PICK y \in rows : n = b - y.parentRotation
    OBVIOUS
  <2>4. \A x \in rows : b - y.parentRotation <= b - x.parentRotation
    BY <2>2, <2>3
  <2> QED
    BY <1>0, <2>4
<1> DEFINE last == {x \in rows : x.parentRotation = y.parentRotation}
<1>3. PICK z \in last : \A x \in last : x.serviceRotation <= z.serviceRotation
  <2> DEFINE T == {b - x.serviceRotation : x \in last}
  <2>1. T \in SUBSET Nat /\ T # {}
    BY <1>0, <1>1
  <2>2. PICK n \in T : \A m \in T : n <= m
    BY <2>1, LeastElement
  <2>3. PICK z \in last : n = b - z.serviceRotation
    OBVIOUS
  <2>4. \A x \in last : b - z.serviceRotation <= b - x.serviceRotation
    BY <2>2, <2>3
  <2> QED
    BY <1>0, <2>4
<1>4. \A x \in rows : Sorted(z, x)
  BY <1>0, <1>2, <1>3 DEF Sorted
<1> QED
  BY <1>4 DEF CurrentOf

-----------------------------------------------------------------------------
\* Types.  A rotation without parent rotation is that of a service without parent,
\* so what follows it when an ancestor is rotated is a rotation, too.
Matched(x) ==
    /\ x.serviceId \in Registered
    /\ x.parentRotation = Null <=> parent[x.serviceId] = NoParent

LocalsOK ==
    /\ service \in [Rotates -> Services \cup {NoParent}]
    /\ pc \in [Rotates -> Busy \cup {"idle", "done", "dropped"}]
    /\ descendants \in [Rotates -> SUBSET Services]
    /\ attempt \in [Rotates -> Attempts \cup {0}]
    /\ lockId \in [Rotates -> Attempts \cup {0}]
    /\ pending \in [Rotates -> SUBSET Services]
    /\ tree \in [Rotates -> SUBSET Services]
    /\ current \in [Rotates -> SUBSET Rotation]
    /\ answer \in [Rotates -> {0, 204, 404, 409, 500}]

TableOK ==
    /\ rotations \subseteq Rotation /\ outdated \subseteq Rotates
    /\ \A x \in rotations : Matched(x)
    /\ Bounded

\* What a rotate read is there, and of the tree it is to rotate.
Reading ==
    \A r \in Rotates :
        /\ pc[r] = "idle" => tree[r] = {} /\ current[r] = {}
        /\ tree[r] \subseteq Descendants(service[r])
        /\ \A x \in current[r] : x \in rotations /\ x.serviceId \in tree[r]

TInv ==
    /\ parent \in Trees /\ active \subseteq Services
    /\ LocalsOK /\ TableOK /\ Reading

\* What a rotate needs to read something typed.
Readable == LocalsOK /\ Registered \subseteq Services /\ rotations \subseteq Rotation /\ Bounded

LEMMA TInvReadable ==
    ASSUME TInv
    PROVE  Readable
BY RegistryAssumptions DEF TInv, TableOK, Readable, Registered

\* The rotations a rotate inserts are rotations.
LEMMA NewRotationsOK ==
    ASSUME TInv, NEW r \in Rotates
    PROVE  /\ \A x \in NewRotations(r) : x \in Rotation /\ Matched(x)
           /\ rotations' = rotations \cup NewRotations(r) /\ parent' = parent =>
                /\ rotations' \subseteq Rotation
                /\ \A x \in rotations' : Matched(x)'
                /\ Bounded'
<1>1. ASSUME NEW x \in NewRotations(r)
      PROVE  /\ x \in Rotation /\ Matched(x)
             /\ \E y \in rotations : /\ x.parentRotation <= y.parentRotation + 1
                                     /\ x.serviceRotation <= y.serviceRotation + 1
  <2>1. PICK y \in current[r] : x = NextRotation(y, service[r])
    BY DEF NewRotations
  <2>2. /\ y \in rotations /\ y \in Rotation /\ Matched(y)
        /\ y.serviceId \in Descendants(service[r])
    BY DEF TInv, Reading, TableOK
  <2>3. y.serviceId = service[r] \/ parent[y.serviceId] # NoParent
    BY <2>2, TInvReadable, DescendantsOf DEF Readable
  <2>4. /\ y.serviceId \in Services /\ y.serviceRotation \in Nat \ {0}
        /\ y.parentRotation \in (Nat \ {0}) \cup {Null}
        /\ y.serviceId # service[r] => y.parentRotation \in Nat \ {0}
    BY <2>2, <2>3 DEF Rotation, Matched
  <2>5. /\ x.serviceId = y.serviceId /\ x.serviceRotation = y.serviceRotation + 1
        /\ x.parentRotation = IF y.serviceId = service[r] THEN y.parentRotation
                              ELSE y.parentRotation + 1
    BY <2>1 DEF NextRotation
  <2>6. x \in Rotation
    BY <2>1, <2>4 DEF NextRotation, Rotation
  <2>7. Matched(x)
    BY <2>2, <2>4, <2>5 DEF Matched, Null
  <2> QED
    BY <2>2, <2>4, <2>5, <2>6, <2>7 DEF Null
<1>2. ASSUME rotations' = rotations \cup NewRotations(r), parent' = parent
      PROVE  /\ rotations' \subseteq Rotation /\ \A x \in rotations' : Matched(x)'
             /\ Bounded'
  <2>1. rotations' \subseteq Rotation /\ \A x \in rotations' : Matched(x)'
    BY <1>1, <1>2 DEF TInv, TableOK, Matched, Registered
  <2>2. PICK b \in Nat : \A x \in rotations : x.parentRotation <= b /\ x.serviceRotation <= b
    BY DEF TInv, TableOK, Bounded
  <2>3. \A x \in rotations' : x.parentRotation \in Int /\ x.serviceRotation \in Int
    BY <2>1 DEF Rotation, Null
  <2>4. \A x \in rotations' : x.parentRotation <= b + 1 /\ x.serviceRotation <= b + 1
    BY <1>1, <1>2, <2>2, <2>3
  <2>5. Bounded'
    BY <2>4 DEF Bounded
  <2> QED
    BY <2>1, <2>5
<1> QED
  BY <1>1, <1>2

\* What a step writes to the table of rotations.
TableEffect(r) == NoRotation \/ InsertRotations(r)

\* What a step of r remembers is typed, and what it reads is of the tree.
Reads(r) == {CurrentOf(s) : s \in {t \in tree[r] : RotationsOf(t) # {}}}

Moves(r) ==
    /\ LocalsOK'
    /\ pc'[r] # "idle" /\ pc[r] \notin {"done", "dropped"}
    /\ pc[r] # "idle" => service'[r] = service[r]
    /\ tree'[r] = tree[r] \/ (pc[r] # "idle" /\ tree'[r] = Descendants(service[r]))
    /\ current'[r] = current[r] \/ (tree'[r] = tree[r] /\ current'[r] = Reads(r))
    /\ \A q \in Rotates \ {r} : /\ pc'[q] = pc[q] /\ service'[q] = service[q]
                                /\ tree'[q] = tree[q] /\ current'[q] = current[q]
    /\ TableEffect(r)

LEMMA ReadsRotations ==
    ASSUME Readable, NEW r \in Rotates
    PROVE  Reads(r) \subseteq Rotation /\ \A x \in Reads(r) : x \in rotations /\ x.serviceId \in tree[r]
<1>1. ASSUME NEW s \in tree[r], RotationsOf(s) # {}
      PROVE  CurrentOf(s) \in rotations /\ CurrentOf(s).serviceId \in tree[r]
  BY <1>1, CurrentIsOne DEF Readable, RotationsOf
<1> QED
  BY <1>1 DEF Reads, Readable

LEMMA StepMoves ==
    ASSUME Readable, NEW r \in Rotates,
           (\E s \in Services : RotateService(r, s)) \/ Step(r) \/ Crash(r)
    PROVE  Moves(r)
<1>0. LocalsOK /\ \A s : Descendants(s) \subseteq Services
  BY DEF Readable, Descendants
<1>1. 1 \in Attempts /\ Reads(r) \subseteq Rotation
  BY RegistryAssumptions, ReadsRotations DEF Attempts
<1> USE <1>0 DEF Moves, Busy, TableEffect, At, LocalsOK
<1>3. ASSUME NEW p \in Busy \cup {"dropped"}, Goto(r, p), pc[r] \in Busy, NoRotation
      PROVE  Moves(r)
  BY <1>3 DEF Goto
<1>4. ASSUME NEW c \in {0, 204, 404, 409, 500}, Answer(r, c), pc[r] \in Busy, TableEffect(r)
      PROVE  Moves(r)
  BY <1>4 DEF Answer
<1>5. ASSUME NEW s \in Services, RotateService(r, s) PROVE Moves(r)
  BY <1>5 DEF RotateService
<1>6. CASE RotateFind(r)
  BY <1>3, <1>4, <1>6 DEF RotateFind
<1>7. CASE RotateDescendants(r)
  BY <1>1, <1>4, <1>7 DEF RotateDescendants, LockedBy
<1>8. CASE RotateLocked(r)
  <2>1. CASE Answer(r, 409) \/ Answer(r, 500)
    BY <1>4, <1>8, <2>1 DEF RotateLocked
  <2>2. CASE ~ (Answer(r, 409) \/ Answer(r, 500))
    BY <1>8, <2>2 DEF RotateLocked
  <2> QED
    BY <2>1, <2>2
<1>9. ASSUME NEW s \in Services, RotateVerify(r, s) PROVE Moves(r)
  <2>1. CASE VerifyPasses(r, s)
    BY <1>9, <2>1 DEF RotateVerify, VerifyPasses
  <2>2. ASSUME NEW c \in {409, 500}, Throw(r, c) PROVE Moves(r)
    BY <1>1, <1>9, <2>2 DEF RotateVerify, Throw
  <2> QED
    BY <1>9, <2>1, <2>2 DEF RotateVerify
<1>10. CASE RotateVerified(r)
  BY <1>3, <1>10 DEF RotateVerified
<1>11. CASE RotateTree(r)
  <2>1. CASE Answer(r, 500)
    BY <1>4, <1>11, <2>1 DEF RotateTree
  <2>2. CASE ~ Answer(r, 500)
    BY <1>11, <2>2 DEF RotateTree
  <2> QED
    BY <2>1, <2>2
<1>12. CASE RotateCurrent(r)
  <2>1. current' = [current EXCEPT ![r] = Reads(r)]
    BY <1>12 DEF RotateCurrent, Reads
  <2> QED
    BY <1>1, <1>12, <2>1 DEF RotateCurrent
<1>13. CASE RotateInsert(r)
  BY <1>1, <1>13 DEF RotateInsert
<1>14. CASE RotateUnlocked(r)
  BY <1>4, <1>14 DEF RotateUnlocked
<1>15. CASE SendAgain(r)
  <2>1. attempt[r] + 1 \in Attempts
    BY <1>15, RegistryAssumptions DEF SendAgain, Attempts
  <2> QED
    BY <1>15, <2>1 DEF SendAgain
<1>16. CASE CallRejects(r)
  BY <1>4, <1>16 DEF CallRejects
<1>17. CASE ReadRejects(r)
  BY <1>4, <1>17 DEF ReadRejects
<1>18. CASE InsertRejects(r)
  BY <1>4, <1>18 DEF InsertRejects
<1>19. CASE Crash(r)
  BY <1>3, <1>19 DEF Crash
<1> QED
  BY <1>5, <1>6, <1>7, <1>8, <1>9, <1>10, <1>11, <1>12, <1>13, <1>14, <1>15, <1>16, <1>17,
     <1>18, <1>19 DEF Step

LEMMA MovesKeepTInv ==
    ASSUME TInv, NEW r \in Rotates, Moves(r), UNCHANGED <<parent, active>>
    PROVE  TInv'
<1>0. LocalsOK /\ TableOK /\ Reading /\ parent \in Trees /\ active \subseteq Services
  BY DEF TInv
<1>1. Registered' = Registered /\ \A s : Descendants(s)' = Descendants(s)
  BY DEF Registered, Children, Descendants
<1>2. TableOK'
  <2>1. CASE NoRotation
    BY <1>0, <1>1, <2>1 DEF NoRotation, TableOK, Bounded, Matched
  <2>2. CASE InsertRotations(r)
    BY <1>0, <2>2, NewRotationsOK DEF InsertRotations, TableOK
  <2> QED
    BY <2>1, <2>2 DEF Moves, TableEffect
<1>3. rotations \subseteq rotations'
  BY DEF Moves, TableEffect, NoRotation, InsertRotations
<1>4. Reading'
  <2> SUFFICES ASSUME NEW q \in Rotates
               PROVE  /\ pc'[q] = "idle" => tree'[q] = {} /\ current'[q] = {}
                      /\ tree'[q] \subseteq Descendants(service'[q])
                      /\ \A x \in current'[q] : x \in rotations' /\ x.serviceId \in tree'[q]
    BY <1>1 DEF Reading
  <2>1. CASE q # r
    BY <1>0, <1>3, <2>1 DEF Moves, Reading
  <2>2. CASE q = r
    <3>1. tree[r] \subseteq tree'[r] /\ tree'[r] \subseteq Descendants(service'[r])
      BY <1>0 DEF Moves, Reading
    <3>2. \A x \in current'[r] : x \in rotations' /\ x.serviceId \in tree'[r]
      BY <1>0, <1>3, <3>1, TInvReadable, ReadsRotations DEF Moves, Reading
    <3> QED
      BY <2>2, <3>1, <3>2 DEF Moves
  <2> QED
    BY <2>1, <2>2
<1> QED
  BY <1>0, <1>2, <1>4 DEF TInv, Moves

LEMMA TInvInductive ==
    /\ Init => TInv
    /\ TInv /\ [Next]_vars => TInv'
<1>1. ASSUME Init PROVE TInv
  <2>1. parent \in Trees /\ Registered \subseteq Services /\ 0 \in Attempts \cup {0}
    BY <1>1, RegistryAssumptions DEF Init, Registered
  <2>2. \A x \in rotations : x \in Rotation /\ Matched(x) /\ x.parentRotation <= 1 /\ x.serviceRotation <= 1
    BY <1>1, <2>1 DEF Init, Rotation, Matched, Null
  <2>3. TableOK
    BY <1>1, <2>2 DEF Init, TableOK, Bounded
  <2>4. LocalsOK /\ Reading
    BY <1>1 DEF Init, LocalsOK, Reading
  <2>5. active \subseteq Services
    BY <1>1 DEF Init, L!Init
  <2> QED
    BY <2>1, <2>3, <2>4, <2>5 DEF TInv
<1>2. ASSUME TInv, UNCHANGED <<locals, parent, rotations, outdated>>, active' \subseteq Services
      PROVE  TInv'
  BY <1>2 DEF TInv, LocalsOK, TableOK, Reading, Bounded, Matched, Registered, Descendants,
     Children, locals
<1>3. ASSUME TInv, [Next]_vars PROVE TInv'
  <2>1. CASE UNCHANGED vars
    BY <1>2, <1>3, <2>1 DEF vars, TInv
  <2>2. CASE LockyStep /\ UNCHANGED <<active, parent>>
    BY <1>2, <1>3, <2>2 DEF LockyStep, TInv
  <2>3. CASE ActivityChanges /\ UNCHANGED parent
    BY <1>2, <1>3, <2>3, RegistryAssumptions DEF ActivityChanges, TInv, Registered
  <2>4. ASSUME NEW r \in Rotates, UNCHANGED <<active, parent>>,
               (\E s \in Services : RotateService(r, s)) \/ Step(r) \/ Crash(r)
        PROVE  TInv'
    BY <1>3, <2>4, TInvReadable, StepMoves, MovesKeepTInv
  <2> QED
    BY <1>3, <2>1, <2>2, <2>3, <2>4 DEF Next, RotateNext
<1> QED
  BY <1>1, <1>3

LEMMA TypesAndReads == Spec => []TInv
  BY TInvInductive, PTL DEF Spec

\* Rotations are positive, and a parent rotation is missing only where the parent
\* is, whatever tree was seeded and however many rotates run at once.
THEOREM TypeCorrect == Spec => []TypeOK
<1>1. TInv => TypeOK
  BY RegistryAssumptions DEF TInv, LocalsOK, TableOK, TypeOK, Registered
<1> QED
  BY <1>1, TypesAndReads, PTL

-----------------------------------------------------------------------------
\* A service that is active all along.  A rotate of it or of an ancestor waits for
\* the check of the service, which does not pass.
Untouched(s) ==
    /\ \A x \in rotations : x.serviceId = s => x.serviceRotation = 1
    /\ \A r \in Rotates :
         /\ pc[r] = "lock" => descendants[r] = Descendants(service[r])
         /\ pc[r] = "verify" /\ s \in Descendants(service[r]) => s \in pending[r]
         /\ pc[r] \in {"tree", "current", "insert"} => s \notin Descendants(service[r])

LEMMA InsertLeavesAlone ==
    ASSUME TInv, NEW s, NEW r \in Rotates, TableEffect(r),
           NoRotation \/ s \notin Descendants(service[r]),
           \A x \in rotations : x.serviceId = s => x.serviceRotation = 1
    PROVE  \A x \in rotations' : x.serviceId = s => x.serviceRotation = 1
<1>1. CASE NoRotation
  BY <1>1 DEF NoRotation
<1>2. CASE InsertRotations(r) /\ s \notin Descendants(service[r])
  <2>1. \A x \in NewRotations(r) : x.serviceId \in Descendants(service[r])
    BY DEF NewRotations, NextRotation, TInv, Reading
  <2> QED
    BY <1>2, <2>1 DEF InsertRotations
<1> QED
  BY <1>1, <1>2 DEF TableEffect

LEMMA StepLeavesAlone ==
    ASSUME TInv, NEW s, Untouched(s), s \in active, NEW r \in Rotates, UNCHANGED parent,
           (\E t \in Services : RotateService(r, t)) \/ Step(r) \/ Crash(r)
    PROVE  Untouched(s)'
<1>0. LocalsOK /\ \A t : Descendants(t)' = Descendants(t)
  BY DEF TInv, Registered, Children, Descendants
<1>1. \A x \in rotations' : x.serviceId = s => x.serviceRotation = 1
  <2>1. NoRotation \/ pc[r] = "insert"
    BY DEF Step, RotateService, RotateFind, RotateDescendants, RotateLocked, RotateVerify,
       RotateVerified, RotateTree, RotateCurrent, RotateInsert, RotateUnlocked, SendAgain,
       CallRejects, ReadRejects, InsertRejects, Crash, At
  <2> QED
    BY <2>1, TInvReadable, StepMoves, InsertLeavesAlone DEF Moves, Untouched
<1>2. \A q \in Rotates \ {r} : /\ pc'[q] = pc[q] /\ service'[q] = service[q]
                               /\ descendants'[q] = descendants[q] /\ pending'[q] = pending[q]
  BY <1>0 DEF LocalsOK, Step, RotateService, RotateFind, RotateDescendants, RotateLocked, RotateVerify,
     RotateVerified, RotateTree, RotateCurrent, RotateInsert, RotateUnlocked, SendAgain,
     CallRejects, ReadRejects, InsertRejects, Crash, Goto, Answer, Throw, VerifyPasses
<1> DEFINE Safe == /\ pc'[r] = "lock" => descendants'[r] = Descendants(service'[r])
                   /\ pc'[r] = "verify" /\ s \in Descendants(service'[r]) => s \in pending'[r]
                   /\ pc'[r] \in {"tree", "current", "insert"} => s \notin Descendants(service'[r])
<1>3. Safe
  <2> USE <1>0 DEF LocalsOK, At, Goto, Answer, Untouched
  <2>1. CASE \E t \in Services : RotateService(r, t)
    BY <2>1 DEF RotateService
  <2>2. CASE RotateFind(r) \/ RotateDescendants(r) \/ RotateLocked(r)
    BY <2>2 DEF RotateFind, RotateDescendants, RotateLocked, LockedBy
  <2>3. ASSUME NEW t \in Services, RotateVerify(r, t) PROVE Safe
    BY <2>3 DEF RotateVerify, Throw, VerifyPasses
  <2>4. CASE RotateVerified(r) \/ RotateTree(r) \/ RotateCurrent(r)
    BY <2>4 DEF RotateVerified, RotateTree, RotateCurrent
  <2>5. CASE RotateInsert(r) \/ RotateUnlocked(r) \/ SendAgain(r) \/ CallRejects(r)
             \/ ReadRejects(r) \/ InsertRejects(r) \/ Crash(r)
    BY <2>5 DEF RotateInsert, RotateUnlocked, SendAgain, CallRejects, ReadRejects, InsertRejects, Crash
  <2> QED
    BY <2>1, <2>2, <2>3, <2>4, <2>5 DEF Step
<1> QED
  BY <1>0, <1>1, <1>2, <1>3 DEF Untouched

\* A service that is active all along is not rotated, whichever service of its
\* ancestry a rotate names and in whatever order the checks answer.
THEOREM ActiveLeftAlone == Spec => BusyServiceNotRotated
<1> SUFFICES ASSUME NEW s \in UNION {DOMAIN t : t \in Trees}
             PROVE  Spec => ([](s \in active) =>
                               [](\A x \in rotations : x.serviceId = s => x.serviceRotation = 1))
  BY DEF BusyServiceNotRotated
<1>1. Init => Untouched(s)
  BY DEF Init, Untouched
<1>2. TInv /\ s \in active /\ Untouched(s) /\ [Next]_vars => Untouched(s)'
  <2> SUFFICES ASSUME TInv, s \in active, Untouched(s), [Next]_vars PROVE Untouched(s)'
    OBVIOUS
  <2>1. CASE UNCHANGED <<locals, parent, rotations>>
    BY <2>1 DEF Untouched, locals, Registered, Children, Descendants
  <2>2. ASSUME NEW r \in Rotates, UNCHANGED parent,
               (\E t \in Services : RotateService(r, t)) \/ Step(r) \/ Crash(r)
        PROVE  Untouched(s)'
    BY <2>2, StepLeavesAlone
  <2> QED
    BY <2>1, <2>2 DEF Next, RotateNext, LockyStep, ActivityChanges, vars
<1>3. Untouched(s) => \A x \in rotations : x.serviceId = s => x.serviceRotation = 1
  BY DEF Untouched
<1> QED
  BY <1>1, <1>2, <1>3, TypesAndReads, PTL DEF Spec

-----------------------------------------------------------------------------
\* The calls to locky.  L, of which Registry is built, and P, of which the theorems
\* about Locky are known, are the same instance.
Calls == {post(r, n) : r \in Rotates, n \in Attempts}
           \cup {delete(r, n) : r \in Rotates, n \in Attempts} \cup OtherRequests

LEMMA SameSteps ==
    /\ \A q \in Calls : L!Step(q) => P!Step(q)
    /\ \A q \in Calls : L!Crash(q) => P!Crash(q)
    /\ L!Tick => P!Tick
    /\ L!Init => P!Init
    /\ L!InFlight \subseteq Calls
<1>1. \A q \in Calls : L!Step(q) => P!Step(q)
  BY DEF P!Step, L!Step, P!LockCheck, L!LockCheck, P!LockInsert, L!LockInsert,
     P!UnlockFind, L!UnlockFind, P!UnlockDelete, L!UnlockDelete,
     P!ReserveCheck, L!ReserveCheck, P!ReserveFetch, L!ReserveFetch,
     P!ReserveInsert, L!ReserveInsert, P!ReserveVerify, L!ReserveVerify,
     P!ReserveGrant, L!ReserveGrant, P!ReserveRollback, L!ReserveRollback,
     P!ReadRejects, L!ReadRejects, P!VerifyRejects, L!VerifyRejects,
     P!InsertRejects, L!InsertRejects, P!DeleteRejects, L!DeleteRejects, P!At, L!At,
     P!Answer, L!Answer, P!Goto, L!Goto, P!PassCheck, L!PassCheck, P!Throw, L!Throw,
     P!CreateLock, L!CreateLock, P!DeleteLock, L!DeleteLock,
     P!FindNonexpiredLocks, L!FindNonexpiredLocks, P!NonExpired, L!NonExpired,
     P!Waiting, L!Waiting
<1>2. \A q \in Calls : L!Crash(q) => P!Crash(q)
  BY DEF P!Crash, L!Crash, P!Waiting, L!Waiting
<1>3. L!Tick => P!Tick
  BY DEF P!Tick, L!Tick, P!locals, L!locals
<1>4. L!Init => P!Init
  BY DEF P!Init, L!Init, P!NoLockRequest, L!NoLockRequest
<1> QED
  BY <1>1, <1>2, <1>3, <1>4 DEF L!InFlight, Calls

LEMMA SameArrivals ==
    /\ \A q, b : L!PostLock(q, b) => P!PostLock(q, b)
    /\ \A q, l : L!DeleteLockId(q, l) => P!DeleteLockId(q, l)
    /\ \A q, c : L!Answered(q, c) = P!Answered(q, c)
<1>1. \A S : L!Cardinality(S) = P!Cardinality(S)
  BY DEF L!Cardinality, P!Cardinality
<1> QED
  BY <1>1 DEF P!PostLock, L!PostLock, P!DeleteLockId, L!DeleteLockId, P!Answered, L!Answered,
     P!Granted, L!Granted, P!Receive, L!Receive, P!NoLockRequest, L!NoLockRequest,
     P!InFlight, L!InFlight, P!Waiting, L!Waiting

\* The assumptions of Locky.
LEMMA LockyAssumed == P!LockyAssumptions
<1>1. NoLock \notin P!Lock
  BY NoLockIsNoRow DEF P!Lock, L!Lock, P!Never, L!Never
<1> QED
  BY <1>1, RegistryAssumptions DEF P!LockyAssumptions, P!LockRequest

\* Where a rotate stands and what it asked of locky: it knows a lock only after
\* locky granted it, asks for the removal of this lock only, and answers that it
\* rotated, or that a service is busy, only when a removal was answered by 204.
Asked(r) ==
    /\ pc[r] \in {"lock", "rollback", "unlock"} => attempt[r] \in Attempts
    /\ pc[r] \in {"verify", "rollback", "tree", "current", "insert", "unlock"} => lockId[r] \in Attempts
    /\ pc[r] \in {"idle", "find", "descendants", "lock"} => lockId[r] = 0
    /\ lockId[r] # 0 => P!Granted(post(r, lockId[r]))
    /\ \A n \in Attempts : lockPc[delete(r, n)] # "idle" =>
         /\ lockId[r] # 0 /\ lockCall[delete(r, n)].kind = "unlock"
         /\ lockCall[delete(r, n)].lockId = post(r, lockId[r])
    /\ pc[r] = "done" /\ answer[r] \in {204, 409} /\ lockId[r] # 0 =>
         \E n \in Attempts : P!Answered(delete(r, n), 204)

LInv == P!IInv /\ P!RowInv /\ \A r \in Rotates : Asked(r)

\* What a step of a rotate asks of locky.
Posts(r) ==
    /\ pc[r] \in {"descendants", "lock"}
    /\ \E n \in Attempts, D \in SUBSET Services :
         P!PostLock(post(r, n), [services |-> D, expiration |-> RotationLockExpiration])

Removes(r) ==
    /\ lockId[r] \in Attempts
    /\ \E n \in Attempts : P!DeleteLockId(delete(r, n), post(r, lockId[r]))

LEMMA StepAsks ==
    ASSUME NEW r \in Rotates, LocalsOK, LocalsOK', Asked(r),
           (\E s \in Services : RotateService(r, s)) \/ Step(r) \/ Crash(r)
    PROVE  UNCHANGED lockyVars \/ Posts(r) \/ Removes(r)
<1>0. 1 \in Attempts /\ descendants'[r] \in SUBSET Services
  BY RegistryAssumptions DEF Attempts, LocalsOK
<1>1. ASSUME NEW n \in Attempts, CreateLock(r, n), pc[r] \in {"descendants", "lock"} PROVE Posts(r)
  BY <1>0, <1>1, SameArrivals DEF CreateLock, Posts
<1>2. ASSUME NEW n \in Attempts, RemoveLock(r, n), lockId[r] \in Attempts PROVE Removes(r)
  BY <1>2, SameArrivals DEF RemoveLock, Removes
<1>3. CASE RotateDescendants(r)
  BY <1>0, <1>1, <1>3 DEF RotateDescendants, At
<1>4. CASE \E s \in Services : RotateVerify(r, s)
  BY <1>0, <1>2, <1>4 DEF RotateVerify, Throw, VerifyPasses, At, Asked
<1>5. CASE RotateInsert(r)
  BY <1>0, <1>2, <1>5 DEF RotateInsert, At, Asked
<1>6. CASE SendAgain(r)
  <2>1. attempt[r] + 1 \in Attempts
    BY <1>6, RegistryAssumptions DEF SendAgain, At, Asked, Attempts
  <2> QED
    BY <1>1, <1>2, <1>6, <2>1 DEF SendAgain, At, Asked
<1> QED
  BY <1>3, <1>4, <1>5, <1>6 DEF Step, RotateService, RotateFind, RotateLocked, RotateVerified,
     RotateTree, RotateCurrent, RotateUnlocked, CallRejects, ReadRejects, InsertRejects, Crash

\* So a step of a rotate, or of locky, is one of Locky.
LEMMA RotateMovesLocky ==
    ASSUME LocalsOK, LocalsOK', LInv, UNCHANGED active, NEW r \in Rotates,
           (\E s \in Services : RotateService(r, s)) \/ Step(r) \/ Crash(r)
    PROVE  [P!Next]_P!vars
<1>1. UNCHANGED lockyVars \/ Posts(r) \/ Removes(r)
  BY StepAsks DEF LInv
<1>2. \A n \in Attempts : post(r, n) \in Calls /\ delete(r, n) \in Calls
  BY DEF Calls
<1>3. CASE Posts(r)
  <2>1. PICK n \in Attempts, D \in SUBSET Services :
          P!PostLock(post(r, n), [services |-> D, expiration |-> RotationLockExpiration])
    BY <1>3 DEF Posts
  <2> DEFINE body == [services |-> D, expiration |-> RotationLockExpiration]
  <2>2. body \in [services : SUBSET Services, expiration : {RotationLockExpiration}]
    OBVIOUS
  <2>3. P!PostLock(post(r, n), body)
    BY <2>1
  <2> HIDE DEF body
  <2>4. P!Arrive(post(r, n))
    BY <2>2, <2>3 DEF P!Arrive
  <2> QED
    BY <1>2, <2>4 DEF P!Next, Calls
<1>4. CASE Removes(r)
  <2>1. PICK n \in Attempts : P!DeleteLockId(delete(r, n), post(r, lockId[r]))
    BY <1>4 DEF Removes
  <2>2. P!Arrive(delete(r, n))
    BY <1>2, <1>4, <2>1 DEF P!Arrive, Removes, Calls
  <2> QED
    BY <1>2, <2>2 DEF P!Next, Calls
<1>5. CASE UNCHANGED lockyVars
  BY <1>5 DEF lockyVars, P!vars, P!locals
<1> QED
  BY <1>1, <1>3, <1>4, <1>5

LEMMA LockyStepMovesLocky ==
    ASSUME LockyStep, UNCHANGED active
    PROVE  [P!Next]_P!vars
<1>1. \/ \E q \in Calls : P!Step(q) \/ P!Crash(q)
      \/ P!Tick
  BY SameSteps DEF LockyStep
<1> QED
  BY <1>1 DEF P!Next, Calls

LEMMA LockyMoves ==
    ASSUME TInv, TInv', LInv, [Next]_vars
    PROVE  [P!Next]_P!vars
<1>1. CASE UNCHANGED <<lockyVars, active>>
  BY <1>1 DEF lockyVars, P!vars, P!locals
<1>2. CASE ActivityChanges
  BY <1>2, RegistryAssumptions DEF ActivityChanges, P!Next, P!ActivityChanges, P!locals, lockyVars,
     TInv, Registered
<1> QED
  BY <1>1, <1>2, RotateMovesLocky, LockyStepMovesLocky DEF Next, RotateNext, vars, TInv

\* A step of a rotate adds calls of its own, and changes none that was made.
LEMMA CallsKept ==
    ASSUME LocalsOK, LocalsOK', LInv, NEW r \in Rotates,
           (\E s \in Services : RotateService(r, s)) \/ Step(r) \/ Crash(r)
    PROVE  /\ lockAnswer' = lockAnswer
           /\ \A q \in Calls : lockPc[q] # "idle" => lockPc'[q] = lockPc[q] /\ lockCall'[q] = lockCall[q]
           /\ \A k \in Rotates, n \in Attempts :
                lockPc[delete(k, n)] = "idle" /\ lockPc'[delete(k, n)] # "idle" =>
                  /\ k = r /\ lockId[r] \in Attempts
                  /\ lockCall'[delete(k, n)].kind = "unlock"
                  /\ lockCall'[delete(k, n)].lockId = post(r, lockId[r])
<1>0. /\ DOMAIN lockPc = Calls /\ DOMAIN lockCall = Calls
      /\ lockPc = [q \in Calls |-> lockPc[q]] /\ lockCall = [q \in Calls |-> lockCall[q]]
  BY DEF LInv, P!IInv, P!TypeOK, Calls
<1>1. \A k \in Rotates, n \in Attempts : post(k, n) \in Calls /\ delete(k, n) \in Calls
  BY DEF Calls
<1>2. \A k, j \in Rotates, n, m \in Attempts :
        /\ post(k, n) # delete(j, m)
        /\ delete(k, n) = delete(j, m) => k = j
  BY DEF post, delete
<1>3. CASE UNCHANGED lockyVars
  BY <1>3 DEF lockyVars
<1>4. CASE Posts(r)
  <2>1. PICK n \in Attempts, D \in SUBSET Services :
          /\ lockPc[post(r, n)] = "idle"
          /\ lockPc' = [lockPc EXCEPT ![post(r, n)] = "check"]
          /\ lockCall' = [lockCall EXCEPT ![post(r, n)] =
               [kind |-> "lock", services |-> D, lockId |-> post(r, n)]]
          /\ UNCHANGED lockAnswer
    BY <1>4 DEF Posts, P!PostLock, P!Receive
  <2> QED
    BY <1>0, <1>1, <1>2, <2>1
<1>5. CASE Removes(r)
  <2>1. PICK n \in Attempts :
          /\ lockPc[delete(r, n)] = "idle"
          /\ lockPc' = [lockPc EXCEPT ![delete(r, n)] = "find"]
          /\ lockCall' = [lockCall EXCEPT ![delete(r, n)] =
               [kind |-> "unlock", services |-> {}, lockId |-> post(r, lockId[r])]]
          /\ UNCHANGED lockAnswer
    BY <1>5 DEF Removes, P!DeleteLockId, P!Receive
  <2> QED
    BY <1>0, <1>1, <1>2, <1>5, <2>1 DEF Removes
<1> QED
  BY <1>3, <1>4, <1>5, StepAsks DEF LInv

\* What a step of a rotate does to what it remembers of locky.
LEMMA StepRemembers ==
    ASSUME NEW r \in Rotates, LocalsOK, Asked(r),
           (\E s \in Services : RotateService(r, s)) \/ Step(r) \/ Crash(r)
    PROVE  /\ pc[r] # "done"
           /\ pc'[r] \in {"lock", "rollback", "unlock"} => attempt'[r] \in Attempts
           /\ pc'[r] \in {"verify", "rollback", "tree", "current", "insert", "unlock"} =>
                lockId'[r] \in Attempts
           /\ pc'[r] \in {"idle", "find", "descendants", "lock"} => lockId'[r] = 0
           /\ lockId'[r] # lockId[r] => lockId[r] = 0 /\ P!Granted(post(r, lockId'[r]))
           /\ pc'[r] = "done" /\ answer'[r] \in {204, 409} /\ lockId'[r] # 0 =>
                \E n \in Attempts : P!Answered(delete(r, n), 204)
           /\ \A q \in Rotates \ {r} : /\ pc'[q] = pc[q] /\ attempt'[q] = attempt[q]
                                       /\ lockId'[q] = lockId[q] /\ answer'[q] = answer[q]
<1> DEFINE Remembers ==
           /\ pc[r] # "done"
           /\ pc'[r] \in {"lock", "rollback", "unlock"} => attempt'[r] \in Attempts
           /\ pc'[r] \in {"verify", "rollback", "tree", "current", "insert", "unlock"} =>
                lockId'[r] \in Attempts
           /\ pc'[r] \in {"idle", "find", "descendants", "lock"} => lockId'[r] = 0
           /\ lockId'[r] # lockId[r] => lockId[r] = 0 /\ P!Granted(post(r, lockId'[r]))
           /\ pc'[r] = "done" /\ answer'[r] \in {204, 409} /\ lockId'[r] # 0 =>
                \E n \in Attempts : P!Answered(delete(r, n), 204)
           /\ \A q \in Rotates \ {r} : /\ pc'[q] = pc[q] /\ attempt'[q] = attempt[q]
                                       /\ lockId'[q] = lockId[q] /\ answer'[q] = answer[q]
<1>0. /\ pc \in [Rotates -> Busy \cup {"idle", "done", "dropped"}]
      /\ attempt \in [Rotates -> Attempts \cup {0}] /\ lockId \in [Rotates -> Attempts \cup {0}]
      /\ answer \in [Rotates -> {0, 204, 404, 409, 500}] /\ 1 \in Attempts /\ 0 \notin Attempts
  BY RegistryAssumptions DEF LocalsOK, Attempts
<1> USE <1>0 DEF At, Asked, Goto, Answer
<1>1. CASE \E s \in Services : RotateService(r, s)
  BY <1>1 DEF RotateService
<1>2. CASE RotateFind(r)
  BY <1>2 DEF RotateFind
<1>3. CASE RotateDescendants(r)
  BY <1>3 DEF RotateDescendants
<1>4. CASE RotateLocked(r)
  <2>1. L!Answered(post(r, attempt[r]), 201) => P!Granted(post(r, attempt[r]))
    BY SameArrivals DEF P!Granted
  <2> QED
    BY <1>4, <2>1 DEF RotateLocked
<1>5. ASSUME NEW s \in Services, RotateVerify(r, s) PROVE Remembers
  <2>1. ASSUME NEW c \in {409, 500}, Throw(r, c) PROVE Remembers
    BY <1>5, <2>1 DEF RotateVerify, Throw
  <2>2. CASE VerifyPasses(r, s)
    BY <1>5, <2>2 DEF RotateVerify, VerifyPasses
  <2> QED
    BY <1>5, <2>1, <2>2 DEF RotateVerify
<1>6. CASE RotateVerified(r)
  BY <1>6 DEF RotateVerified
<1>7. CASE RotateTree(r)
  BY <1>7 DEF RotateTree
<1>8. CASE RotateCurrent(r)
  BY <1>8 DEF RotateCurrent
<1>9. CASE RotateInsert(r)
  BY <1>9 DEF RotateInsert
<1>10. CASE RotateUnlocked(r)
  <2>1. L!Answered(delete(r, attempt[r]), 204) => P!Answered(delete(r, attempt[r]), 204)
    BY SameArrivals
  <2> QED
    BY <1>10, <2>1 DEF RotateUnlocked
<1>11. CASE SendAgain(r)
  <2>1. attempt[r] + 1 \in Attempts
    BY <1>11, RegistryAssumptions DEF SendAgain, Attempts
  <2> QED
    BY <1>11, <2>1 DEF SendAgain
<1>12. CASE CallRejects(r) \/ ReadRejects(r) \/ InsertRejects(r)
  BY <1>12 DEF CallRejects, ReadRejects, InsertRejects
<1>13. CASE Crash(r)
  BY <1>13 DEF Crash, Busy
<1> QED
  BY <1>1, <1>2, <1>3, <1>4, <1>5, <1>6, <1>7, <1>8, <1>9, <1>10, <1>11, <1>12, <1>13 DEF Step

\* Locky answers, and forgets nothing.
LEMMA AskedKept ==
    ASSUME NEW q \in Rotates, Asked(q), lockId[q] \in Attempts \cup {0},
           pc'[q] = pc[q], attempt'[q] = attempt[q], lockId'[q] = lockId[q], answer'[q] = answer[q],
           \A c \in Calls : lockPc[c] = "done" => lockPc'[c] = "done" /\ lockAnswer'[c] = lockAnswer[c],
           \A n \in Attempts : lockPc'[delete(q, n)] # "idle" =>
             \/ lockPc[delete(q, n)] # "idle" /\ lockCall'[delete(q, n)] = lockCall[delete(q, n)]
             \/ /\ lockId[q] # 0 /\ lockCall'[delete(q, n)].kind = "unlock"
                /\ lockCall'[delete(q, n)].lockId = post(q, lockId[q])
    PROVE  Asked(q)'
<1>1. \A n \in Attempts : post(q, n) \in Calls /\ delete(q, n) \in Calls
  BY DEF Calls
<1> QED
  BY <1>1 DEF Asked, P!Granted, P!Answered

LEMMA StepKeepsAsked ==
    ASSUME LocalsOK, LocalsOK', LInv, NEW r \in Rotates,
           (\E s \in Services : RotateService(r, s)) \/ Step(r) \/ Crash(r)
    PROVE  \A q \in Rotates : Asked(q)'
<1>0. /\ \A q \in Rotates : Asked(q) /\ lockId[q] \in Attempts \cup {0}
      /\ 0 \notin Attempts
      /\ \A q \in Rotates, n \in Attempts : post(q, n) \in Calls /\ delete(q, n) \in Calls
  BY RegistryAssumptions DEF LInv, LocalsOK, Calls, Attempts
<1>1. \A c \in Calls : lockPc[c] = "done" => lockPc'[c] = "done" /\ lockAnswer'[c] = lockAnswer[c]
  BY CallsKept
<1>2. \A q \in Rotates, n \in Attempts : lockPc'[delete(q, n)] # "idle" =>
        \/ lockPc[delete(q, n)] # "idle" /\ lockCall'[delete(q, n)] = lockCall[delete(q, n)]
        \/ /\ q = r /\ lockId[q] # 0 /\ lockCall'[delete(q, n)].kind = "unlock"
           /\ lockCall'[delete(q, n)].lockId = post(q, lockId[q])
  BY <1>0, CallsKept
<1>3. ASSUME NEW q \in Rotates \ {r} PROVE Asked(q)'
  BY <1>0, <1>1, <1>2, AskedKept, StepRemembers
<1>4. Asked(r)'
  <2>1. lockId'[r] # 0 => /\ lockPc'[post(r, lockId'[r])] = "done"
                          /\ lockAnswer'[post(r, lockId'[r])] = 201
    <3>1. lockId'[r] \in Attempts \cup {0}
      BY DEF LocalsOK
    <3>2. lockId'[r] # 0 => P!Granted(post(r, lockId'[r]))
      BY <1>0, StepRemembers DEF Asked
    <3> QED
      BY <1>0, <1>1, <3>1, <3>2 DEF P!Granted, P!Answered
  <2>2. \A n \in Attempts : lockPc'[delete(r, n)] # "idle" =>
          /\ lockId'[r] # 0 /\ lockCall'[delete(r, n)].kind = "unlock"
          /\ lockCall'[delete(r, n)].lockId = post(r, lockId'[r])
    BY <1>0, <1>2, StepRemembers DEF Asked
  <2>3. pc'[r] = "done" /\ answer'[r] \in {204, 409} /\ lockId'[r] # 0 =>
          \E n \in Attempts : P!Answered(delete(r, n), 204)'
    BY <1>0, <1>1, StepRemembers DEF P!Answered
  <2> QED
    BY <1>0, <2>1, <2>2, <2>3, StepRemembers DEF Asked, P!Granted, P!Answered
<1> QED
  BY <1>3, <1>4

\* Locky and the environment.
LEMMA LockyKeepsAsked ==
    ASSUME LocalsOK, LInv, NEW q \in Rotates, UNCHANGED locals,
           LockyStep \/ UNCHANGED lockyVars
    PROVE  Asked(q)'
<1>0. /\ Asked(q) /\ lockId[q] \in Attempts \cup {0}
      /\ \A n \in Attempts : post(q, n) \in Calls /\ delete(q, n) \in Calls
      /\ P!TypeOK /\ P!KindsAgree /\ P!UnlocksDelete
  BY DEF LInv, LocalsOK, Calls, P!IInv, P!RowInv
<1>1. UNCHANGED <<pc, attempt, lockId, answer>>
  BY DEF locals
<1> DEFINE Kept ==
      /\ \A c \in Calls : lockPc[c] = "done" => lockPc'[c] = "done" /\ lockAnswer'[c] = lockAnswer[c]
      /\ \A c \in Calls : lockPc[c] = "idle" => lockPc'[c] = "idle"
      /\ lockCall' = lockCall
<1>2. ASSUME UNCHANGED lockyVars PROVE Kept
  BY <1>2 DEF lockyVars
<1>3. ASSUME NEW c \in Calls, P!Step(c) \/ P!Crash(c) PROVE Kept
  <2>1. P!Move(c)
    BY <1>0, <1>3, P!StepMoves, LockyAssumed DEF Calls
  <2>2. /\ lockPc[c] \notin {"idle", "done"} /\ lockCall' = lockCall
        /\ \A d \in Calls : d # c => lockPc'[d] = lockPc[d] /\ lockAnswer'[d] = lockAnswer[d]
    BY <2>1 DEF P!Move, P!Waiting, Calls
  <2> QED
    BY <2>2
<1>4. ASSUME P!Tick PROVE Kept
  BY <1>4 DEF P!Tick, P!locals
<1>5. Kept
  <2>1. CASE LockyStep
    <3>1. P!Tick \/ \E c \in Calls : P!Step(c) \/ P!Crash(c)
      BY <2>1, SameSteps DEF LockyStep
    <3> HIDE DEF Kept
    <3> QED
      BY <1>3, <1>4, <3>1
  <2> HIDE DEF Kept
  <2> QED
    BY <1>2, <2>1
<1>6. \A n \in Attempts : lockPc'[delete(q, n)] # "idle" =>
        lockPc[delete(q, n)] # "idle" /\ lockCall'[delete(q, n)] = lockCall[delete(q, n)]
  BY <1>0, <1>5
<1> QED
  BY <1>0, <1>1, <1>5, <1>6, AskedKept

LEMMA LInvInductive ==
    /\ Init => LInv
    /\ TInv /\ TInv' /\ LInv /\ [Next]_vars => LInv'
<1>1. ASSUME Init PROVE LInv
  <2>1. P!Init
    BY <1>1, SameSteps DEF Init
  <2>2. P!IInv /\ P!RowInv
    BY <2>1, P!RowInvInductive, LockyAssumed
  <2>3. \A q \in Calls : lockPc[q] = "idle"
    BY <2>1 DEF P!Init, Calls
  <2>4. \A r \in Rotates : Asked(r)
    BY <1>1, <2>3 DEF Init, Asked, Calls
  <2> QED
    BY <2>2, <2>4 DEF LInv
<1>2. ASSUME TInv, TInv', LInv, [Next]_vars PROVE LInv'
  <2>1. P!IInv' /\ P!RowInv'
    BY <1>2, LockyMoves, P!RowInvInductive, LockyAssumed DEF LInv
  <2>2. \A r \in Rotates : Asked(r)'
    <3>1. ASSUME NEW r \in Rotates,
                 (\E s \in Services : RotateService(r, s)) \/ Step(r) \/ Crash(r)
          PROVE  \A q \in Rotates : Asked(q)'
      BY <1>2, <3>1, StepKeepsAsked DEF TInv
    <3>2. CASE UNCHANGED locals /\ (LockyStep \/ UNCHANGED lockyVars)
      BY <1>2, <3>2, LockyKeepsAsked DEF TInv
    <3> QED
      BY <1>2, <3>1, <3>2 DEF Next, RotateNext, LockyStep, ActivityChanges, vars
  <2> QED
    BY <2>1, <2>2 DEF LInv
<1> QED
  BY <1>1, <1>2

LEMMA LockyAsExpected == Spec => []LInv
  BY LInvInductive, TypesAndReads, PTL DEF Spec

\* A rotate that is answered that it rotated, or that a service is busy, left no
\* lock behind, whatever calls of locky were lost, late or sent again.
THEOREM LockRemoved == Spec => []AnsweredWithoutLock
<1>1. TInv /\ LInv => AnsweredWithoutLock
  <2> SUFFICES ASSUME TInv, LInv, NEW r \in Rotates, pc[r] = "done", answer[r] \in {204, 409},
                      lockId[r] # 0
               PROVE  locks[post(r, lockId[r])] = NoLock
    BY DEF AnsweredWithoutLock
  <2>1. PICK n \in Attempts : P!Answered(delete(r, n), 204)
    BY DEF LInv, Asked
  <2>2. /\ lockCall[delete(r, n)].kind = "unlock"
        /\ lockCall[delete(r, n)].lockId = post(r, lockId[r])
    BY <2>1 DEF LInv, Asked, P!Answered
  <2>3. delete(r, n) \in Calls
    BY DEF Calls
  <2> QED
    BY <2>1, <2>2, <2>3 DEF LInv, P!RowInv, P!ReleasedStaysReleased, Calls
<1> QED
  BY <1>1, TypesAndReads, LockyAsExpected, PTL

\* The rotates use locky as Locky says its clients do: every behaviour of Registry
\* is one of Locky, and what is proved of Locky holds of the locks of rotates.
THEOREM RotatesUseLocky == Spec => P!Spec
<1>1. Init => P!Init
  BY SameSteps DEF Init
<1>2. TInv /\ TInv' /\ LInv /\ [Next]_vars => [P!Next]_P!vars
  BY LockyMoves
<1> QED
  BY <1>1, <1>2, TypesAndReads, LockyAsExpected, PTL DEF Spec, P!Spec

=============================================================================
