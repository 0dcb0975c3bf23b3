------------------------------ MODULE MCSeeder ------------------------------
(***************************************************************************)
(* Small instances of Seeder for TLC.                                      *)
(***************************************************************************)
EXTENDS Seeder, FiniteSets, TLC

CONSTANTS x, y, z

ThreeNames == {x, y, z}

create(n, p, r, B) ==
    [name |-> n, action |-> "create", parent |-> p, rotation |-> r,
     blockees |-> B, sets |-> Attributes]
delete(n) ==
    [name |-> n, action |-> "delete", parent |-> NoParent, rotation |-> 1,
     blockees |-> {}, sets |-> {}]
modify(n, B, A) ==
    [name |-> n, action |-> "modify", parent |-> NoParent, rotation |-> 1,
     blockees |-> B, sets |-> A]

\* Parents such that no service is its own ancestor.
Forests == {P \in [ThreeNames -> ThreeNames \cup {NoParent}] :
              \E depth \in [ThreeNames -> 0..2] :
                 \A n \in ThreeNames : P[n] # NoParent => depth[P[n]] < depth[n]}

\* Nothing yet, or three services in step, roots at rotation 1 and others at 2.
RotationIn(P, n) == IF P[n] = NoParent THEN 1 ELSE 2
TreeOf(P) ==
    [n \in ThreeNames |->
       [ parent |-> P[n], rotation |-> RotationIn(P, n),
         parentRotation |-> IF P[n] = NoParent THEN Null ELSE RotationIn(P, P[n]),
         overwritten |-> {} ]]
Empty == [n \in ThreeNames |-> NoService]
ManyTrees == {Empty} \cup {TreeOf(P) : P \in Forests}

\* The services of any forest, in any order, with or without blocks.
Order == {o \in [1..3 -> ThreeNames] : \A i, j \in 1..3 : i # j => o[i] # o[j]}
CreateInputs ==
    { [ action |-> "create",
        services |-> [i \in 1..3 |-> create(o[i], P[o[i]], R[o[i]], B \ {o[i]})] ] :
          o \in Order, P \in Forests, R \in [ThreeNames -> {1, 2}], B \in {{}, {x}} }

\* Two entries of any kind, in order or not, on services that exist or not.
Entries ==
    {delete(n) : n \in ThreeNames} \cup {modify(x, {y}, {}), modify(x, {}, {"parallelism"}), modify(y, {}, {"serviceType"})}
      \cup {create(n, p, 2, {z}) : n \in {x, y}, p \in {z, y, NoParent}}
ModifyInputs == {[action |-> "modify", services |-> <<e, f>>] : e, f \in Entries}

ManyInputs == CreateInputs \cup ModifyInputs \cup {[action |-> "delete", services |-> <<>>]}

\* The second x is to be ignored.
DuplicateInputs ==
    {[action |-> "create", services |-> <<create(x, NoParent, 1, {}), create(x, NoParent, 1, {})>>]}
OnlyEmpty == {Empty}
=============================================================================
