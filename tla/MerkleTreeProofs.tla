-------------------------- MODULE MerkleTreeProofs --------------------------
(***************************************************************************)
(* The path GetMerklePath returns leads the circuit to the root BuildTree  *)
(* returned, for every depth, every policy and every hash.                 *)
(***************************************************************************)
EXTENDS MerkleTree, PolicyTreeProofs, TLAPS

Phases == {"build", "path", "panic", "climb"}

\* The number of levels built above the leaves, and of siblings collected.
Built == IF phase = "build" THEN d ELSE TreeDepth
Collected == CASE phase = "build" -> 0
               [] phase \in {"path", "panic"} -> d
               [] phase = "climb" -> TreeDepth

InputsOK ==
    /\ phase \in Phases
    /\ leaves \in Seq(Leaves)
    /\ leafIndex \in Nat /\ leafIndex < Len(leaves)
    /\ d \in 0..TreeDepth

\* Each level is the one BuildTree makes from the level below.
LevelsOK ==
    /\ DOMAIN levels = 0..Built
    /\ levels[0] = PaddedLeaves(leaves)
    /\ \A e \in 1..Built : levels[e] = NextLevel(levels[e - 1], Width[e])

\* Where GetMerklePath has been, and what it read there.
PathOK ==
    /\ DOMAIN position = 0..Collected
    /\ position[0] = leafIndex
    /\ \A e \in 0..Collected : position[e] \in Nat
    /\ \A e \in 1..Collected : /\ position[e - 1] \in Nodes(e - 1)
                               /\ position[e] = position[e - 1] \div 2
    /\ Len(path) = Collected /\ Len(bits) = Collected
    /\ \E S : path \in Seq(S)
    /\ bits \in Seq(0..1)
    /\ \A e \in 1..Collected :
         /\ path[e] = levels[e - 1][SiblingIndex(position[e - 1])]
         /\ bits[e] = position[e - 1] % 2

\* The circuit stands on the node of the holder's position.
ClimbOK ==
    /\ phase = "climb" => current = levels[d][position[d]]
    /\ phase = "panic" => leafIndex >= MaxLeaves

IInv == InputsOK /\ LevelsOK /\ PathOK /\ ClimbOK

-----------------------------------------------------------------------------

LEMMA InvInit == Init => IInv
<1> SUFFICES ASSUME Init PROVE IInv  OBVIOUS
<1>1. InputsOK
  <2>1. PICK n \in 0..MaxIssuers : leaves \in [1..n -> Leaves]
    BY DEF Init
  <2>2. n \in Nat  BY <2>1, MerkleTreeAssumption DEF MerkleTreeAssumption
  <2>3. leaves \in Seq(Leaves) /\ Len(leaves) \in Nat
    BY <2>1, <2>2
  <2>4. QED  BY <2>3, Widths DEF Init, InputsOK, Phases
<1>2. Built = 0 /\ Collected = 0
  BY DEF Init, Built, Collected
<1>3. DOMAIN levels = 0..0 /\ levels[0] = PaddedLeaves(leaves)
  BY DEF Init
<1>4. DOMAIN position = 0..0 /\ position[0] = leafIndex /\ leafIndex \in Nat
  BY <1>1 DEF Init, InputsOK
<1>5. LevelsOK  BY <1>2, <1>3 DEF LevelsOK
<1>6. path = <<>> /\ bits = <<>> /\ path \in Seq({})
  BY DEF Init
<1>7. PathOK  BY <1>2, <1>4, <1>6 DEF PathOK
<1>8. ClimbOK  BY DEF Init, ClimbOK
<1>9. QED  BY <1>1, <1>5, <1>7, <1>8 DEF IInv

\* Where the path has a step at this level, the position is on the level.
LEMMA OnLevel ==
    ASSUME IInv, NEW e \in 1..Collected
    PROVE  position[e - 1] \in Nodes(e - 1) /\ position[e] \in Nodes(e)
<1>1. /\ position[e - 1] \in Nodes(e - 1)
      /\ position[e - 1] \in Nat
      /\ position[e] = position[e - 1] \div 2
      /\ e - 1 \in 0..(TreeDepth - 1)
  BY Widths DEF IInv, PathOK, InputsOK, Collected, Phases
<1>2. QED  BY <1>1, Siblings

LEMMA InvBuild == ASSUME IInv, BuildLevel PROVE IInv'
<1>1. /\ phase = "build" /\ phase' = "build" /\ d \in Nat /\ d < TreeDepth
      /\ d' = d + 1 /\ d' \in 0..TreeDepth
      /\ UNCHANGED <<leaves, leafIndex, position, path, bits, current>>
      /\ TreeDepth \in Nat
  BY Widths DEF IInv, InputsOK, BuildLevel
<1>2. InputsOK'  BY <1>1 DEF IInv, InputsOK
<1>3. Built = d /\ Built' = d + 1 /\ Collected = 0 /\ Collected' = 0
  BY <1>1 DEF Built, Collected
<1>4. levels' = [e \in 0..(d + 1) |->
                   IF e <= d THEN levels[e] ELSE NextLevel(levels[d], Width[d + 1])]
  BY DEF BuildLevel
<1>5. LevelsOK'
  <2>1. DOMAIN levels' = 0..(d + 1) /\ levels'[0] = PaddedLeaves(leaves)
    BY <1>1, <1>3, <1>4 DEF IInv, LevelsOK
  <2>2. ASSUME NEW e \in 1..(d + 1)
        PROVE  levels'[e] = NextLevel(levels'[e - 1], Width[e])
    <3>1. levels'[e - 1] = levels[e - 1]  BY <1>1, <1>4
    <3>2. CASE e \in 1..d
      BY <1>1, <1>3, <1>4, <3>1, <3>2 DEF IInv, LevelsOK
    <3>3. CASE e = d + 1
      BY <1>1, <1>4, <3>1, <3>3
    <3>4. QED  BY <1>1, <3>2, <3>3
  <2>3. PaddedLeaves(leaves)' = PaddedLeaves(leaves)
    BY <1>1 DEF PaddedLeaves, MaxLeaves
  <2>4. QED  BY <1>3, <2>1, <2>2, <2>3 DEF LevelsOK, NextLevel
<1>6. PathOK'
  BY <1>1, <1>3 DEF IInv, PathOK, SiblingIndex, Nodes
<1>7. ClimbOK'  BY <1>1 DEF ClimbOK
<1>8. QED  BY <1>2, <1>5, <1>6, <1>7 DEF IInv

LEMMA InvBuilt == ASSUME IInv, TreeBuilt PROVE IInv'
<1>1. /\ phase = "build" /\ phase' = "path" /\ d = TreeDepth /\ d' = 0
      /\ UNCHANGED <<leaves, leafIndex, levels, position, path, bits, current>>
      /\ TreeDepth \in Nat
  BY Widths DEF TreeBuilt
<1>2. InputsOK'  BY <1>1 DEF IInv, InputsOK, Phases
<1>3. Built = TreeDepth /\ Built' = TreeDepth /\ Collected = 0 /\ Collected' = 0
  BY <1>1 DEF Built, Collected
<1>4. LevelsOK'
  BY <1>1, <1>3 DEF IInv, LevelsOK, PaddedLeaves, MaxLeaves, NextLevel
<1>5. PathOK'
  BY <1>1, <1>3 DEF IInv, PathOK, SiblingIndex, Nodes
<1>6. ClimbOK'  BY <1>1 DEF ClimbOK
<1>7. QED  BY <1>2, <1>4, <1>5, <1>6 DEF IInv

\* The next position of GetMerklePath is on its level, unless the holder's
\* index was beyond the capacity of the tree to begin with.
LEMMA NextPosition ==
    ASSUME IInv, phase = "path", d < TreeDepth
    PROVE  /\ d \in 0..(TreeDepth - 1)
           /\ position[d] \in Nat
           /\ DOMAIN levels[d] = Nodes(d)
           /\ SiblingIndex(position[d]) \in Nodes(d) => position[d] \in Nodes(d)
           /\ SiblingIndex(position[d]) \notin Nodes(d) => leafIndex >= MaxLeaves
<1>1. /\ d \in 0..(TreeDepth - 1) /\ TreeDepth \in Nat
      /\ Collected = d /\ Built = TreeDepth
  BY Widths DEF IInv, InputsOK, Collected, Built
<1>2. position[d] \in Nat  BY <1>1 DEF IInv, PathOK
<1>3. DOMAIN levels[d] = Nodes(d)
  <2>1. CASE d = 0
    BY <2>1 DEF IInv, LevelsOK, PaddedLeaves, MaxLeaves, Nodes
  <2>2. CASE d # 0
    <3>1. d \in 1..TreeDepth  BY <1>1, <2>2
    <3>2. levels[d] = NextLevel(levels[d - 1], Width[d])
      BY <1>1, <3>1 DEF IInv, LevelsOK
    <3>3. QED  BY <3>2 DEF NextLevel, Nodes
  <2>3. QED  BY <2>1, <2>2
<1>4. SiblingIndex(position[d]) \in Nodes(d) => position[d] \in Nodes(d)
  <2>1. Width[d] = 2 * Width[d + 1] /\ Width[d + 1] \in Nat
    BY <1>1, Widths
  <2>2. QED  BY <1>2, <2>1 DEF SiblingIndex, Nodes
<1>5. SiblingIndex(position[d]) \notin Nodes(d) => leafIndex >= MaxLeaves
  <2>1. CASE d = 0
    <3>1. position[0] = leafIndex  BY DEF IInv, PathOK
    <3>2. QED  BY <1>1, <1>2, <2>1, <3>1, Siblings DEF MaxLeaves
  <2>2. CASE d # 0
    <3>1. position[d] \in Nodes(d)
      BY <1>1, <2>2, OnLevel
    <3>2. QED  BY <1>1, <1>2, <3>1, Siblings
  <2>3. QED  BY <2>1, <2>2
<1>6. QED  BY <1>1, <1>2, <1>3, <1>4, <1>5

LEMMA InvPath == ASSUME IInv, PathStep PROVE IInv'
<1> DEFINE idx == position[d]
<1>1. /\ phase = "path" /\ phase' = "path" /\ d < TreeDepth /\ d' = d + 1
      /\ UNCHANGED <<leaves, leafIndex, levels, current>>
      /\ SiblingIndex(idx) \in DOMAIN levels[d]
      /\ path' = Append(path, levels[d][SiblingIndex(idx)])
      /\ bits' = Append(bits, idx % 2)
      /\ position' = [e \in 0..(d + 1) |-> IF e <= d THEN position[e] ELSE idx \div 2]
  BY DEF PathStep
<1>2. d \in 0..(TreeDepth - 1) /\ TreeDepth \in Nat /\ idx \in Nat /\ idx \in Nodes(d)
  BY <1>1, NextPosition, Widths
<1>3. idx % 2 \in 0..1 /\ idx \div 2 \in Nat
  BY <1>2
<1>4. /\ Collected = d /\ Collected' = d + 1
      /\ Built = TreeDepth /\ Built' = TreeDepth
  BY <1>1, <1>2 DEF Collected, Built
<1>5. InputsOK'  BY <1>1, <1>2 DEF IInv, InputsOK
<1>6. LevelsOK'
  BY <1>1, <1>4 DEF IInv, LevelsOK, PaddedLeaves, MaxLeaves, NextLevel
<1>7. /\ \A e \in 0..d : position'[e] = position[e]
      /\ position'[d + 1] = idx \div 2
      /\ DOMAIN position' = 0..(d + 1)
  BY <1>1, <1>2
<1>8. /\ Len(path') = d + 1 /\ Len(bits') = d + 1
      /\ \A e \in 1..d : path'[e] = path[e] /\ bits'[e] = bits[e]
      /\ path'[d + 1] = levels[d][SiblingIndex(idx)]
      /\ bits'[d + 1] = idx % 2
      /\ bits' \in Seq(0..1)
      /\ \E S : path' \in Seq(S)
  <2>1. PICK S : path \in Seq(S)  BY DEF IInv, PathOK
  <2>2. bits \in Seq(0..1) /\ Len(path) = d /\ Len(bits) = d
    BY <1>4 DEF IInv, PathOK
  <2> DEFINE x == levels[d][SiblingIndex(idx)]
             T == S \cup {x}
  <2>3. path \in Seq(T) /\ x \in T
    <3>1. S \subseteq T /\ x \in T  OBVIOUS
    <3> HIDE DEF T
    <3>2. QED  BY <2>1, <3>1
  <2> HIDE DEF T, x
  <2>4. path' \in Seq(T) /\ Len(path') = d + 1
        /\ (\A e \in 1..d : path'[e] = path[e]) /\ path'[d + 1] = x
    <3>1. path' = Append(path, x)  BY <1>1 DEF x
    <3>2. QED  BY <1>2, <2>2, <2>3, <3>1
  <2>5. bits' \in Seq(0..1) /\ Len(bits') = d + 1
        /\ (\A e \in 1..d : bits'[e] = bits[e]) /\ bits'[d + 1] = idx % 2
    BY <1>1, <1>2, <1>3, <2>2
  <2>6. QED  BY <2>4, <2>5 DEF x
<1>9. PathOK'
  <2>1. position'[0] = leafIndex' /\ DOMAIN position' = 0..Collected'
    BY <1>1, <1>2, <1>4, <1>7 DEF IInv, PathOK
  <2>2. ASSUME NEW e \in 0..(d + 1) PROVE position'[e] \in Nat
    <3>1. CASE e \in 0..d
      BY <1>4, <1>7, <3>1 DEF IInv, PathOK
    <3>2. CASE e = d + 1
      BY <1>3, <1>7, <3>2
    <3>3. QED  BY <1>2, <3>1, <3>2
  <2>3. ASSUME NEW e \in 1..(d + 1)
        PROVE  /\ position'[e - 1] \in Nodes(e - 1)
               /\ position'[e] = position'[e - 1] \div 2
               /\ path'[e] = levels[e - 1][SiblingIndex(position'[e - 1])]
               /\ bits'[e] = position'[e - 1] % 2
    <3>1. position'[e - 1] = position[e - 1]  BY <1>2, <1>7
    <3>2. CASE e \in 1..d
      <4>1. /\ position[e - 1] \in Nodes(e - 1)
            /\ position[e] = position[e - 1] \div 2
            /\ path[e] = levels[e - 1][SiblingIndex(position[e - 1])]
            /\ bits[e] = position[e - 1] % 2
        BY <1>4, <3>2 DEF IInv, PathOK
      <4>2. position'[e] = position[e] /\ path'[e] = path[e] /\ bits'[e] = bits[e]
        BY <1>2, <1>7, <1>8, <3>2
      <4>3. QED  BY <3>1, <4>1, <4>2
    <3>3. CASE e = d + 1
      BY <1>2, <1>7, <1>8, <3>1, <3>3
    <3>4. QED  BY <1>2, <3>2, <3>3
  <2> HIDE DEF idx
  <2>4. Len(path') = Collected' /\ Len(bits') = Collected'
    BY <1>4, <1>8
  <2>5. QED  BY <1>1, <1>4, <1>8, <2>1, <2>2, <2>3, <2>4
              DEF PathOK, SiblingIndex, Nodes
<1>10. ClimbOK'  BY <1>1 DEF ClimbOK
<1>11. QED  BY <1>5, <1>6, <1>9, <1>10 DEF IInv

LEMMA InvPanic == ASSUME IInv, PathPanics PROVE IInv'
<1>1. /\ phase = "path" /\ phase' = "panic" /\ d < TreeDepth
      /\ SiblingIndex(position[d]) \notin DOMAIN levels[d]
      /\ UNCHANGED <<leaves, leafIndex, d, levels, position, path, bits, current>>
  BY DEF PathPanics
<1>2. leafIndex >= MaxLeaves  BY <1>1, NextPosition
<1>3. InputsOK'  BY <1>1 DEF IInv, InputsOK, Phases
<1>4. /\ Collected = d /\ Collected' = d
      /\ Built = TreeDepth /\ Built' = TreeDepth
  BY <1>1 DEF Collected, Built
<1>5. LevelsOK'
  BY <1>1, <1>4 DEF IInv, LevelsOK, PaddedLeaves, MaxLeaves, NextLevel
<1>6. PathOK'
  BY <1>1, <1>4 DEF IInv, PathOK, SiblingIndex, Nodes
<1>7. ClimbOK'  BY <1>1, <1>2 DEF ClimbOK, MaxLeaves
<1>8. QED  BY <1>3, <1>5, <1>6, <1>7 DEF IInv

LEMMA InvDone == ASSUME IInv, PathDone PROVE IInv'
<1>1. /\ phase = "path" /\ phase' = "climb" /\ d = TreeDepth /\ d' = 0
      /\ current' = leaves[leafIndex + 1]
      /\ UNCHANGED <<leaves, leafIndex, levels, position, path, bits>>
      /\ TreeDepth \in Nat /\ TreeDepth >= 1
  BY Widths DEF PathDone
<1>2. InputsOK'  BY <1>1 DEF IInv, InputsOK, Phases
<1>3. /\ Collected = TreeDepth /\ Collected' = TreeDepth
      /\ Built = TreeDepth /\ Built' = TreeDepth
  BY <1>1 DEF Collected, Built
<1>4. LevelsOK'
  BY <1>1, <1>3 DEF IInv, LevelsOK, PaddedLeaves, MaxLeaves, NextLevel
<1>5. PathOK'
  BY <1>1, <1>3 DEF IInv, PathOK, SiblingIndex, Nodes
<1>6. leafIndex \in Nodes(0)
  BY <1>1, <1>3 DEF IInv, PathOK
<1>7. current' = levels[0][position[0]]
  BY <1>1, <1>6 DEF IInv, InputsOK, LevelsOK, PathOK, PaddedLeaves, MaxLeaves, Nodes
<1>8. ClimbOK'  BY <1>1, <1>7 DEF ClimbOK
<1>9. QED  BY <1>2, <1>4, <1>5, <1>8 DEF IInv

LEMMA InvClimb == ASSUME IInv, ClimbStep PROVE IInv'
<1>1. /\ phase = "climb" /\ phase' = "climb" /\ d < TreeDepth /\ d' = d + 1
      /\ current' = Climb(current, path[d + 1], bits[d + 1])
      /\ UNCHANGED <<leaves, leafIndex, levels, position, path, bits>>
  BY DEF ClimbStep
<1>2. d \in 0..(TreeDepth - 1) /\ TreeDepth \in Nat
  BY <1>1, Widths DEF IInv, InputsOK
<1>3. InputsOK'  BY <1>1, <1>2 DEF IInv, InputsOK
<1>4. /\ Collected = TreeDepth /\ Collected' = TreeDepth
      /\ Built = TreeDepth /\ Built' = TreeDepth
  BY <1>1 DEF Collected, Built
<1>5. LevelsOK'
  BY <1>1, <1>4 DEF IInv, LevelsOK, PaddedLeaves, MaxLeaves, NextLevel
<1>6. PathOK'
  BY <1>1, <1>4 DEF IInv, PathOK, SiblingIndex, Nodes
<1>7. ClimbOK'
  <2> DEFINE i == position[d]
  <2>1. d + 1 \in 1..TreeDepth /\ (d + 1) - 1 = d
    BY <1>2
  <2>2. /\ i \in Nodes(d)
        /\ position[d + 1] = i \div 2
        /\ path[d + 1] = levels[d][SiblingIndex(i)]
        /\ bits[d + 1] = i % 2
        /\ levels[d + 1] = NextLevel(levels[d], Width[d + 1])
    BY <1>4, <2>1 DEF IInv, PathOK, LevelsOK
  <2>3. current = levels[d][i]
    BY <1>1 DEF IInv, ClimbOK
  <2> HIDE DEF i
  <2>4. current' = levels[d + 1][position[d + 1]]
    BY <1>1, <1>2, <2>2, <2>3, ClimbToParent
  <2>5. QED  BY <1>1, <2>4 DEF ClimbOK
<1>8. QED  BY <1>3, <1>5, <1>6, <1>7 DEF IInv

LEMMA InvStep == IInv /\ [Next]_vars => IInv'
<1>1. ASSUME IInv, UNCHANGED vars PROVE IInv'
  <2>1. Built' = Built /\ Collected' = Collected
    BY <1>1 DEF vars, Built, Collected
  <2>2. InputsOK' /\ ClimbOK'
    BY <1>1 DEF vars, IInv, InputsOK, ClimbOK
  <2>3. LevelsOK'
    BY <1>1, <2>1 DEF vars, IInv, LevelsOK, PaddedLeaves, MaxLeaves, NextLevel
  <2>4. PathOK'
    BY <1>1, <2>1 DEF vars, IInv, PathOK, SiblingIndex, Nodes
  <2>5. QED  BY <2>2, <2>3, <2>4 DEF IInv
<1>2. QED
  BY <1>1, InvBuild, InvBuilt, InvPath, InvPanic, InvDone, InvClimb DEF Next

-----------------------------------------------------------------------------

\* Every reachable state of the walk satisfies the inductive invariant.
THEOREM Invariance == Spec => []IInv
BY InvInit, InvStep, PTL DEF Spec

\* On top of the tree the circuit stands on the root.
LEMMA PathLeads == IInv => PathLeadsToRoot
<1> SUFFICES ASSUME IInv, phase = "climb", d = TreeDepth
             PROVE  current = levels[TreeDepth][0]
  BY DEF PathLeadsToRoot, Climbed, Root
<1>1. Collected = TreeDepth /\ TreeDepth \in 1..Collected /\ Width[TreeDepth] = 1
  BY Widths DEF Collected
<1>2. position[TreeDepth] \in Nodes(TreeDepth)
  BY <1>1, OnLevel
<1>3. position[TreeDepth] = 0
  BY <1>1, <1>2 DEF Nodes
<1>4. QED  BY <1>3 DEF IInv, ClimbOK

\* The circuit computes the root BuildTree computed from the path
\* GetMerklePath returned, for every depth, policy, issuer and hash.
THEOREM PathAuthenticates == Spec => []PathLeadsToRoot
BY PathLeads, Invariance, PTL

\* GetMerklePath panics for an issuer beyond MaxLeaves, and for no other.
THEOREM PanicsBeyondCapacity == Spec => []PanicExactlyBeyondCapacity
<1>1. IInv => PanicExactlyBeyondCapacity
  <2> SUFFICES ASSUME IInv, phase = "climb" PROVE leafIndex < MaxLeaves
    BY DEF PanicExactlyBeyondCapacity, IInv, ClimbOK
  <2>1. Collected = TreeDepth /\ 1 \in 1..Collected /\ Width[0] \in Nat
    BY Widths DEF Collected
  <2>2. position[1 - 1] \in Nodes(1 - 1) /\ position[0] = leafIndex
    BY <2>1 DEF IInv, PathOK
  <2>3. QED  BY <2>1, <2>2 DEF Nodes, MaxLeaves
<1>2. QED  BY <1>1, Invariance, PTL

\* The levels built so far are the tree's.
LEMMA LevelsAreTree ==
    ASSUME IInv, NEW e \in 0..Built
    PROVE  levels[e] = BuildTree(leaves)[e]
<1> DEFINE tree == BuildTree(leaves)
           T == {k \in Nat : k <= Built => levels[k] = tree[k]}
<1>1. Built \in Nat /\ Built <= TreeDepth
  BY Widths DEF Built, IInv, InputsOK
<1>2. 0 \in T
  BY BuildTreeLevels DEF IInv, LevelsOK
<1>3. ASSUME NEW k \in Nat, k \in T PROVE k + 1 \in T
  <2> SUFFICES ASSUME k + 1 <= Built PROVE levels[k + 1] = tree[k + 1]
    OBVIOUS
  <2>1. /\ k + 1 \in 1..Built /\ k + 1 \in 1..TreeDepth
        /\ k <= Built /\ (k + 1) - 1 = k
    BY <1>1, Widths
  <2>2. levels[k] = tree[k]  BY <1>3, <2>1
  <2>3. levels[k + 1] = NextLevel(levels[k], Width[k + 1])
    BY <1>1, <2>1 DEF IInv, LevelsOK
  <2>4. tree[k + 1] = NextLevel(tree[k], Width[k + 1])
    BY <2>1, BuildTreeLevels
  <2> HIDE DEF tree
  <2>5. QED  BY <2>2, <2>3, <2>4
<1> HIDE DEF T
<1>4. e \in T  BY <1>1, <1>2, <1>3, InductionSet
<1>5. QED  BY <1>1, <1>4 DEF T

\* The positions of GetMerklePath's loop are the ancestors of the leaf.
LEMMA PositionsAreAncestors ==
    ASSUME IInv, phase = "climb", NEW e \in 0..TreeDepth
    PROVE  position[e] = Ancestor(leafIndex, e)
<1> DEFINE T == {k \in Nat : k <= TreeDepth => position[k] = Ancestor(leafIndex, k)}
<1>1. Collected = TreeDepth  BY DEF Collected
<1>2. 0 \in T
  BY Ancestors DEF IInv, PathOK
<1>3. ASSUME NEW k \in Nat, k \in T PROVE k + 1 \in T
  <2> SUFFICES ASSUME k + 1 <= TreeDepth
               PROVE  position[k + 1] = Ancestor(leafIndex, k + 1)
    OBVIOUS
  <2>1. k + 1 \in 1..TreeDepth /\ k <= TreeDepth /\ (k + 1) - 1 = k
    BY Widths
  <2>2. position[k] = Ancestor(leafIndex, k)  BY <1>3, <2>1
  <2>3. position[k + 1] = position[k] \div 2
    BY <1>1, <2>1 DEF IInv, PathOK
  <2>4. Ancestor(leafIndex, k + 1) = Ancestor(leafIndex, k) \div 2
    BY <2>1, Ancestors
  <2>5. QED  BY <2>2, <2>3, <2>4
<1> HIDE DEF T
<1>4. e \in T  BY <1>2, <1>3, InductionSet
<1>5. QED  BY <1>4, Widths DEF T

\* The loops of tree.go and main.nr compute BuildTree, GetMerklePath and
\* ComputeMerkleRoot, which is what ProverPipeline uses for them.
THEOREM LoopsCompute == Spec => []LoopsAgree
<1> DEFINE tree == BuildTree(leaves)
           merkle == GetMerklePath(tree, leafIndex)
<1>1. IInv => LoopsAgree
  <2> SUFFICES ASSUME IInv PROVE LoopsAgree  OBVIOUS
  <2>1. phase # "build" => \A e \in 0..TreeDepth : levels[e] = tree[e]
    BY LevelsAreTree DEF Built
  <2>2. ASSUME phase = "climb", NEW e \in 0..(TreeDepth - 1)
        PROVE  path[e + 1] = merkle.path[e] /\ bits[e + 1] = merkle.bits[e]
    <3>1. e + 1 \in 1..Collected /\ e \in 0..TreeDepth /\ (e + 1) - 1 = e
      BY <2>2, Widths DEF Collected
    <3>2. /\ path[e + 1] = levels[e][SiblingIndex(position[e])]
          /\ bits[e + 1] = position[e] % 2
      BY <3>1 DEF IInv, PathOK
    <3>3. levels[e] = tree[e] /\ position[e] = Ancestor(leafIndex, e)
      BY <2>1, <2>2, <3>1, PositionsAreAncestors
    <3> HIDE DEF tree
    <3>4. QED  BY <3>2, <3>3 DEF GetMerklePath
  <2>3. ASSUME phase = "climb", d = TreeDepth
        PROVE  current = ComputeMerkleRoot(leaves[leafIndex + 1], merkle.path, merkle.bits)
    <3>1. Collected = TreeDepth /\ 1 \in 1..Collected
      BY <2>3, Widths DEF Collected
    <3>2. leafIndex \in Nodes(0)
      <4>1. position[1 - 1] \in Nodes(1 - 1)  BY <3>1 DEF IInv, PathOK
      <4>2. QED  BY <4>1 DEF IInv, PathOK
    <3>3. PaddedLeaves(leaves)[leafIndex] = leaves[leafIndex + 1]
      BY <3>2 DEF PaddedLeaves, Nodes, MaxLeaves, IInv, InputsOK
    <3>4. ComputeMerkleRoot(leaves[leafIndex + 1], merkle.path, merkle.bits)
             = tree[TreeDepth][0]
      BY <3>2, <3>3, ClimbedRoot
    <3>5. current = levels[TreeDepth][0]
      BY <2>3, PathLeads DEF PathLeadsToRoot, Climbed, Root
    <3>6. levels[TreeDepth] = tree[TreeDepth]
      BY <2>1, <2>3, Widths
    <3> HIDE DEF tree, merkle
    <3>7. QED  BY <3>4, <3>5, <3>6
  <2>4. QED  BY <2>1, <2>2, <2>3 DEF LoopsAgree, Climbed
<1>2. QED  BY <1>1, Invariance, PTL

-----------------------------------------------------------------------------

\* One step of ReferenceRoot: the trees of 2^(n + 1) leaves from those of 2^n.
Joined(given, below, n) ==
    [first \in Nat |->
       IF n = 0
       THEN IF first < Len(given) THEN given[first + 1] ELSE Zero
       ELSE Poseidon(<<below[first], below[first + Width[TreeDepth - (n - 1)]]>>)]

\* subtree holds the trees of up to 2^n leaves.
SubtreesUpTo(subtree, given, n) ==
    subtree = [e \in 0..n |-> Joined(given, subtree[e - 1], e)]

\* A tree of one leaf.
LEMMA SingleLeaf ==
    ASSUME NEW given, NEW below, NEW first \in Nat
    PROVE  Joined(given, below, 0)[first]
              = IF first < Len(given) THEN given[first + 1] ELSE Zero
BY Zenon DEF Joined

\* A larger tree joins its halves.
LEMMA TwoHalves ==
    ASSUME NEW given, NEW below, NEW n, n # 0, NEW first \in Nat,
           NEW half, half = Width[TreeDepth - (n - 1)]
    PROVE  Joined(given, below, n)[first] = Poseidon(<<below[first], below[first + half]>>)
BY Zenon DEF Joined

\* ReferenceRoot's recursion is defined.
LEMMA SubtreesExist ==
    ASSUME NEW given, NEW n \in Nat
    PROVE  \E subtree : SubtreesUpTo(subtree, given, n)
<1> DEFINE T == {k \in Nat : \E g : SubtreesUpTo(g, given, k)}
<1>1. 0 \in T
  <2> DEFINE g == [e \in 0..0 |-> Joined(given, Zero, 0)]
  <2>1. Joined(given, g[0 - 1], 0) = Joined(given, Zero, 0)
    BY DEF Joined
  <2>2. SubtreesUpTo(g, given, 0)  BY <2>1 DEF SubtreesUpTo
  <2> HIDE DEF g
  <2>3. QED  BY <2>2
<1>2. ASSUME NEW k \in Nat, k \in T PROVE k + 1 \in T
  <2>1. PICK g : SubtreesUpTo(g, given, k)  BY <1>2
  <2> DEFINE h == [e \in 0..(k + 1) |->
                     IF e <= k THEN g[e] ELSE Joined(given, g[k], k + 1)]
  <2>2. ASSUME NEW e \in 0..(k + 1)
        PROVE  h[e] = Joined(given, h[e - 1], e)
    <3>1. CASE e = 0
      <4>1. h[0] = g[0] /\ g[0] = Joined(given, g[0 - 1], 0)
        BY <2>1 DEF SubtreesUpTo
      <4>2. Joined(given, g[0 - 1], 0) = Joined(given, h[0 - 1], 0)
        BY DEF Joined
      <4>3. QED  BY <3>1, <4>1, <4>2
    <3>2. CASE e \in 1..k
      <4>1. h[e] = g[e] /\ h[e - 1] = g[e - 1]  BY <3>2
      <4>2. g[e] = Joined(given, g[e - 1], e)
        BY <2>1, <3>2 DEF SubtreesUpTo
      <4> HIDE DEF h
      <4>3. QED  BY <4>1, <4>2
    <3>3. CASE e = k + 1
      <4>1. h[e] = Joined(given, g[k], k + 1) /\ h[e - 1] = g[k]  BY <3>3
      <4> HIDE DEF h
      <4>2. QED  BY <3>3, <4>1
    <3>4. QED  BY <3>1, <3>2, <3>3
  <2>3. h = [e \in 0..(k + 1) |-> h[e]]  OBVIOUS
  <2> HIDE DEF h
  <2>4. SubtreesUpTo(h, given, k + 1)  BY <2>2, <2>3 DEF SubtreesUpTo
  <2>5. QED  BY <2>4
<1> HIDE DEF T
<1>3. n \in T  BY <1>1, <1>2, InductionSet
<1>4. QED  BY <1>3 DEF T

\* ReferenceRoot is the root of some subtrees that satisfy its recursion.
LEMMA ReferenceSubtrees ==
    ASSUME NEW given
    PROVE  \E subtree : /\ SubtreesUpTo(subtree, given, TreeDepth)
                        /\ ReferenceRoot(given) = subtree[TreeDepth][0]
<1>1. PICK g : SubtreesUpTo(g, given, TreeDepth)
  BY SubtreesExist, Widths
<1> DEFINE S == CHOOSE g1 : SubtreesUpTo(g1, given, TreeDepth)
<1>2. SubtreesUpTo(S, given, TreeDepth)  BY <1>1
<1>3. ReferenceRoot(given) = S[TreeDepth][0]
  BY DEF ReferenceRoot, SubtreesUpTo, Joined
<1> HIDE DEF S
<1>4. QED  BY <1>2, <1>3

\* The children of node i of a level begin at the two halves of i's leaves.
LEMMA HalvesBegin ==
    ASSUME NEW i \in Nat, NEW w \in Nat
    PROVE  /\ (2 * i) * w = i * (2 * w)
           /\ (2 * i + 1) * w = i * (2 * w) + w
           /\ i * (2 * w) \in Nat
OBVIOUS

\* Node i of level e of BuildTree is the tree over 2^e leaves from i * 2^e on.
LEMMA NodesAreSubtrees ==
    ASSUME NEW given, NEW subtree, SubtreesUpTo(subtree, given, TreeDepth),
           NEW e \in 0..TreeDepth
    PROVE  \A i \in Nodes(e) :
              BuildTree(given)[e][i] = subtree[e][i * Width[TreeDepth - e]]
<1> DEFINE B == BuildTree(given)
           T == {k \in Nat : k <= TreeDepth =>
                    \A i \in Nodes(k) : B[k][i] = subtree[k][i * Width[TreeDepth - k]]}
<1>0. \A k \in 0..TreeDepth : subtree[k] = Joined(given, subtree[k - 1], k)
  BY DEF SubtreesUpTo
<1>1. 0 \in T
  <2> SUFFICES ASSUME NEW i \in Nodes(0)
               PROVE  B[0][i] = subtree[0][i * Width[TreeDepth - 0]]
    OBVIOUS
  <2>1. i \in Nat /\ i * Width[TreeDepth - 0] = i
    BY Widths DEF Nodes
  <2>2. B[0][i] = IF i < Len(given) THEN given[i + 1] ELSE Zero
    BY BuildTreeLevels DEF PaddedLeaves, MaxLeaves, Nodes
  <2>3. subtree[0] = Joined(given, subtree[0 - 1], 0)
    BY <1>0, Widths
  <2> HIDE DEF B
  <2>4. subtree[0][i] = IF i < Len(given) THEN given[i + 1] ELSE Zero
    BY <2>1, <2>3, SingleLeaf
  <2>5. QED  BY <2>1, <2>2, <2>4
<1>2. ASSUME NEW k \in Nat, k \in T PROVE k + 1 \in T
  <2> SUFFICES ASSUME k + 1 <= TreeDepth, NEW i \in Nodes(k + 1)
               PROVE  B[k + 1][i] = subtree[k + 1][i * Width[TreeDepth - (k + 1)]]
    OBVIOUS
  <2> DEFINE w == Width[TreeDepth - k]
  <2>1. /\ k + 1 \in 1..TreeDepth /\ k + 1 \in 0..TreeDepth /\ (k + 1) - 1 = k
        /\ k <= TreeDepth /\ k + 1 # 0
        /\ TreeDepth - (k + 1) \in 0..(TreeDepth - 1)
        /\ (TreeDepth - (k + 1)) + 1 = TreeDepth - k
        /\ TreeDepth - k \in 0..TreeDepth
    BY Widths
  <2>2. w \in Nat /\ Width[TreeDepth - (k + 1)] = 2 * w
    BY <2>1, Widths
  <2>3. i \in Nat /\ 2 * i \in Nodes(k) /\ 2 * i + 1 \in Nodes(k)
    BY <2>1, Children
  <2>4. /\ B[k][2 * i] = subtree[k][(2 * i) * w]
        /\ B[k][2 * i + 1] = subtree[k][(2 * i + 1) * w]
    BY <1>2, <2>1, <2>3
  <2>5. B[k + 1][i] = Poseidon(<<B[k][2 * i], B[k][2 * i + 1]>>)
    BY <2>1, NodeHashesChildren
  <2>6. subtree[k + 1] = Joined(given, subtree[k], k + 1)
    BY <1>0, <2>1
  <2> HIDE DEF B, w
  <2>7. subtree[k + 1][i * (2 * w)]
           = Poseidon(<<subtree[k][i * (2 * w)], subtree[k][i * (2 * w) + w]>>)
    <3> DEFINE first == i * (2 * w)
    <3>1. first \in Nat /\ w = Width[TreeDepth - k]
      BY <2>2, <2>3, HalvesBegin DEF w
    <3>2. w = Width[TreeDepth - ((k + 1) - 1)]
      BY <2>1, <3>1
    <3> HIDE DEF first
    <3>3. Joined(given, subtree[k], k + 1)[first]
             = Poseidon(<<subtree[k][first], subtree[k][first + w]>>)
      BY <2>1, <3>1, <3>2, TwoHalves
    <3>4. QED  BY <2>6, <3>3 DEF first
  <2>8. (2 * i) * w = i * (2 * w) /\ (2 * i + 1) * w = i * (2 * w) + w
    BY <2>2, <2>3, HalvesBegin
  <2>9. B[k + 1][i] = subtree[k + 1][i * (2 * w)]
    BY <2>4, <2>5, <2>7, <2>8, Zenon
  <2>10. QED  BY <2>2, <2>9
<1> HIDE DEF T
<1>3. e \in T  BY <1>1, <1>2, InductionSet
<1>4. QED  BY <1>3, Widths DEF T

\* What BuildTree (tree.go) builds upwards is the tree defined from the root
\* downwards, for every policy, depth and hash.
THEOREM BuildsReference ==
    ASSUME NEW given
    PROVE  BuildTree(given)[TreeDepth][0] = ReferenceRoot(given)
<1>1. PICK subtree : /\ SubtreesUpTo(subtree, given, TreeDepth)
                     /\ ReferenceRoot(given) = subtree[TreeDepth][0]
  BY ReferenceSubtrees
<1>2. /\ 0 \in Nodes(TreeDepth) /\ TreeDepth \in 0..TreeDepth
      /\ TreeDepth - TreeDepth = 0
  BY Widths DEF Nodes
<1>3. BuildTree(given)[TreeDepth][0] = subtree[TreeDepth][0 * Width[0]]
  BY <1>1, <1>2, NodesAreSubtrees
<1>4. 0 * Width[0] = 0  BY Widths
<1>5. QED  BY <1>1, <1>3, <1>4

\* From the moment BuildTree's loop reaches the top, its root is the one of the
\* tree over the policy's leaves.
THEOREM RootIsTheReference == Spec => []RootIsReference
<1>1. IInv => RootIsReference
  <2> SUFFICES ASSUME IInv, TreeDepth \in DOMAIN levels
               PROVE  levels[TreeDepth][0] = ReferenceRoot(leaves)
    BY DEF RootIsReference, Root
  <2>1. Built = TreeDepth
    BY Widths DEF IInv, InputsOK, LevelsOK, Built
  <2>2. levels[TreeDepth] = BuildTree(leaves)[TreeDepth]
    BY <2>1, LevelsAreTree, Widths
  <2>3. QED  BY <2>2, BuildsReference
<1>2. QED  BY <1>1, Invariance, PTL

=============================================================================
