-------------------------- MODULE PolicyTreeProofs --------------------------
(***************************************************************************)
(* What the loops of PolicyTree compute, for every depth: the circuit's    *)
(* climb along the path that GetMerklePath takes from a tree ends at the   *)
(* root of the tree that has the climbing leaf in the path's place.        *)
(*                                                                         *)
(* BuildTree, Ancestor and ComputeMerkleRoot are recursive functions, so   *)
(* each comes with a lemma that its recursion reaches every level.         *)
(***************************************************************************)
EXTENDS PolicyTree, WellFoundedInduction, TLAPS

\* Below the root every width is twice the next one.
LEMMA Widths ==
    /\ \A e \in 0..TreeDepth : Width[e] \in Nat
    /\ \A e \in 0..(TreeDepth - 1) : Width[e] = 2 * Width[e + 1]
    /\ TreeDepth \in Nat /\ TreeDepth >= 1 /\ Width[TreeDepth] = 1
BY PolicyTreeAssumption DEF PolicyTreeAssumption

\* A set of numbers has a least one.
LEMMA LeastNat ==
    ASSUME NEW T, T \subseteq Nat, T # {}
    PROVE  \E m \in T : \A n \in T : m <= n
<1> DEFINE R == {ss \in Nat \X Nat : ss[1] < ss[2]}
<1>1. IsWellFoundedOn(R, Nat)  BY NatLessThanWellFounded DEF OpToRel
<1>2. PICK m \in T : \A n \in T : ~(<<n, m>> \in R)  BY <1>1, WFMin
<1>3. \A n \in T : m <= n
  <2> TAKE n \in T
  <2>1. ~(n < m)  BY <1>2
  <2>2. QED  BY <2>1
<1>4. QED  BY <1>3

\* Induction, over a set that holds 0 and the successor of each of its numbers.
LEMMA InductionSet ==
    ASSUME NEW T, 0 \in T, \A n \in Nat : n \in T => n + 1 \in T
    PROVE  Nat \subseteq T
<1> SUFFICES ASSUME Nat \ T # {} PROVE FALSE  OBVIOUS
<1>1. PICK m \in Nat \ T : \A n \in Nat \ T : m <= n  BY LeastNat
<1>2. m # 0 /\ m - 1 \in Nat  BY <1>1
<1>3. m - 1 \in T  BY <1>1, <1>2
<1>4. QED  BY <1>1, <1>2, <1>3

-----------------------------------------------------------------------------

\* level holds the levels 0..n that BuildTree makes.
LevelsUpTo(level, given, n) ==
    level = [d \in 0..n |-> IF d = 0 THEN PaddedLeaves(given)
                            ELSE NextLevel(level[d - 1], Width[d])]

\* BuildTree's loop reaches every level.
LEMMA LevelsExist ==
    ASSUME NEW given, NEW n \in Nat
    PROVE  \E level : LevelsUpTo(level, given, n)
<1> DEFINE T == {k \in Nat : \E g : LevelsUpTo(g, given, k)}
<1>1. 0 \in T
  <2> DEFINE g == [d \in 0..0 |-> PaddedLeaves(given)]
  <2>1. LevelsUpTo(g, given, 0)  BY DEF LevelsUpTo
  <2> HIDE DEF g
  <2>2. QED  BY <2>1
<1>2. ASSUME NEW k \in Nat, k \in T PROVE k + 1 \in T
  <2>1. PICK g : LevelsUpTo(g, given, k)  BY <1>2
  <2> DEFINE h == [d \in 0..(k + 1) |->
                     IF d <= k THEN g[d] ELSE NextLevel(g[k], Width[k + 1])]
  <2>2. ASSUME NEW d \in 0..(k + 1)
        PROVE  h[d] = IF d = 0 THEN PaddedLeaves(given) ELSE NextLevel(h[d - 1], Width[d])
    <3>1. d # 0 => h[d - 1] = g[d - 1]  OBVIOUS
    <3>2. CASE d \in 0..k
      <4>1. h[d] = g[d]  BY <3>2
      <4>2. g[d] = IF d = 0 THEN PaddedLeaves(given) ELSE NextLevel(g[d - 1], Width[d])
        BY <2>1, <3>2 DEF LevelsUpTo
      <4> HIDE DEF h
      <4>3. QED  BY <3>1, <4>1, <4>2
    <3>3. CASE d = k + 1
      <4>1. d # 0 /\ d - 1 = k /\ ~(d <= k)  BY <3>3
      <4>2. h[d] = NextLevel(g[k], Width[k + 1])  BY <3>3, <4>1
      <4> HIDE DEF h
      <4>3. QED  BY <3>1, <3>3, <4>1, <4>2
    <3>4. QED  BY <3>2, <3>3
  <2>3. h = [d \in 0..(k + 1) |-> h[d]]  OBVIOUS
  <2> HIDE DEF h
  <2>4. LevelsUpTo(h, given, k + 1)  BY <2>2, <2>3 DEF LevelsUpTo
  <2>5. QED  BY <2>4
<1> HIDE DEF T
<1>3. n \in T  BY <1>1, <1>2, InductionSet
<1>4. QED  BY <1>3 DEF T

\* The levels of BuildTree, each from the one below.
LEMMA BuildTreeLevels ==
    ASSUME NEW given
    PROVE  /\ BuildTree(given)[0] = PaddedLeaves(given)
           /\ \A d \in 1..TreeDepth :
                 BuildTree(given)[d] = NextLevel(BuildTree(given)[d - 1], Width[d])
<1> DEFINE B == BuildTree(given)
<1>1. PICK g : LevelsUpTo(g, given, TreeDepth)
  BY LevelsExist, Widths
<1>2. LevelsUpTo(B, given, TreeDepth)
  BY <1>1 DEF BuildTree, LevelsUpTo
<1> HIDE DEF B
<1>3. B[0] = PaddedLeaves(given)
  BY <1>2, Widths DEF LevelsUpTo
<1>4. ASSUME NEW d \in 1..TreeDepth PROVE B[d] = NextLevel(B[d - 1], Width[d])
  <2>1. d \in 0..TreeDepth /\ d # 0  BY Widths
  <2>2. QED  BY <1>2, <2>1 DEF LevelsUpTo
<1>5. QED  BY <1>3, <1>4 DEF B

-----------------------------------------------------------------------------

\* idx holds the ancestors of a leaf up to level n.
AncestorsUpTo(idx, leafIndex, n) ==
    idx = [e \in 0..n |-> IF e = 0 THEN leafIndex ELSE idx[e - 1] \div 2]

\* GetMerklePath's index reaches every level.
LEMMA AncestorsExist ==
    ASSUME NEW leafIndex, NEW n \in Nat
    PROVE  \E idx : AncestorsUpTo(idx, leafIndex, n)
<1> DEFINE T == {k \in Nat : \E g : AncestorsUpTo(g, leafIndex, k)}
<1>1. 0 \in T
  <2> DEFINE g == [e \in 0..0 |-> leafIndex]
  <2>1. AncestorsUpTo(g, leafIndex, 0)  BY DEF AncestorsUpTo
  <2> HIDE DEF g
  <2>2. QED  BY <2>1
<1>2. ASSUME NEW k \in Nat, k \in T PROVE k + 1 \in T
  <2>1. PICK g : AncestorsUpTo(g, leafIndex, k)  BY <1>2
  <2> DEFINE h == [e \in 0..(k + 1) |->
                     IF e <= k THEN g[e] ELSE g[k] \div 2]
  <2>2. ASSUME NEW e \in 0..(k + 1)
        PROVE  h[e] = IF e = 0 THEN leafIndex ELSE h[e - 1] \div 2
    <3>1. e # 0 => h[e - 1] = g[e - 1]  OBVIOUS
    <3>2. CASE e \in 0..k
      <4>1. h[e] = g[e]  BY <3>2
      <4>2. g[e] = IF e = 0 THEN leafIndex ELSE g[e - 1] \div 2
        BY <2>1, <3>2 DEF AncestorsUpTo
      <4> HIDE DEF h
      <4>3. QED  BY <3>1, <4>1, <4>2
    <3>3. CASE e = k + 1
      <4>1. e # 0 /\ e - 1 = k /\ ~(e <= k)  BY <3>3
      <4>2. h[e] = g[k] \div 2  BY <3>3, <4>1
      <4> HIDE DEF h
      <4>3. QED  BY <3>1, <3>3, <4>1, <4>2
    <3>4. QED  BY <3>2, <3>3
  <2>3. h = [e \in 0..(k + 1) |-> h[e]]  OBVIOUS
  <2> HIDE DEF h
  <2>4. AncestorsUpTo(h, leafIndex, k + 1)  BY <2>2, <2>3 DEF AncestorsUpTo
  <2>5. QED  BY <2>4
<1> HIDE DEF T
<1>3. n \in T  BY <1>1, <1>2, InductionSet
<1>4. QED  BY <1>3 DEF T

\* An ancestor's index is half of its child's.
LEMMA Ancestors ==
    ASSUME NEW leafIndex
    PROVE  /\ Ancestor(leafIndex, 0) = leafIndex
           /\ \A e \in 1..TreeDepth :
                 Ancestor(leafIndex, e) = Ancestor(leafIndex, e - 1) \div 2
<1>1. PICK g : AncestorsUpTo(g, leafIndex, TreeDepth)
  BY AncestorsExist, Widths
<1> DEFINE A == CHOOSE idx : idx = [e \in 0..TreeDepth |->
                                      IF e = 0 THEN leafIndex ELSE idx[e - 1] \div 2]
<1>2. AncestorsUpTo(A, leafIndex, TreeDepth)
  BY <1>1 DEF AncestorsUpTo
<1>3. \A e : Ancestor(leafIndex, e) = A[e]
  BY DEF Ancestor
<1> HIDE DEF A
<1>4. A[0] = leafIndex
  BY <1>2, Widths DEF AncestorsUpTo
<1>5. ASSUME NEW e \in 1..TreeDepth PROVE A[e] = A[e - 1] \div 2
  <2>1. e \in 0..TreeDepth /\ e # 0  BY Widths
  <2>2. QED  BY <1>2, <2>1 DEF AncestorsUpTo
<1>6. QED  BY <1>3, <1>4, <1>5

-----------------------------------------------------------------------------

\* node holds the nodes that the circuit computes up to level n.
ClimbUpTo(node, leaf, path, bits, n) ==
    node = [d \in 0..n |-> IF d = 0 THEN leaf
                           ELSE Climb(node[d - 1], path[d - 1], bits[d - 1])]

\* The circuit's loop reaches every level.
LEMMA ClimbExists ==
    ASSUME NEW leaf, NEW path, NEW bits, NEW n \in Nat
    PROVE  \E node : ClimbUpTo(node, leaf, path, bits, n)
<1> DEFINE T == {k \in Nat : \E g : ClimbUpTo(g, leaf, path, bits, k)}
<1>1. 0 \in T
  <2> DEFINE g == [d \in 0..0 |-> leaf]
  <2>1. ClimbUpTo(g, leaf, path, bits, 0)  BY DEF ClimbUpTo
  <2> HIDE DEF g
  <2>2. QED  BY <2>1
<1>2. ASSUME NEW k \in Nat, k \in T PROVE k + 1 \in T
  <2>1. PICK g : ClimbUpTo(g, leaf, path, bits, k)  BY <1>2
  <2> DEFINE h == [d \in 0..(k + 1) |->
                     IF d <= k THEN g[d] ELSE Climb(g[k], path[k], bits[k])]
  <2>2. ASSUME NEW d \in 0..(k + 1)
        PROVE  h[d] = IF d = 0 THEN leaf ELSE Climb(h[d - 1], path[d - 1], bits[d - 1])
    <3>1. d # 0 => h[d - 1] = g[d - 1]  OBVIOUS
    <3>2. CASE d \in 0..k
      <4>1. h[d] = g[d]  BY <3>2
      <4>2. g[d] = IF d = 0 THEN leaf ELSE Climb(g[d - 1], path[d - 1], bits[d - 1])
        BY <2>1, <3>2 DEF ClimbUpTo
      <4> HIDE DEF h
      <4>3. QED  BY <3>1, <4>1, <4>2
    <3>3. CASE d = k + 1
      <4>1. d # 0 /\ d - 1 = k /\ ~(d <= k)  BY <3>3
      <4>2. h[d] = Climb(g[k], path[k], bits[k])  BY <3>3, <4>1
      <4> HIDE DEF h
      <4>3. QED  BY <3>1, <3>3, <4>1, <4>2
    <3>4. QED  BY <3>2, <3>3
  <2>3. h = [d \in 0..(k + 1) |-> h[d]]  OBVIOUS
  <2> HIDE DEF h
  <2>4. ClimbUpTo(h, leaf, path, bits, k + 1)  BY <2>2, <2>3 DEF ClimbUpTo
  <2>5. QED  BY <2>4
<1> HIDE DEF T
<1>3. n \in T  BY <1>1, <1>2, InductionSet
<1>4. QED  BY <1>3 DEF T

\* The circuit's nodes, each from the one below, up to the root it compares.
LEMMA ClimbSteps ==
    ASSUME NEW leaf, NEW path, NEW bits
    PROVE  \E node :
              /\ node[0] = leaf
              /\ \A d \in 1..TreeDepth :
                    node[d] = Climb(node[d - 1], path[d - 1], bits[d - 1])
              /\ ComputeMerkleRoot(leaf, path, bits) = node[TreeDepth]
<1>1. PICK g : ClimbUpTo(g, leaf, path, bits, TreeDepth)
  BY ClimbExists, Widths
<1> DEFINE N == CHOOSE node : node = [d \in 0..TreeDepth |->
                   IF d = 0 THEN leaf ELSE Climb(node[d - 1], path[d - 1], bits[d - 1])]
<1>2. ClimbUpTo(N, leaf, path, bits, TreeDepth)
  BY <1>1 DEF ClimbUpTo
<1>3. ComputeMerkleRoot(leaf, path, bits) = N[TreeDepth]
  BY DEF ComputeMerkleRoot
<1> HIDE DEF N
<1>4. N[0] = leaf
  BY <1>2, Widths DEF ClimbUpTo
<1>5. ASSUME NEW d \in 1..TreeDepth PROVE N[d] = Climb(N[d - 1], path[d - 1], bits[d - 1])
  <2>1. d \in 0..TreeDepth /\ d # 0  BY Widths
  <2>2. QED  BY <1>2, <2>1 DEF ClimbUpTo
<1>6. QED  BY <1>3, <1>4, <1>5

-----------------------------------------------------------------------------

\* Every index is twice its parent's, plus its bit.
LEMMA Halves ==
    ASSUME NEW i \in Nat
    PROVE  /\ i \div 2 \in Nat
           /\ i % 2 \in 0..1
           /\ i % 2 = 0 => i = 2 * (i \div 2)
           /\ i % 2 = 1 => i = 2 * (i \div 2) + 1
<1>1. i % 2 = 0 => i = 2 * (i \div 2)  OBVIOUS
<1>2. i % 2 = 1 => i = 2 * (i \div 2) + 1  OBVIOUS
<1>3. i \div 2 \in Nat /\ i % 2 \in 0..1  OBVIOUS
<1>4. QED  BY <1>1, <1>2, <1>3

\* A node below the root has its sibling on its level and its parent above.
LEMMA Siblings ==
    ASSUME NEW e \in 0..(TreeDepth - 1), NEW i \in Nat
    PROVE  /\ i \in Nodes(e) => SiblingIndex(i) \in Nodes(e)
           /\ i \in Nodes(e) => i \div 2 \in Nodes(e + 1)
           /\ i \notin Nodes(e) => i >= Width[e]
           /\ i % 2 \in 0..1
           /\ i \div 2 \in Nat
<1>1. Width[e] = 2 * Width[e + 1] /\ Width[e + 1] \in Nat /\ e + 1 \in 0..TreeDepth
  BY Widths
<1> DEFINE j == i \div 2
           b == i % 2
<1>2. /\ j \in Nat /\ b \in 0..1
      /\ b = 0 => i = 2 * j
      /\ b = 1 => i = 2 * j + 1
      /\ SiblingIndex(i) = IF b = 0 THEN i + 1 ELSE i - 1
  BY Halves DEF SiblingIndex
<1> HIDE DEF j, b
<1>3. CASE b = 0  BY <1>1, <1>2, <1>3 DEF Nodes
<1>4. CASE b = 1  BY <1>1, <1>2, <1>4 DEF Nodes
<1>5. QED  BY <1>2, <1>3, <1>4 DEF j, b

\* Climbing from a node with its sibling gives the parent node.
LEMMA ClimbToParent ==
    ASSUME NEW e \in 0..(TreeDepth - 1), NEW i \in Nodes(e), NEW level
    PROVE  Climb(level[i], level[SiblingIndex(i)], i % 2)
              = NextLevel(level, Width[e + 1])[i \div 2]
<1> DEFINE j == i \div 2
<1>1. /\ i \in Nat /\ j \in Nat /\ i % 2 \in 0..1
      /\ i % 2 = 0 => i = 2 * j
      /\ i % 2 = 1 => i = 2 * j + 1
  <2>1. i \in Nat  BY Widths DEF Nodes
  <2>2. QED  BY <2>1, Halves
<1>2. j \in 0..(Width[e + 1] - 1)
  <2>1. j \in Nodes(e + 1)  BY <1>1, Siblings
  <2>2. QED  BY <2>1 DEF Nodes
<1> HIDE DEF j
<1>3. NextLevel(level, Width[e + 1])[j] = Poseidon(<<level[2 * j], level[2 * j + 1]>>)
  BY <1>2 DEF NextLevel
<1>4. CASE i % 2 = 0
  <2>1. i = 2 * j /\ SiblingIndex(i) = 2 * j + 1
    BY <1>1, <1>4 DEF SiblingIndex
  <2>2. QED  BY <1>3, <1>4, <2>1 DEF Climb, j
<1>5. CASE i % 2 = 1
  <2>1. i = 2 * j + 1 /\ SiblingIndex(i) = 2 * j
    BY <1>1, <1>5 DEF SiblingIndex
  <2>2. QED  BY <1>3, <1>5, <2>1 DEF Climb, j
<1>6. QED  BY <1>1, <1>4, <1>5

-----------------------------------------------------------------------------

\* The ancestors of a leaf of the tree are nodes of their levels.
LEMMA AncestorOnLevel ==
    ASSUME NEW idx \in Nodes(0), NEW e \in 0..TreeDepth
    PROVE  Ancestor(idx, e) \in Nodes(e)
<1> DEFINE T == {k \in Nat : k <= TreeDepth => Ancestor(idx, k) \in Nodes(k)}
<1>1. 0 \in T
  BY Ancestors
<1>2. ASSUME NEW k \in Nat, k \in T PROVE k + 1 \in T
  <2> SUFFICES ASSUME k + 1 <= TreeDepth PROVE Ancestor(idx, k + 1) \in Nodes(k + 1)
    OBVIOUS
  <2>1. /\ k \in 0..(TreeDepth - 1) /\ k + 1 \in 1..TreeDepth
        /\ k \in 0..TreeDepth /\ k <= TreeDepth
    BY Widths
  <2> DEFINE a == Ancestor(idx, k)
  <2>2. a \in Nodes(k)  BY <1>2, <2>1
  <2>3. Ancestor(idx, k + 1) = a \div 2  BY <2>1, Ancestors
  <2> HIDE DEF a
  <2>4. a \in Nat  BY <2>1, <2>2, Widths DEF Nodes
  <2>5. QED  BY <2>1, <2>2, <2>3, <2>4, Siblings
<1> HIDE DEF T
<1>3. e \in T  BY <1>1, <1>2, InductionSet
<1>4. QED  BY <1>3 DEF T

\* Two trees that differ in one leaf differ, on each level, in its ancestor
\* at most.
LEMMA OnlyAncestorsDiffer ==
    ASSUME NEW given, NEW other, NEW idx \in Nodes(0),
           \A i \in Nodes(0) : i # idx => PaddedLeaves(other)[i] = PaddedLeaves(given)[i],
           NEW e \in 0..TreeDepth
    PROVE  \A i \in Nodes(e) :
              i # Ancestor(idx, e) => BuildTree(other)[e][i] = BuildTree(given)[e][i]
<1> DEFINE B == BuildTree(given)
           C == BuildTree(other)
           A(k) == Ancestor(idx, k)
           T == {k \in Nat : k <= TreeDepth =>
                               \A i \in Nodes(k) : i # A(k) => C[k][i] = B[k][i]}
<1>1. 0 \in T
  BY Ancestors, BuildTreeLevels
<1>2. ASSUME NEW k \in Nat, k \in T PROVE k + 1 \in T
  <2> SUFFICES ASSUME k + 1 <= TreeDepth, NEW i \in Nodes(k + 1), i # A(k + 1)
               PROVE  C[k + 1][i] = B[k + 1][i]
    OBVIOUS
  <2>1. /\ k \in 0..(TreeDepth - 1) /\ k + 1 \in 1..TreeDepth
        /\ k \in 0..TreeDepth /\ k <= TreeDepth
    BY Widths
  <2>2. A(k + 1) = A(k) \div 2  BY <2>1, Ancestors
  <2>3. A(k) \in Nodes(k)  BY <2>1, AncestorOnLevel
  <2>4. /\ B[k + 1] = NextLevel(B[k], Width[k + 1])
        /\ C[k + 1] = NextLevel(C[k], Width[k + 1])
    BY <2>1, BuildTreeLevels
  <2>5. \A j \in Nodes(k) : j # A(k) => C[k][j] = B[k][j]
    BY <1>2, <2>1
  <2> HIDE DEF A, B, C
  <2>6. i \in Nat /\ 2 * i \in Nodes(k) /\ 2 * i + 1 \in Nodes(k)
    <3>1. Width[k] = 2 * Width[k + 1] /\ Width[k + 1] \in Nat /\ Width[k] \in Nat
      BY <2>1, Widths
    <3>2. QED  BY <3>1 DEF Nodes
  <2>7. A(k) # 2 * i /\ A(k) # 2 * i + 1
    BY <2>2, <2>6
  <2>8. C[k][2 * i] = B[k][2 * i] /\ C[k][2 * i + 1] = B[k][2 * i + 1]
    BY <2>5, <2>6, <2>7
  <2>9. QED  BY <2>4, <2>8 DEF NextLevel, Nodes
<1> HIDE DEF T
<1>3. e \in T  BY <1>1, <1>2, InductionSet
<1>4. QED  BY <1>3 DEF T

\* Whatever leaf climbs (main.nr) along the path that GetMerklePath (tree.go)
\* takes from a tree, it arrives at the root of the tree that BuildTree makes
\* with that leaf in the path's place.
THEOREM ClimbedRoot ==
    ASSUME NEW given, NEW other, NEW idx \in Nodes(0), NEW leaf,
           \A i \in Nodes(0) :
              PaddedLeaves(other)[i] = IF i = idx THEN leaf ELSE PaddedLeaves(given)[i],
           NEW merkle, merkle = GetMerklePath(BuildTree(given), idx)
    PROVE  ComputeMerkleRoot(leaf, merkle.path, merkle.bits)
              = BuildTree(other)[TreeDepth][0]
<1> DEFINE B == BuildTree(given)
           C == BuildTree(other)
           A(k) == Ancestor(idx, k)
<1>1. PICK node :
         /\ node[0] = leaf
         /\ \A d \in 1..TreeDepth :
               node[d] = Climb(node[d - 1], merkle.path[d - 1], merkle.bits[d - 1])
         /\ ComputeMerkleRoot(leaf, merkle.path, merkle.bits) = node[TreeDepth]
  BY ClimbSteps
<1> DEFINE T == {k \in Nat : k <= TreeDepth => node[k] = C[k][A(k)]}
<1>2. 0 \in T
  BY <1>1, Ancestors, BuildTreeLevels
<1>3. ASSUME NEW k \in Nat, k \in T PROVE k + 1 \in T
  <2> SUFFICES ASSUME k + 1 <= TreeDepth PROVE node[k + 1] = C[k + 1][A(k + 1)]
    OBVIOUS
  <2>1. /\ k \in 0..(TreeDepth - 1) /\ k + 1 \in 1..TreeDepth
        /\ k \in 0..TreeDepth /\ k <= TreeDepth
    BY Widths
  <2>2. A(k + 1) = A(k) \div 2  BY <2>1, Ancestors
  <2>3. A(k) \in Nodes(k)  BY <2>1, AncestorOnLevel
  <2>4. merkle.path[k] = B[k][SiblingIndex(A(k))] /\ merkle.bits[k] = A(k) % 2
    BY <2>1 DEF GetMerklePath
  <2>5. C[k][SiblingIndex(A(k))] = B[k][SiblingIndex(A(k))]
    <3>1. A(k) \in Nat  BY <2>1, <2>3, Widths DEF Nodes
    <3>2. SiblingIndex(A(k)) \in Nodes(k)  BY <2>1, <2>3, <3>1, Siblings
    <3>3. SiblingIndex(A(k)) # A(k)  BY <3>1 DEF SiblingIndex
    <3>4. \A i \in Nodes(0) : i # idx => PaddedLeaves(other)[i] = PaddedLeaves(given)[i]
      OBVIOUS
    <3>5. QED  BY <2>1, <3>2, <3>3, <3>4, OnlyAncestorsDiffer
  <2>6. node[k + 1] = Climb(node[k], merkle.path[k], merkle.bits[k])
    BY <1>1, <2>1
  <2>7. node[k] = C[k][A(k)]  BY <1>3, <2>1
  <2>8. C[k + 1] = NextLevel(C[k], Width[k + 1])  BY <2>1, BuildTreeLevels
  <2> HIDE DEF A, B, C
  <2>9. Climb(C[k][A(k)], C[k][SiblingIndex(A(k))], A(k) % 2)
           = NextLevel(C[k], Width[k + 1])[A(k) \div 2]
    BY <2>1, <2>3, ClimbToParent
  <2>10. QED  BY <2>2, <2>4, <2>5, <2>6, <2>7, <2>8, <2>9
<1> HIDE DEF T
<1>4. TreeDepth \in T  BY <1>2, <1>3, InductionSet, Widths
<1>5. Ancestor(idx, TreeDepth) = 0
  BY AncestorOnLevel, Widths DEF Nodes
<1>6. QED  BY <1>1, <1>4, <1>5, Widths DEF T

-----------------------------------------------------------------------------

\* What the tree's users take Poseidon for: a node tells its children apart, a
\* leaf its key, and no leaf is the zero that pads the tree.
CollisionFree ==
    /\ \A a, b, c, e : Poseidon(<<a, b>>) = Poseidon(<<c, e>>) => a = c /\ b = e
    /\ \A a, b : Poseidon(<<a>>) = Poseidon(<<b>>) => a = b
    /\ \A a : Poseidon(<<a>>) # Zero

\* The children of a node are nodes of the level below.
LEMMA Children ==
    ASSUME NEW k \in 1..TreeDepth, NEW i \in Nodes(k)
    PROVE  2 * i \in Nodes(k - 1) /\ 2 * i + 1 \in Nodes(k - 1) /\ i \in Nat
<1>1. /\ k - 1 \in 0..(TreeDepth - 1) /\ (k - 1) + 1 = k
      /\ k \in 0..TreeDepth /\ k - 1 \in 0..TreeDepth
  BY Widths
<1>2. Width[k - 1] = 2 * Width[k] /\ Width[k] \in Nat /\ Width[k - 1] \in Nat
  BY <1>1, Widths
<1>3. QED  BY <1>2 DEF Nodes

\* A node of a tree is the hash of its two children.
LEMMA NodeHashesChildren ==
    ASSUME NEW given, NEW k \in 1..TreeDepth, NEW i \in Nodes(k)
    PROVE  BuildTree(given)[k][i]
              = Poseidon(<<BuildTree(given)[k - 1][2 * i], BuildTree(given)[k - 1][2 * i + 1]>>)
<1> DEFINE B == BuildTree(given)
<1>1. B[k] = NextLevel(B[k - 1], Width[k])  BY BuildTreeLevels
<1> HIDE DEF B
<1>2. B[k][i] = Poseidon(<<B[k - 1][2 * i], B[k - 1][2 * i + 1]>>)
  BY <1>1 DEF NextLevel, Nodes
<1>3. QED  BY <1>2 DEF B

\* Two policies with the same root (BuildTree, tree.go) have the same leaves, up
\* to zeros at the end and what lies beyond the capacity of the tree.
THEOREM RootBinds ==
    ASSUME CollisionFree, NEW given, NEW other,
           BuildTree(given)[TreeDepth][0] = BuildTree(other)[TreeDepth][0]
    PROVE  \A i \in Nodes(0) : PaddedLeaves(given)[i] = PaddedLeaves(other)[i]
<1> DEFINE B == BuildTree(given)
           C == BuildTree(other)
           T == {k \in Nat : k <= TreeDepth =>
                    \A i \in Nodes(TreeDepth - k) :
                        B[TreeDepth - k][i] = C[TreeDepth - k][i]}
<1>1. 0 \in T
  BY Widths DEF Nodes
<1>2. ASSUME NEW k \in Nat, k \in T PROVE k + 1 \in T
  <2> DEFINE e == TreeDepth - k
  <2> SUFFICES ASSUME k + 1 <= TreeDepth, NEW i \in Nodes(TreeDepth - (k + 1))
               PROVE  B[TreeDepth - (k + 1)][i] = C[TreeDepth - (k + 1)][i]
    OBVIOUS
  <2>1. /\ e \in 1..TreeDepth /\ TreeDepth - (k + 1) = e - 1
        /\ e - 1 \in 0..(TreeDepth - 1) /\ (e - 1) + 1 = e /\ k <= TreeDepth
    BY Widths
  <2>2. \A m \in Nodes(e) : B[e][m] = C[e][m]  BY <1>2, <2>1
  <2>3. i \in Nat /\ i \in Nodes(e - 1)
    BY <2>1, Widths DEF Nodes
  <2> HIDE DEF e
  <2>4. PICK m \in Nodes(e) : i = 2 * m \/ i = 2 * m + 1
    <3>1. i \div 2 \in Nodes(e)  BY <2>1, <2>3, Siblings
    <3>2. i = 2 * (i \div 2) \/ i = 2 * (i \div 2) + 1  BY <2>3, Halves
    <3>3. QED  BY <3>1, <3>2
  <2>5. /\ B[e][m] = Poseidon(<<B[e - 1][2 * m], B[e - 1][2 * m + 1]>>)
        /\ C[e][m] = Poseidon(<<C[e - 1][2 * m], C[e - 1][2 * m + 1]>>)
    BY <2>1, NodeHashesChildren
  <2> HIDE DEF B, C
  <2>6. /\ B[e - 1][2 * m] = C[e - 1][2 * m]
        /\ B[e - 1][2 * m + 1] = C[e - 1][2 * m + 1]
    BY <2>2, <2>5 DEF CollisionFree
  <2>7. QED  BY <2>1, <2>4, <2>6
<1> HIDE DEF T
<1>3. TreeDepth \in T  BY <1>1, <1>2, InductionSet, Widths
<1>4. \A i \in Nodes(0) : B[0][i] = C[0][i]
  <2>1. TreeDepth - TreeDepth = 0 /\ TreeDepth <= TreeDepth  BY Widths
  <2>2. QED  BY <1>3, <2>1 DEF T
<1>5. QED  BY <1>4, BuildTreeLevels

\* What climbs (main.nr) to the root of a tree, along whatever path, is one of
\* the leaves of that tree.
THEOREM OnlyLeavesClimb ==
    ASSUME CollisionFree, NEW given, NEW leaf, NEW path, NEW bits,
           ComputeMerkleRoot(leaf, path, bits) = BuildTree(given)[TreeDepth][0]
    PROVE  \E i \in Nodes(0) : leaf = PaddedLeaves(given)[i]
<1> DEFINE B == BuildTree(given)
<1>1. PICK node :
         /\ node[0] = leaf
         /\ \A d \in 1..TreeDepth :
               node[d] = Climb(node[d - 1], path[d - 1], bits[d - 1])
         /\ ComputeMerkleRoot(leaf, path, bits) = node[TreeDepth]
  BY ClimbSteps
<1> DEFINE T == {k \in Nat : k <= TreeDepth =>
                    \E i \in Nodes(TreeDepth - k) : node[TreeDepth - k] = B[TreeDepth - k][i]}
<1>2. 0 \in T
  <2>1. TreeDepth - 0 = TreeDepth /\ 0 \in Nodes(TreeDepth)  BY Widths DEF Nodes
  <2>2. QED  BY <1>1, <2>1
<1>3. ASSUME NEW k \in Nat, k \in T PROVE k + 1 \in T
  <2> DEFINE e == TreeDepth - k
  <2> SUFFICES ASSUME k + 1 <= TreeDepth
               PROVE  \E i \in Nodes(TreeDepth - (k + 1)) :
                         node[TreeDepth - (k + 1)] = B[TreeDepth - (k + 1)][i]
    OBVIOUS
  <2>1. e \in 1..TreeDepth /\ TreeDepth - (k + 1) = e - 1 /\ k <= TreeDepth
    BY Widths
  <2>2. PICK i \in Nodes(e) : node[e] = B[e][i]  BY <1>3, <2>1
  <2> HIDE DEF e
  <2>3. B[e][i] = Poseidon(<<B[e - 1][2 * i], B[e - 1][2 * i + 1]>>)
    BY <2>1, NodeHashesChildren
  <2>4. 2 * i \in Nodes(e - 1) /\ 2 * i + 1 \in Nodes(e - 1)
    BY <2>1, Children
  <2> HIDE DEF B
  <2>5. node[e] = Poseidon(IF bits[e - 1] = 0 THEN <<node[e - 1], path[e - 1]>>
                           ELSE <<path[e - 1], node[e - 1]>>)
    BY <1>1, <2>1 DEF Climb
  <2>6. CASE bits[e - 1] = 0
    <3>1. node[e - 1] = B[e - 1][2 * i]
      BY <2>2, <2>3, <2>5, <2>6 DEF CollisionFree
    <3>2. QED  BY <2>1, <2>4, <3>1
  <2>7. CASE bits[e - 1] # 0
    <3>1. node[e - 1] = B[e - 1][2 * i + 1]
      BY <2>2, <2>3, <2>5, <2>7 DEF CollisionFree
    <3>2. QED  BY <2>1, <2>4, <3>1
  <2>8. QED  BY <2>6, <2>7
<1> HIDE DEF T
<1>4. TreeDepth \in T  BY <1>2, <1>3, InductionSet, Widths
<1>5. PICK i \in Nodes(0) : node[0] = B[0][i]
  <2>1. TreeDepth - TreeDepth = 0 /\ TreeDepth <= TreeDepth  BY Widths
  <2>2. QED  BY <1>4, <2>1 DEF T
<1>6. QED  BY <1>1, <1>5, BuildTreeLevels

\* The leaf of a key that climbs to the root of a policy's tree stands in the
\* policy itself: no padding passes for a key.
LEMMA OnlyListedKeysClimb ==
    ASSUME CollisionFree, NEW given, NEW S, given \in Seq(S), NEW key, NEW path, NEW bits,
           ComputeMerkleRoot(ComputeLeaf(key), path, bits) = BuildTree(given)[TreeDepth][0]
    PROVE  \E i \in 1..Len(given) : given[i] = ComputeLeaf(key)
<1>1. PICK i \in Nodes(0) : ComputeLeaf(key) = PaddedLeaves(given)[i]
  BY OnlyLeavesClimb
<1>2. i \in 0..(MaxLeaves - 1) /\ i \in Nat /\ Len(given) \in Nat
  BY Widths DEF Nodes, MaxLeaves
<1>3. PaddedLeaves(given)[i] = IF i < Len(given) THEN given[i + 1] ELSE Zero
  BY <1>2 DEF PaddedLeaves
<1>4. ComputeLeaf(key) # Zero
  BY DEF CollisionFree, ComputeLeaf
<1>5. i < Len(given) /\ i + 1 \in 1..Len(given) /\ given[i + 1] = ComputeLeaf(key)
  BY <1>1, <1>2, <1>3, <1>4
<1>6. QED  BY <1>5

=============================================================================
