----------------------------- MODULE PolicyTree -----------------------------
(***************************************************************************)
(* The operators of the issuer policy tree: how BuildTree makes a level    *)
(* from the one below (cli/internal/policy/tree.go), which sibling         *)
(* GetMerklePath takes, and how the circuit climbs a level (main.nr).      *)
(*                                                                         *)
(* Width[d] is the number of nodes of level d, so that Width[0] is         *)
(* MaxLeaves.  Poseidon is a parameter.                                    *)
(***************************************************************************)
EXTENDS Integers, Sequences

CONSTANTS
    TreeDepth,
    Width,
    Zero,              \* big.NewInt(0)
    Poseidon(_)        \* the hash of a sequence of fields

ASSUME PolicyTreeAssumption ==
    /\ TreeDepth \in Nat \ {0}
    /\ Width \in [0..TreeDepth -> Nat]
    /\ Width[TreeDepth] = 1
    /\ \A d \in 0..(TreeDepth - 1) : Width[d] = 2 * Width[d + 1]

MaxLeaves == Width[0]

\* The indices of a level.
Nodes(d) == 0..(Width[d] - 1)

ComputeLeaf(pubkey) == Poseidon(<<pubkey>>)

\* Missing leaves are zeros; leaves beyond MaxLeaves are dropped silently.
PaddedLeaves(given) ==
    [i \in 0..(MaxLeaves - 1) |-> IF i < Len(given) THEN given[i + 1] ELSE Zero]

\* Mutant of NextLevel: neighbours paired instead of siblings.
NextLevelOverlapping(prev, width) ==
    [i \in 0..(width - 1) |-> Poseidon(<<prev[i], prev[i + 1]>>)]

NextLevel(prev, width) ==
    [i \in 0..(width - 1) |-> Poseidon(<<prev[2 * i], prev[2 * i + 1]>>)]

\* Mutant of SiblingIndex: the parity the wrong way round.
SiblingIndexReversed(idx) == IF idx % 2 = 0 THEN idx - 1 ELSE idx + 1

SiblingIndex(idx) == IF idx % 2 = 0 THEN idx + 1 ELSE idx - 1

\* Mutant of Climb: left and right exchanged.
ClimbSwapped(node, sibling, bit) ==
    Poseidon(IF bit = 0 THEN <<sibling, node>> ELSE <<node, sibling>>)

\* One level up: a bit 0 says that the node is the left child.
Climb(node, sibling, bit) ==
    Poseidon(IF bit = 0 THEN <<node, sibling>> ELSE <<sibling, node>>)

-----------------------------------------------------------------------------

\* The results of the loops that MerkleTree models step by step.
BuildTree(given) ==
    LET level[d \in 0..TreeDepth] ==
            IF d = 0 THEN PaddedLeaves(given) ELSE NextLevel(level[d - 1], Width[d])
    IN  level

\* Mutant of Ancestor: the index halved before the sibling is read.
AncestorHalvedEarly(leafIndex, d) ==
    LET idx[e \in 0..TreeDepth] == IF e = 0 THEN leafIndex \div 2 ELSE idx[e - 1] \div 2
    IN  idx[d]

\* The ancestor of leaf leafIndex on level d.
Ancestor(leafIndex, d) ==
    LET idx[e \in 0..TreeDepth] == IF e = 0 THEN leafIndex ELSE idx[e - 1] \div 2
    IN  idx[d]

GetMerklePath(levels, leafIndex) ==
    [path |-> [d \in 0..(TreeDepth - 1) |->
                 levels[d][SiblingIndex(Ancestor(leafIndex, d))]],
     bits |-> [d \in 0..(TreeDepth - 1) |-> Ancestor(leafIndex, d) % 2]]

ComputeMerkleRoot(leaf, path, bits) ==
    LET node[d \in 0..TreeDepth] ==
            IF d = 0 THEN leaf ELSE Climb(node[d - 1], path[d - 1], bits[d - 1])
    IN  node[TreeDepth]

=============================================================================
