----------------------------- MODULE MerkleTree -----------------------------
(***************************************************************************)
(* The issuer policy tree (cli/internal/policy/tree.go) and the walk that  *)
(* the circuit makes in it (compute_merkle_root of main.nr), loop by loop: *)
(* BuildTree computes the levels, GetMerklePath reads the siblings of one  *)
(* leaf, and the circuit folds the leaf with them into a root.  A step is  *)
(* one iteration of the loop over the levels.                              *)
(***************************************************************************)
EXTENDS PolicyTree

CONSTANTS
    Leaves,            \* the values a policy's leaves can have
    MaxIssuers         \* bound on the number of issuers of a policy

ASSUME MerkleTreeAssumption == MaxIssuers \in Nat

VARIABLES
    phase,             \* the loop that is running
    leaves,            \* input: the leaves of the policy, in its order
    leafIndex,         \* input: the position of the holder's issuer
    d,                 \* loop counter: the level
    levels,            \* BuildTree's result, one function per level
    position,          \* the values of GetMerklePath's idx, by level
    path, bits,        \* GetMerklePath's results
    current            \* the node the circuit has climbed to

vars == <<phase, leaves, leafIndex, d, levels, position, path, bits, current>>

-----------------------------------------------------------------------------

Init ==
    /\ phase = "build"
    /\ \E n \in 0..MaxIssuers : leaves \in [1..n -> Leaves]
    /\ leafIndex \in 0..(Len(leaves) - 1)
    /\ d = 0
    /\ levels = [e \in {0} |-> PaddedLeaves(leaves)]
    /\ position = [e \in {0} |-> leafIndex]
    /\ path = <<>>
    /\ bits = <<>>
    /\ current = Zero

\* BuildTree, one iteration: level d + 1 from level d.
BuildLevel ==
    /\ phase = "build" /\ d < TreeDepth
    /\ levels' = [e \in 0..(d + 1) |->
                    IF e <= d THEN levels[e] ELSE NextLevel(levels[d], Width[d + 1])]
    /\ d' = d + 1
    /\ UNCHANGED <<phase, leaves, leafIndex, position, path, bits, current>>

TreeBuilt ==
    /\ phase = "build" /\ d = TreeDepth
    /\ phase' = "path"
    /\ d' = 0
    /\ UNCHANGED <<leaves, leafIndex, levels, position, path, bits, current>>

\* GetMerklePath, one iteration: the sibling at level d.  An index past the
\* level is a run-time panic.
PathStep ==
    /\ phase = "path" /\ d < TreeDepth
    /\ LET idx == position[d]
       IN  /\ SiblingIndex(idx) \in DOMAIN levels[d]
           /\ path' = Append(path, levels[d][SiblingIndex(idx)])
           /\ bits' = Append(bits, idx % 2)
           /\ position' = [e \in 0..(d + 1) |->
                             IF e <= d THEN position[e] ELSE idx \div 2]
    /\ d' = d + 1
    /\ UNCHANGED <<phase, leaves, leafIndex, levels, current>>

PathPanics ==
    /\ phase = "path" /\ d < TreeDepth
    /\ SiblingIndex(position[d]) \notin DOMAIN levels[d]
    /\ phase' = "panic"
    /\ UNCHANGED <<leaves, leafIndex, d, levels, position, path, bits, current>>

\* The holder's own leaf, not the tree's, is what the circuit starts from;
\* they are the same when the policy lists the issuer's key.
PathDone ==
    /\ phase = "path" /\ d = TreeDepth
    /\ phase' = "climb"
    /\ d' = 0
    /\ current' = leaves[leafIndex + 1]
    /\ UNCHANGED <<leaves, leafIndex, levels, position, path, bits>>

\* compute_merkle_root, one iteration.
ClimbStep ==
    /\ phase = "climb" /\ d < TreeDepth
    /\ current' = Climb(current, path[d + 1], bits[d + 1])
    /\ d' = d + 1
    /\ UNCHANGED <<phase, leaves, leafIndex, levels, position, path, bits>>

Next == BuildLevel \/ TreeBuilt \/ PathStep \/ PathPanics \/ PathDone \/ ClimbStep

Spec == Init /\ [][Next]_vars

-----------------------------------------------------------------------------

Root == levels[TreeDepth][0]

Climbed == phase = "climb" /\ d = TreeDepth

\* The path of a leaf leads to the root: whatever the policy and the issuer's
\* place in it, the circuit computes the root BuildTree computed.
PathLeadsToRoot == Climbed => current = Root

\* The root of the tree over given, defined top down: the tree over the 2^n
\* leaves from first on, which is as many as there are nodes n levels below the
\* root, joins the trees over their two halves.
ReferenceRoot(given) ==
    LET subtree[n \in 0..TreeDepth] ==
            [first \in Nat |->
               IF n = 0
               THEN IF first < Len(given) THEN given[first + 1] ELSE Zero
               ELSE Poseidon(<<subtree[n - 1][first],
                               subtree[n - 1][first + Width[TreeDepth - (n - 1)]]>>)]
    IN  subtree[TreeDepth][0]

\* BuildTree's bottom-up levels end in the root of the tree over the policy's
\* first MaxLeaves leaves, padded with zeros.
RootIsReference == TreeDepth \in DOMAIN levels => Root = ReferenceRoot(leaves)

\* Exactly the issuers beyond the capacity of the tree make GetMerklePath
\* panic; none of them ever gets as far as the circuit.
PanicExactlyBeyondCapacity ==
    /\ phase = "panic" => leafIndex >= MaxLeaves
    /\ phase = "climb" => leafIndex < MaxLeaves

\* The loops, iteration by iteration, compute what the operators BuildTree,
\* GetMerklePath and ComputeMerkleRoot say they do.
LoopsAgree ==
    LET tree == BuildTree(leaves)
        merkle == GetMerklePath(tree, leafIndex)
    IN  /\ phase # "build" => \A e \in 0..TreeDepth : levels[e] = tree[e]
        /\ phase = "climb" => \A e \in 0..(TreeDepth - 1) : /\ path[e + 1] = merkle.path[e]
                                                            /\ bits[e + 1] = merkle.bits[e]
        /\ Climbed => current = ComputeMerkleRoot(leaves[leafIndex + 1],
                                                  merkle.path, merkle.bits)

=============================================================================
