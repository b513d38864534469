---------------------------- MODULE MCMerkleTree ----------------------------
(***************************************************************************)
(* MerkleTree at depth 2, with policies of up to five issuers, one more    *)
(* than the tree holds.                                                    *)
(***************************************************************************)
EXTENDS MerkleTree

CONSTANTS leafA, leafB

MCWidth == [e \in 0..TreeDepth |-> 2 ^ (TreeDepth - e)]

\* A hash without collisions: the fields themselves.
MCPoseidon(fields) == fields

=============================================================================
