----------------------------- MODULE AgeCircuit -----------------------------
(***************************************************************************)
(* The circuit age_over_18_v1 (circuits/age_over_18_v1/src/main.nr): which *)
(* assignments of its inputs satisfy it.  An assignment is one record with *)
(* the private and the public inputs; a public key, two coordinates in the *)
(* code, is one value here, and so is a signature.                         *)
(*                                                                         *)
(* Field elements are opaque, except the three that the circuit compares   *)
(* as numbers.  Poseidon and the EdDSA check are parameters.               *)
(***************************************************************************)
EXTENDS PolicyTree

CONSTANTS
    U64,                     \* the number of values of a u64
    EddsaVerify(_, _, _)     \* eddsa_verify(public key, signature, message)

CredentialHash(pubkey, birthDateDays, schemaHash) ==
    Poseidon(<<pubkey, birthDateDays, schemaHash>>)

ComputeSubjectTag(holderSecret, verifierIdHash) ==
    Poseidon(<<holderSecret, verifierIdHash>>)

\* Mutant of ComputeNullifier: the same for every holder.
ComputeNullifierShared(holderSecret, verifierIdHash, factTypeHash, idempotencyKeyHash) ==
    Poseidon(<<verifierIdHash, factTypeHash, idempotencyKeyHash>>)

ComputeNullifier(holderSecret, verifierIdHash, factTypeHash, idempotencyKeyHash) ==
    Poseidon(<<holderSecret, verifierIdHash, factTypeHash, idempotencyKeyHash>>)

\* The parameters marked pub, in the order of the signature of main.
PublicInputs(w) ==
    <<w.verifierIdHash, w.factTypeHash, w.issuerPolicyRoot, w.schemaHash,
      w.subjectTag, w.nullifier, w.validUntil, w.cutoffDateDays>>

\* Mutant of OldEnough: the comparison the wrong way round.
OldEnoughReversed(w) == w.birthDateDays % U64 >= w.cutoffDateDays % U64

\* The age comparison is between the low 64 bits of the two fields.
OldEnough(w) == w.birthDateDays % U64 <= w.cutoffDateDays % U64

SignedByIssuer(w) ==
    EddsaVerify(w.issuerPubkey, w.signature,
                CredentialHash(w.issuerPubkey, w.birthDateDays, w.schemaHash))

\* Mutant of IssuerInPolicy: the root that the climb ends at is not compared.
IssuerInPolicyUnchecked(w) == TRUE

IssuerInPolicy(w) ==
    ComputeMerkleRoot(ComputeLeaf(w.issuerPubkey), w.merklePath, w.merkleIndexBits)
        = w.issuerPolicyRoot

Satisfied(w) ==
    /\ OldEnough(w)
    /\ SignedByIssuer(w)
    /\ IssuerInPolicy(w)
    /\ w.subjectTag = ComputeSubjectTag(w.holderSecret, w.verifierIdHash)
    /\ w.nullifier = ComputeNullifier(w.holderSecret, w.verifierIdHash,
                                      w.factTypeHash, w.idempotencyKeyHash)
    /\ w.validUntil # 0

=============================================================================
