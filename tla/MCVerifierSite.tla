--------------------------- MODULE MCVerifierSite ---------------------------
(***************************************************************************)
(* VerifierSite with a subject who has a fact, stored twice, for one of    *)
(* two verifiers, in words of two bytes.                                   *)
(***************************************************************************)
EXTENDS VerifierSite

CONSTANTS root, schema, session1, session2, holder

CallUntil(nullifier, validUntil) ==
    [proof |-> nullifier, publicInputs |-> nullifier,
     verifierIdHash |-> 34, subjectTag |-> 10, factTypeHash |-> 1,
     issuerPolicyRoot |-> root, schemaHash |-> schema,
     nullifier |-> nullifier, validUntil |-> validUntil]

MCCalls == {CallUntil(session1, 1), CallUntil(session2, 0)}

MCVerify(proof, publicInputs) == proof = publicInputs

\* 0x0022, spaces, or 0g22, which has no prefix; 0a; 0x01.
MCTexts ==
    [verifierIdHash |-> {<<0, X, 0, 0, 2, 2>>, <<>>, <<0, Other, 2, 2>>},
     subjectTag |-> {<<0, 10>>},
     factTypeHash |-> {<<0, X, 0, 1>>}]

\* Another verifier's, and one without a .env.
MCConfigs ==
    {[factRegistry |-> "deployed", verifierIdHash |-> <<0, X, 2, 3>>],
     [factRegistry |-> "", verifierIdHash |-> <<>>]}

=============================================================================
