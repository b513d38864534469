--------------------------- MODULE MCFactRegistry ---------------------------
(***************************************************************************)
(* FactRegistry on a small instance: the calls that submit-fact makes for  *)
(* proof packages of two holders and one verifier, and one that submit-fact*)
(* would not make but the contract accepts.                                *)
(***************************************************************************)
EXTENDS FactRegistry

CONSTANTS verifier, ageFact, root, schema, alice, bob, n1, n2, n3, n4, cutoff

\* The eight public inputs of a package, in the order of main.nr's signature.
Inputs(tag, nullifier, validUntil) ==
    <<verifier, ageFact, root, schema, tag, nullifier, validUntil, cutoff>>

\* A proof is known by the public inputs it was made for.
MCVerify(proof, publicInputs) == proof = publicInputs

\* submit-fact copies the typed arguments out of the package.
PackageCall(proof, inputs) ==
    [proof |-> proof, publicInputs |-> inputs,
     verifierIdHash |-> inputs[1], factTypeHash |-> inputs[2],
     issuerPolicyRoot |-> inputs[3], schemaHash |-> inputs[4],
     subjectTag |-> inputs[5], nullifier |-> inputs[6],
     validUntil |-> inputs[7]]

Proven(tag, nullifier, validUntil) ==
    LET inputs == Inputs(tag, nullifier, validUntil)
    IN  PackageCall(inputs, inputs)

\* Two requests of alice (the first proved twice, at different times), one of
\* bob, a package of bob whose proof is that of another statement, and alice's
\* first proof again with a nullifier argument that is not among its inputs.
MCCalls ==
    {Proven(alice, n1, 1), Proven(alice, n1, 3), Proven(alice, n2, 2),
     Proven(bob, n3, 3),
     PackageCall(Inputs(alice, n1, 1), Inputs(bob, n3, 2)),
     [Proven(alice, n1, 3) EXCEPT !.nullifier = n4]}

=============================================================================
