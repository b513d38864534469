---------------------------- MODULE MCHolderFlow ----------------------------
(***************************************************************************)
(* HolderFlow with two holders of a verifier.  alice runs the whole flow   *)
(* and, from the same directory, a second shell in which she retries       *)
(* submit-fact and looks her fact up; bob runs the whole flow elsewhere,   *)
(* and not every package of his can succeed.                               *)
(***************************************************************************)
EXTENDS HolderFlow

CONSTANTS alice, aliceAgain, bob, verifier, ageFact, root, schema,
          tagA, tagB, session1, session2, cutoff, account0, account1

Inputs(tag, nullifier, validUntil) ==
    <<verifier, ageFact, root, schema, tag, nullifier, validUntil, cutoff>>

\* A proof is known by the public inputs it was made for.
MCVerify(proof, publicInputs) == proof = publicInputs

Package(tag, nullifier, validUntil) ==
    [proof |-> Inputs(tag, nullifier, validUntil),
     publicInputs |-> Inputs(tag, nullifier, validUntil),
     subjectTag |-> tag, nullifier |-> nullifier]

\* bob's other package takes more gas than submit-fact allows for.
Costly == Package(tagB, session2, 1)

MCGasOf(call) == IF call = CallOf(Costly) THEN GasLimit + 1 ELSE GasLimit

\* Each has one request; alice's may be proved today or tomorrow.
MCPackagesOf ==
    [p \in Procs |->
       IF p = bob THEN {Package(tagB, session2, 2), Costly}
       ELSE {Package(tagA, session1, 1), Package(tagA, session1, 2)}]

MCCalls == {CallOf(made_) : made_ \in Packages}

MCCommandsOf ==
    [p \in Procs |->
       IF p = aliceAgain THEN {"submit-fact", "lookup-fact"} ELSE {"verify-service-flow"}]

MCCwd == [p \in Procs |-> IF p = bob THEN "bob" ELSE "alice"]

\* README.md has every CLI use Hardhat's account #0; or an account per holder.
SharedAccount == [p \in Procs |-> account0]
HolderAccounts == [p \in Procs |-> IF p = bob THEN account1 ELSE account0]

=============================================================================
