-------------------------- MODULE MCProverPipeline --------------------------
(***************************************************************************)
(* ProverPipeline with a policy tree of two issuers.  The main process may *)
(* be started on any of the jobs below, the others on a few.               *)
(***************************************************************************)
EXTENDS ProverPipeline

CONSTANTS main, other, relative, current, gov, bank, keyGov, keyBank, keyOld, secretA, secretB,
          hugeSecret, verifier, ageFact, schema, rootBefore

MCWidth == [e \in 0..TreeDepth |-> 2 ^ (TreeDepth - e)]

\* A hash without collisions, and a signature that names its key and message.
MCPoseidon(fields) == fields
MCEddsaVerify(pubkey, signature, message) == signature = <<pubkey, message>>

Issuers == <<[issuerId |-> gov, leaf |-> ComputeLeaf(keyGov)],
             [issuerId |-> bank, leaf |-> ComputeLeaf(keyBank)]>>

Root == BuildTree(<<ComputeLeaf(keyGov), ComputeLeaf(keyBank)>>)[TreeDepth][0]

Credential(did, pubkey, birthDateDays) ==
    [issuer |-> [did |-> did, pubkey |-> pubkey], birthDateDays |-> birthDateDays,
     signature |-> <<pubkey, CredentialHash(pubkey, birthDateDays, schema)>>]

\* Requests expire at time 3.
Request(id, key, cutoff) ==
    [requestId |-> id, wellFormed |-> TRUE, expiresAt |-> 3,
     verifierIdHash |-> verifier, factTypeHash |-> ageFact, schemaHash |-> schema,
     idempotencyKey |-> key, cutoffDateDays |-> cutoff]

Job(id, did, pubkey, birthDateDays, key) ==
    [credential |-> Credential(did, pubkey, birthDateDays),
     request |-> Request(id, key, 5),
     policy |-> [root |-> Root, issuers |-> Issuers],
     holderSecret |-> secretA,
     now |-> 2]

\* Idempotency keys, byte by byte; Poseidon rejects the long one.
session1 == <<1>>
session1WithNul == <<0, 1>>
noSession == <<>>
nulSession == <<0>>
longSession == <<1, 0, 0>>

MCOversized == {longSession, hugeSecret}

Adult == Job("adult", bank, keyBank, 5, session1)
AdultLater == [Adult EXCEPT !.now = 3]
AdultAgain == Job("again", gov, keyGov, 3, session1WithNul)
NoKey == Job("noKey", gov, keyGov, 3, noSession)
NulKey == Job("nulKey", gov, keyGov, 3, nulSession)
Minor == Job("minor", gov, keyGov, 6, session1)
UnknownIssuer == [Job("unknown", gov, keyGov, 3, session1)
                     EXCEPT !.policy.issuers = Tail(Issuers)]
StaleRoot == [Job("stale", gov, keyGov, 3, session1) EXCEPT !.policy.root = rootBefore]
RotatedKey == Job("rotated", gov, keyBank, 3, session1)
\* Signed with a key of the issuer's that the policy does not list.
Unlisted == Job("unlisted", gov, keyOld, 3, session1)
\* The new root, and still the leaf of the issuer's old key.
Rekeyed == [Job("rekeyed", gov, keyBank, 3, session1) EXCEPT
               !.policy.root = BuildTree(<<ComputeLeaf(keyBank), ComputeLeaf(keyBank)>>)[TreeDepth][0]]
Unsigned == [Job("unsigned", gov, keyGov, 3, session1)
                EXCEPT !.credential.signature = NoField]
LongKey == Job("longKey", gov, keyGov, 3, longSession)
Expired == [Job("expired", gov, keyGov, 3, session1) EXCEPT !.now = 4]
NoSecret == [Job("noSecret", gov, keyGov, 3, session1) EXCEPT !.holderSecret = NoField]
HugeSecret == [Job("hugeSecret", gov, keyGov, 3, session1) EXCEPT !.holderSecret = hugeSecret]
OtherAdult == [Job("other", gov, keyGov, 4, session1) EXCEPT !.holderSecret = secretB]

MainJobs == {Adult, AdultLater, AdultAgain, NoKey, Minor, UnknownIssuer, StaleRoot, RotatedKey,
             Unlisted, Rekeyed, Unsigned, LongKey, Expired, NoSecret, HugeSecret}

\* The other process may also repeat a session of main's.
MCJobsOf == [p \in Procs |-> CASE p = main -> MainJobs
                                [] p = other -> {OtherAdult, Adult, NulKey}
                                [] OTHER -> {OtherAdult}]

\* All but the relative one run in the same directory, where the package is
\* written.
MCCwd == [p \in Procs |-> <<IF p = relative THEN "c" ELSE "a", "cli">>]

\* Only the process called current has the bb that makes a directory.
MCBbOutput == [p \in Procs |-> IF p = current THEN "directory" ELSE "file"]

\* A checkout each, or one for both, with NOIR_CIRCUIT_DIR absolute; and the
\* default of config.go, relative to the working directory.  SeparateDirs has
\* a process with the default too, if there is one.
Absolute(checkout) == [absolute |-> TRUE, names |-> <<checkout, "circuits", "age">>]
Default == [absolute |-> FALSE, names |-> <<"..", "circuits", "age">>]

SeparateDirs == [p \in Procs |-> CASE p = main -> Absolute("a")
                                    [] p = other -> Absolute("b")
                                    [] p = current -> Absolute("d")
                                    [] p = relative -> Default]
SharedDir == [p \in Procs |-> Absolute("a")]
DefaultDir == [p \in Procs |-> Default]

=============================================================================
