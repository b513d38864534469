--------------------------- MODULE ProverPipeline ---------------------------
(***************************************************************************)
(* The command prove (cli/cmd/main.go, cli/internal/prover/generator.go):  *)
(* processes that each turn a job, that is a credential, a request, a      *)
(* policy and a holder secret, into a proof package, through the files     *)
(* that they hand to nargo and bb and get back from them.                  *)
(*                                                                         *)
(* A file is written by truncating it and then filling it, two steps that  *)
(* other processes and crashes can come between.  nargo and bb are         *)
(* external: each reads and writes its files at once, or fails.  What bb   *)
(* makes of its -o depends on its version: a file with the proof, as the   *)
(* command expects, or a directory with the files proof and public_inputs, *)
(* as README.md and the scripts have it.  A proof is represented by the    *)
(* witness it was made from; for which kind of verifier bb makes it (the   *)
(* command passes no -t evm) is not modelled.                              *)
(***************************************************************************)
EXTENDS AgeCircuit, SequencesExt

CONSTANTS
    Procs,             \* processes running zk-verify prove
    JobsOf,            \* the jobs each process may be started on
    Cwd,               \* the working directory of each process
    NoirCircuitDir,    \* its NOIR_CIRCUIT_DIR: [absolute, names]
    BbOutput,          \* what its bb makes of -o: a "file" or a "directory"
    Validity,          \* the 24 hours a proof is valid
    NoField,           \* a string that HexToField rejects
    Oversized,         \* numbers that exceed the field, which Poseidon rejects
    Missing, Torn,     \* a file that does not exist, one that is not whole
    Directory,         \* a directory in the place of a file
    MaxRuns            \* bound on how often processes are started

ASSUME ProverAssumption ==
    /\ Missing # Torn /\ Directory \notin {Missing, Torn}
    /\ BbOutput \in [Procs -> {"file", "directory"}]
    /\ MaxRuns \in Nat

VARIABLES
    phase,             \* what each process does next
    job,               \* the job it was started on
    input,             \* the circuit inputs it computed
    proof,             \* the proof bytes it read
    proverToml,        \* Prover.toml of each circuit directory
    witness,           \* target/age_over_18_v1.gz of each directory
    proofFile,         \* out/proof of each directory
    package,           \* proof_package.json of each working directory
    runs               \* how often a process was started

vars == <<phase, job, input, proof, proverToml, witness, proofFile, package, runs>>
local == <<job, input, proof, runs>>
files == <<proverToml, witness, proofFile, package>>

-----------------------------------------------------------------------------

\* Paths: a directory is the sequence of names from the root.
Resolve(base, dir) ==
    IF dir.absolute
    THEN dir.names
    ELSE FoldLeft(LAMBDA at, name : IF name = ".." THEN Front(at) ELSE Append(at, name),
                  base, dir.names)

\* Where the process itself finds the circuit directory, and where bb, which
\* runs in that directory, finds the paths it is given.
CircuitDir(p) == Resolve(Cwd[p], NoirCircuitDir[p])
BbDir(p) == Resolve(CircuitDir(p), NoirCircuitDir[p])

CircuitDirs == {CircuitDir(p) : p \in Procs} \cup {BbDir(p) : p \in Procs}
Cwds == {Cwd[p] : p \in Procs}

Whole(file) == file \notin {Missing, Torn, Directory}

\* Filling a file that was truncated: what another process wrote to it since
\* then may show behind the new content.
Filled(file, content) == IF file = Torn THEN {content} ELSE {content, Torn}

-----------------------------------------------------------------------------

\* A job is all that a run is started on: a credential, a request, a policy, the
\* holder's secret, and the time.

\* VerificationRequest.Validate; a request without expires_at never expires.
Validate(j) == j.request.wellFormed /\ j.now <= j.request.expiresAt

LeafIndices(j) == {i \in DOMAIN j.policy.issuers :
                     j.policy.issuers[i].issuerId = j.credential.issuer.did}

\* The first entry of the policy with the issuer's DID.
LeafIndex(j) == (CHOOSE i \in LeafIndices(j) : \A k \in LeafIndices(j) : i <= k) - 1

PolicyLeaves(j) == [i \in DOMAIN j.policy.issuers |-> j.policy.issuers[i].leaf]

\* The strings that GenerateProof parses before it writes anything.
ParsedFields(j) ==
    {j.credential.issuer.pubkey, j.holderSecret, j.request.verifierIdHash,
     j.request.factTypeHash, j.request.schemaHash, j.policy.root}
    \cup Range(PolicyLeaves(j))

\* Mutant of ComputeIdempotencyKeyHash: the bytes are never set.
ComputeIdempotencyKeyHashUnset(key) == <<>>

\* The number that the bytes of the key are the digits of; a missing key is 0, and
\* so are bytes that are all NUL.  A number stands here as its digits, without
\* zeros in front.
ComputeIdempotencyKeyHash(key) ==
    LET first == CHOOSE i \in 1..(Len(key) + 1) :
                    /\ \A k \in 1..(i - 1) : key[k] = 0
                    /\ i <= Len(key) => key[i] # 0
    IN  SubSeq(key, first, Len(key))

HashedFields(j) ==
    {j.holderSecret, j.request.verifierIdHash, j.request.factTypeHash,
     ComputeIdempotencyKeyHash(j.request.idempotencyKey)} \cup Range(PolicyLeaves(j))

\* GenerateProof reaches the files: every error return before them is avoided.
Prepares(j) ==
    /\ Validate(j)
    /\ LeafIndices(j) # {}
    /\ LeafIndex(j) < MaxLeaves
    /\ NoField \notin ParsedFields(j)
    /\ HashedFields(j) \cap Oversized = {}

\* fieldFromHex: a signature that does not parse is written as 0.
FieldFromHex(value) == IF value = NoField THEN Zero ELSE value

\* The values buildProverToml writes.
CircuitInputs(j) ==
    LET merkle == GetMerklePath(BuildTree(PolicyLeaves(j)), LeafIndex(j))
        request == j.request
        key == ComputeIdempotencyKeyHash(request.idempotencyKey)
    IN  [birthDateDays |-> j.credential.birthDateDays,
         holderSecret |-> j.holderSecret,
         issuerPubkey |-> j.credential.issuer.pubkey,
         signature |-> FieldFromHex(j.credential.signature),
         merklePath |-> merkle.path, merkleIndexBits |-> merkle.bits,
         idempotencyKeyHash |-> key,
         verifierIdHash |-> request.verifierIdHash,
         factTypeHash |-> request.factTypeHash,
         issuerPolicyRoot |-> j.policy.root,
         schemaHash |-> request.schemaHash,
         subjectTag |-> ComputeSubjectTag(j.holderSecret, request.verifierIdHash),
         nullifier |-> ComputeNullifier(j.holderSecret, request.verifierIdHash,
                                        request.factTypeHash, key),
         validUntil |-> j.now + Validity,
         cutoffDateDays |-> request.cutoffDateDays]

ProofPackage(p) ==
    [requestId |-> job[p].request.requestId, proof |-> proof[p],
     publicInputs |-> PublicInputs(input[p])]

-----------------------------------------------------------------------------

Init ==
    /\ phase = [p \in Procs |-> "ready"]
    /\ job = [p \in Procs |-> Missing]
    /\ input = [p \in Procs |-> Missing]
    /\ proof = [p \in Procs |-> Missing]
    /\ proverToml = [dir \in CircuitDirs |-> Missing]
    /\ witness = [dir \in CircuitDirs |-> Missing]
    /\ proofFile = [dir \in CircuitDirs |-> Missing]
    /\ package = [dir \in Cwds |-> Missing]
    /\ runs = 0

Goto(p, next) == phase' = [phase EXCEPT ![p] = next]

Running(p) == phase[p] \notin {"ready", "done", "failed", "aborted"}

\* main.go up to GenerateProof, and GenerateProof up to its first file.
Start(p, j) ==
    /\ ~Running(p)
    /\ runs < MaxRuns
    /\ runs' = runs + 1
    /\ job' = [job EXCEPT ![p] = j]
    /\ proof' = [proof EXCEPT ![p] = Missing]
    /\ IF Prepares(j)
       THEN /\ input' = [input EXCEPT ![p] = CircuitInputs(j)]
            /\ Goto(p, "openToml")
       ELSE /\ input' = [input EXCEPT ![p] = Missing]
            /\ Goto(p, "failed")
    /\ UNCHANGED files

OpenToml(p) ==
    /\ phase[p] = "openToml"
    /\ proverToml' = [proverToml EXCEPT ![CircuitDir(p)] = Torn]
    /\ Goto(p, "writeToml")
    /\ UNCHANGED <<local, witness, proofFile, package>>

WriteToml(p) ==
    /\ phase[p] = "writeToml"
    /\ \E content \in Filled(proverToml[CircuitDir(p)], input[p]) :
          proverToml' = [proverToml EXCEPT ![CircuitDir(p)] = content]
    /\ Goto(p, "execute")
    /\ UNCHANGED <<local, witness, proofFile, package>>

\* nargo execute, in the circuit directory: the witness of Prover.toml, if it
\* satisfies the circuit.
Executable(p) ==
    LET toml == proverToml[CircuitDir(p)] IN Whole(toml) /\ Satisfied(toml)

NargoExecute(p) ==
    /\ phase[p] = "execute"
    /\ Executable(p)
    /\ witness' = [witness EXCEPT ![CircuitDir(p)] = proverToml[CircuitDir(p)]]
    /\ Goto(p, "prove")
    /\ UNCHANGED <<local, proverToml, proofFile, package>>

\* Mutant of NargoFails: the error is not returned.
NargoFailsIgnored(p) ==
    /\ phase[p] = "execute"
    /\ ~Executable(p)
    /\ Goto(p, "prove")
    /\ UNCHANGED <<local, files>>

NargoFails(p) ==
    /\ phase[p] = "execute"
    /\ ~Executable(p)
    /\ Goto(p, "failed")
    /\ UNCHANGED <<local, files>>

\* bb prove, from the witness the given path leads it to.
BbProve(p) ==
    /\ phase[p] = "prove"
    /\ Whole(witness[BbDir(p)])
    /\ proofFile' = [proofFile EXCEPT ![BbDir(p)] =
                        IF BbOutput[p] = "file" THEN witness[BbDir(p)] ELSE Directory]
    /\ Goto(p, "read")
    /\ UNCHANGED <<local, proverToml, witness, package>>

BbFails(p) ==
    /\ phase[p] = "prove"
    /\ ~Whole(witness[BbDir(p)])
    /\ Goto(p, "failed")
    /\ UNCHANGED <<local, files>>

\* Whatever bytes the file holds are taken for the proof; a directory has none.
ReadProof(p) ==
    /\ phase[p] = "read"
    /\ IF proofFile[CircuitDir(p)] \in {Missing, Directory}
       THEN /\ Goto(p, "failed")
            /\ UNCHANGED proof
       ELSE /\ proof' = [proof EXCEPT ![p] = proofFile[CircuitDir(p)]]
            /\ Goto(p, "openPackage")
    /\ UNCHANGED <<job, input, runs, files>>

OpenPackage(p) ==
    /\ phase[p] = "openPackage"
    /\ package' = [package EXCEPT ![Cwd[p]] = Torn]
    /\ Goto(p, "writePackage")
    /\ UNCHANGED <<local, proverToml, witness, proofFile>>

WritePackage(p) ==
    /\ phase[p] = "writePackage"
    /\ \E content \in Filled(package[Cwd[p]], ProofPackage(p)) :
          package' = [package EXCEPT ![Cwd[p]] = content]
    /\ Goto(p, "done")
    /\ UNCHANGED <<local, proverToml, witness, proofFile>>

\* A crash or an I/O error anywhere.  A tool that is killed may leave the file
\* it was writing torn.
Abort(p) ==
    /\ Running(p)
    /\ Goto(p, "aborted")
    /\ \/ UNCHANGED files
       \/ /\ phase[p] = "execute"
          /\ witness' = [witness EXCEPT ![CircuitDir(p)] = Torn]
          /\ UNCHANGED <<proverToml, proofFile, package>>
       \/ /\ phase[p] = "prove"
          /\ proofFile' = [proofFile EXCEPT ![BbDir(p)] =
                              IF BbOutput[p] = "file" THEN Torn ELSE Directory]
          /\ UNCHANGED <<proverToml, witness, package>>
    /\ UNCHANGED local

\* The steps of a started process.
Step(p) ==
    \/ OpenToml(p) \/ WriteToml(p)
    \/ NargoExecute(p) \/ NargoFails(p)
    \/ BbProve(p) \/ BbFails(p) \/ ReadProof(p)
    \/ OpenPackage(p) \/ WritePackage(p)

Work == \E p \in Procs : Step(p) \/ (\E j \in JobsOf[p] : Start(p, j))

Next == Work \/ \E p \in Procs : Abort(p)

Spec == Init /\ [][Next]_vars

-----------------------------------------------------------------------------

\* No two processes share a circuit directory, nor the one that bb takes for it.
ExclusiveDirs ==
    \A p, q \in Procs :
        p # q => {CircuitDir(p), BbDir(p)} \cap {CircuitDir(q), BbDir(q)} = {}

\* bb finds its files where the process puts them, and makes the file that the
\* process reads.
ToolsFit(p) == BbDir(p) = CircuitDir(p) /\ BbOutput[p] = "file"

\* The proof of a package proves, of a satisfied circuit, the public inputs
\* that stand beside it, which are those of the package's own request.
Sound(pkg) ==
    /\ Whole(pkg.proof)
    /\ Satisfied(pkg.proof)
    /\ PublicInputs(pkg.proof) = pkg.publicInputs

\* Every proof_package.json that is whole is sound, whatever crashed and
\* whatever an earlier run left behind.
PackageSound == \A dir \in Cwds : Whole(package[dir]) => Sound(package[dir])

\* The leaves of the policy, with the credential's key at its issuer's place.
LeavesWithKey(j) ==
    [PolicyLeaves(j) EXCEPT ![LeafIndex(j) + 1] = ComputeLeaf(j.credential.issuer.pubkey)]

\* What a job needs for its claim to be true, in terms of its own files: the
\* holder's age, the issuer's signature, and that the policy's root is the root
\* of a tree in which the issuer has the key that signed.
Entitled(j) ==
    /\ j.credential.birthDateDays <= j.request.cutoffDateDays
    /\ EddsaVerify(j.credential.issuer.pubkey, j.credential.signature,
                   CredentialHash(j.credential.issuer.pubkey, j.credential.birthDateDays,
                                  j.request.schemaHash))
    /\ j.policy.root = BuildTree(LeavesWithKey(j))[TreeDepth][0]

\* A run on a true claim ends without its package only if it crashed.
EntitledGetsPackage ==
    \A p \in Procs : phase[p] = "failed" => ~(Prepares(job[p]) /\ Entitled(job[p]))

\* A run that does not crash tells the truth about its job, whatever earlier
\* runs crashed and left behind and others do meanwhile: it ends with a package
\* exactly when the claim is true and bb fits.  With the relative path that
\* README.md:142 prescribes, or a bb that makes a directory of -o, as in
\* README.md:68-75, no run ends with one, whatever its claim.
TruthfulVerdict ==
    \A p \in Procs :
        LET claim == Prepares(job[p]) /\ Entitled(job[p])
        IN  /\ phase[p] = "done" => claim /\ ToolsFit(p)
            /\ phase[p] = "failed" /\ ToolsFit(p) => ~claim

\* No package is ever saved for a request whose claim is false.
OnlyTrueClaims ==
    \A dir \in Cwds : Whole(package[dir]) =>
        \E p \in Procs : \E j \in JobsOf[p] :
            j.request.requestId = package[dir].requestId /\ Prepares(j) /\ Entitled(j)

\* A package that shows the root of a policy's tree was made from a credential
\* that an issuer on that policy's list signed, with the key it is listed with.
SignedByListedIssuer ==
    \A dir \in Cwds : \A p \in Procs : \A j \in JobsOf[p] :
        /\ Whole(package[dir])
        /\ package[dir].publicInputs[3] = BuildTree(PolicyLeaves(j))[TreeDepth][0]
        => /\ SignedByIssuer(package[dir].proof)
           /\ ComputeLeaf(package[dir].proof.issuerPubkey) \in Range(PolicyLeaves(j))

\* Two idempotency keys that differ at most by NUL bytes in front.
Padded(key, n) ==
    [i \in 1..n |-> IF i <= n - Len(key) THEN 0 ELSE key[i - (n - Len(key))]]

SameKey(a, b) ==
    LET n == IF Len(a) <= Len(b) THEN Len(b) ELSE Len(a) IN Padded(a, n) = Padded(b, n)

\* Of two runs that have their proofs, the nullifiers are equal exactly if the
\* jobs are of the same holder, verifier, fact type and idempotency key: nobody
\* repeats a session under another nullifier, and none uses up that of another.
\* A missing key counts as one, that of NULs; keys that differ by NULs in front,
\* which computeIdempotencyKeyHash takes for the same number, count as equal.
NullifierIsSession ==
    \A p, q \in Procs :
        Whole(proof[p]) /\ Whole(proof[q]) =>
            (proof[p].nullifier = proof[q].nullifier
                <=> /\ job[p].holderSecret = job[q].holderSecret
                    /\ job[p].request.verifierIdHash = job[q].request.verifierIdHash
                    /\ job[p].request.factTypeHash = job[q].request.factTypeHash
                    /\ SameKey(job[p].request.idempotencyKey, job[q].request.idempotencyKey))

-----------------------------------------------------------------------------

\* The package of a job is the one that holds a proof made from its inputs.
PackageOf(j) ==
    LET w == CircuitInputs(j)
    IN  [requestId |-> j.request.requestId, proof |-> w, publicInputs |-> PublicInputs(w)]

Claim(j) == Prepares(j) /\ Entitled(j)

\* The stage of the service at each phase.
Stage(at) ==
    CASE at = "ready" -> "idle"
      [] at = "writePackage" -> "saving"
      [] at \in {"done", "failed", "aborted"} -> "ended"
      [] OTHER -> "working"

Service == INSTANCE ProofService WITH stage <- [p \in Procs |-> Stage(phase[p])]

\* prove is an atomic prover: whatever the files of other jobs, of crashed runs
\* and of other processes hold, a process writes proof_package.json only for a
\* true claim, and with the package of its own job.
ImplementsService == Service!Spec

=============================================================================
