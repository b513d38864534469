# Verification of zk-fact-verification

A holder proves to a verifier, in zero knowledge, a fact about a credential
("over 18"), and the fact is recorded on an Ethereum chain where the verifier
looks it up. This directory holds TLA+ models of the parts of that system, TLC
configurations that check them on small instances, and proofs, checked by
TLAPS, of the properties that matter most for every value of the constants.

## The system

| Component | State | Operations | Talks to |
|---|---|---|---|
| `FactRegistry.sol` | `facts`, `usedNullifiers`, event log | `submitVerifiedFact`, `getFact`, `isFactValid` | calls `verify` of `NoirVerifier` |
| `IssuerRegistry.sol` | `owner`, `issuers`, event log | `addIssuer`, `deactivateIssuer`, `isActive`, `getIssuer` | nobody: neither contract nor CLI reads it |
| `NoirVerifier.sol` | none (generated by bb) | `verify` | |
| circuit `age_over_18_v1` | none | satisfied or not | executed by nargo, proved by bb |
| policy tree (`tree.go`) | none | `BuildTree`, `GetMerklePath`, `ComputeLeaf` | its paths are climbed by the circuit |
| `zk-verify prove` (`main.go`, `generator.go`, `witness.go`, `validator.go`, loaders) | `Prover.toml`, `target/*.gz`, `out/proof` in the circuit directory, `proof_package.json` in the working directory | one run of the command | runs nargo and bb; shares files with every other run |
| `submit-fact`, `lookup-fact`, `verify-service-flow` (`main.go`, `submitter.go`, `reader.go`) | none of their own: a nonce and a package read earlier | one run of the command | `proof_package.json`; the node (nonces, pool, view calls) |
| verifier backend (`site/backend`) | configuration read at start | `/api/lookup`, `/api/config`, `/api/health` | view calls of the node |
| verifier frontend (`app.js`) | the form, the button and the result on the page | page load, lookup | the backend |
| deployment (`docker-compose.yml`, `deploy*.ts`) | the node's chain, `deployment.json`, `.env` of the shared volume | deploy, seed, export, start of the backend | node, backend |

What is hard in it:

- **files**: every run of `prove` goes through the same three files of the
  circuit directory, and every command through one `proof_package.json`; runs
  overlap, crash, and leave torn or old files (`ProverPipeline`);
- **agreement of two programs**: Go computes leaves, paths, tags and nullifiers
  that the circuit computes again; a disagreement shows only as a failing
  proof (`MerkleTree`, `AgeCircuit`);
- **the chain**: submissions are delivered twice, late, out of order, or
  replaced in the pool by one of the same nonce; a submission whose answer was
  lost is retried (`FactRegistry`, `HolderFlow`);
- **time**: facts expire without a transaction (`FactRegistry`), and the backend
  judges expiry by a clock of its own (`VerifierSite`);
- **the page**: two asynchronous handlers write the same page, and while a lookup
  is under way the form, the contract and the backend change (`VerifierSite`);
- **deployment**: addresses depend on every other transaction of the account,
  files survive the run that wrote them and the chain does not survive the node;
  a shell goes on after a failed step (`Deployment`).

What makes each component correct:

- FactRegistry: a nullifier is spent once; the events tell which keys have a fact,
  of whom and from whom (but neither its nullifier nor its expiry); a fact is
  revived only by a call with an unused nullifier argument. The contract does not
  compare its arguments with the public inputs of the proof, so that no proof is
  recorded twice is up to `submit-fact`.
- IssuerRegistry: the key of an active issuer is never replaced; the events of
  an issuer alternate and determine the registry.
- Policy tree and circuit: the path of an issuer leads to the root, for every
  issuer that fits, and the others never get to the circuit.
- `prove`: a package that can be read is a proof of the public inputs next to
  it, and of a true claim; a run that does not crash gets a package exactly for a
  true claim, if bb finds its files and writes the one that is read; a nullifier
  stands for one holder, verifier, fact type and idempotency key.
- `submit-fact` and `verify-service-flow`: what they report as done is, or
  eventually is, on record, and a proof is recorded once.
- the site: a card shows what the contract held for the key that was asked for,
  at a moment since it was asked; "verified" is said of valid facts only; every
  lookup ends.
- deployment: what the deployer exports is a FactRegistry linked with its
  verifier; a redeployment after a restart of the node gives the running backend
  its address back.

## Modules

| Module | What it is |
|---|---|
| `FactLedger` | abstract: an append-only ledger of facts, one per nullifier, dated in order |
| `FactRegistry` | the contract; one action per state-changing function, and the next block |
| `TrustedIssuers` | abstract: a set of issuer-key pairs, one key per issuer |
| `IssuerRegistry` | the contract |
| `PolicyTree` | the operators of `tree.go` and of the circuit's walk |
| `MerkleTree` | the loops of `BuildTree`, `GetMerklePath` and `compute_merkle_root`, one iteration per step |
| `ProofService` | abstract: a prover that writes the package of its own job in one step, and only for a true claim |
| `AgeCircuit` | `Satisfied(w)`: the assertions of `main.nr` about an assignment `w` |
| `ProverPipeline` | processes that run `prove`; EXTENDS `AgeCircuit` and through it `PolicyTree` |
| `EthereumNode` | external: pool, nonces, mining; INSTANCE of `FactRegistry` on the node's state |
| `HolderFlow` | processes that run `submit-fact`, `lookup-fact`, `verify-service-flow`; EXTENDS `EthereumNode` |
| `VerifierSite` | the backend, the page in one tab, and the clock; INSTANCE of `FactRegistry` for the contract they read |
| `Deployment` | the node, the deployer's container, `deploy.ts`, and the start of the backend |
| `MC*` | constants for TLC |
| `*Proofs` | theorems |

**FactRegistry.** `facts`, `usedNullifiers` and `timestamp` are the contract's
storage and `block.timestamp`. A call that fails a `require` reverts and so
changes nothing: it is a stuttering step. `Calls` is any set of argument records:
the typed arguments need not be those of `publicInputs`, as the contract does not
compare them. `accepted` is a history variable that nothing reads, the structs in
the order in which they were stored; `eventLog` is what a reader of the chain sees
of it, with the five fields of `FactVerified`. `Verify` is a parameter. Mapped to
the ledger by `ledger <- accepted`.

**IssuerRegistry.** Same style; `log` is the event log. Mapped to
`TrustedIssuers` by the pairs of the active issuers.

**MerkleTree.** A `phase` for each of the three loops, `d` for their counter.
`PathPanics` is Go's index-out-of-range panic. A node is what `Poseidon` returns,
and nothing is assumed of `Poseidon`. `ReferenceRoot` defines the same tree from the
root downwards, by halving the leaves; it is what `BuildTree` is held against.

**ProverPipeline.** Each process has a `phase` that names its next step; the
steps are separated where another process or a crash can come between them.
Writing a file is two steps, truncating (`Torn`) and filling. nargo and bb are
external and take one step each. `BbOutput` says of each process what its bb makes
of `-o`: the file that `GenerateProof` reads back, or a directory with `proof` and
`public_inputs` in it, as README.md:68-75, `test-e2e.ts` and `deploy-and-seed.ts`
have it; then `ReadProof` fails. `ToolsFit` is the file, and a path that means the
same to bb; a run whose tools do not fit never ends with a package. A job is all a
run is started on, the time included, so that two runs of one request differ in
`validUntil`. A proof is represented by the witness it was
made from, so that "the proof proves these public inputs" is a comparison.
The number made of an idempotency key is represented by its bytes without NULs in
front (`ComputeIdempotencyKeyHash`), so that a missing key, and keys that differ in
such NULs, come out as in the code.
`Entitled` says when a claim is true in terms of the job's files: besides age and
signature, the policy's root must be that of a tree with the signing key at the
issuer's place. The leaf that the policy lists there is not looked at by
`GenerateProof`; the job `Rekeyed` is the case where it is an old one.
Paths are sequences of names, because where a relative path leads depends on
the directory of the program that resolves it. `Abort` is a crash or an I/O
error at any point. Mapped to `ProofService` by `Stage`: all that happens in the
circuit directory is one stage, `working`, of the abstract prover.

**HolderFlow.** `phase` again; the package is read, the nonce is fetched and the
transaction is sent in separate steps. `Account` says which processes share a
`HOLDER_PRIVATE_KEY`. `SendAndExecute`, `SendToPool` and `SendRejected` are the
three outcomes of `SendTransaction`. A transaction carries the `GasLimit` of
`submitter.go`, and reverts if its call takes more (`GasOf`, a parameter); `Viable`
calls are those whose proof verifies within it. `Lookup` decodes the contract's
answer as the code intends, `LookupFails` is the error that go-ethereum may return
instead. `Abort` after a send is a lost answer. `prove`
is reduced to its outcome here: a package, written in two steps, which are `Open`
and `Save` of `ProofService`. `dropped` is a history variable: the accounts of which
the pool evicted or replaced a transaction. The part of the state that is the chain
changes by the actions of `FactRegistry` only. `ProvenNullifierOnce` is what that
contract leaves to its callers: `CallOf` takes each argument from the place of
`publicInputs` that the circuit put it in.

**VerifierSite.** `cfg` and `now` are the backend's configuration and clock;
`form`, `status`, `disabled` and `card` are what the page holds. A request of
`/api/lookup` is a record of `lookups` whose `stage` is where `handleLookupFact`
and the page's handler can be interleaved: `sent`, `read` (the contract has
answered, `ReadFact`), `answered` (expiry is judged, `Judge`, or an error,
`Refuse`), `lost`. `Restart` starts the backend with any of `Configs` and loses
what it was serving; `Reload` is the page loaded again. A text is a sequence of
hex digits, `X` for the letter x and `Other` for any other character, so that
`hexToBytes32` is modelled by what it does: `TrimPrefix`, whole
bytes, right alignment, and cutting off what is longer than a word. `asked` is a
history variable, and so is the `block` of a card.

**Deployment.** All programs send from Hardhat's account #0, so `chain` is the
sequence of its transactions and an address is a position in it, as the address
of a contract depends on nothing but the account and its nonce. `made` holds the
script's address variables. `ScriptFails` ends the script and lets the deployer's
shell go on to `Export`; `Kill` ends the container; `NodeRestart` empties the
chain. A container that is started again keeps its `deployment.json`, a new one
has none, and `.env` is on a volume that outlives both.

## Runs

| Run | Instance | Shows |
|---|---|---|
| `fact_registry` | 2 senders, 6 calls of 2 holders with 4 nullifiers, one re-proved, one with a foreign proof and one with an old proof and another nullifier, times 1 to 4 | `NullifierSpentOnce`, `EventsTellFacts`, `RevivedOnlyByUnusedNullifier`, refinement of `FactLedger` |
| `issuer_registry` | owner and stranger, 2 issuers, 2 keys, 5 events, times 1 to 3 | `EventsExplainStorage`, `EventsAlternate`, refinement of `TrustedIssuers` |
| `merkle_tree` | depth 2, all policies of at most 5 issuers with 2 keys | `PathLeadsToRoot`, `PanicExactlyBeyondCapacity`, the root is the one of a tree defined top down (`RootIsReference`), and the loops compute what the operators of `PolicyTree` say (`LoopsAgree`) |
| `prover_pipeline` | 4 processes, one with a relative path and one whose bb makes a directory, in 3 runs; 15 kinds of jobs for one of them, one of which another may repeat | `PackageSound`, `OnlyTrueClaims`, `TruthfulVerdict`, `SignedByListedIssuer`, `NullifierIsSession`, refinement of `ProofService`, with crashes and leftovers |
| `local_flow` | automining node, 3 processes with one account, 2 runs each | `FlowComplete`, `ProvenNullifierOnce` |
| `public_flow` | node with a pool, 3 processes of 2 holders with an account each, one package that takes too much gas, replacement and eviction | `RevertMeansRecorded`, `SubmittedIsPending`, and `SubmittedIsRecorded` (liveness) |
| `verifier_site` | words of 2 bytes; a subject with two facts for one of two verifiers; texts with and without 0x, short, full, blank and not hex; 2 configurations; times 1 and 2 | `ShownWasTrue`, `VerifiedWasValid`, `OneAtATime`, and `LookupEnds` (liveness) |
| `deployment` | 2 runs of the deployer, 1 of `deploy.ts`, 1 restart of the node, 5 transactions on a chain | `SavedIsExported`, `AddressSurvivesRestart` |
| `shared_circuit_dir` | 2 processes in one circuit directory | **violates** `PackageSound` |
| `default_circuit_dir` | 1 process with the default `NOIR_CIRCUIT_DIR` | **violates** `EntitledGetsPackage` |
| `flow_complete` | 1 process, node with a pool | **violates** `FlowComplete` |
| `deploy_complete` | as `deployment` | **violates** `DeployComplete` |

The four violations are disagreements between the code and what the
repository says of it; they are described under `findings` in `PROJECT.json`.
In short: `prove` reports success for a package whose proof may be another
run's; the documented relative circuit directory makes bb fail, because bb
runs in that directory and resolves it again; `verify-service-flow` does not
wait for its transaction, looks the fact up too early, and reports completion
over "Fact NOT found"; and the deployer reports "Deploy complete" with no address
or an old one after its script failed.

**Why the bounds are enough.** The contracts treat keys and nullifiers one by one,
so two keys and a nullifier used twice are every interaction there is; the time
bounds leave room for before, at and after a deadline; the theorems then hold
without bounds. Depth 2 has left and right children on both levels and a policy one
larger than the tree. In the pipeline the three runs can be of three processes or
twice of one, which then meets every leftover of its first run, also of the same
request at an earlier time, while another interleaves with the second. One job
carries a key that the policy does not list, one session is proved by two
processes, and there are idempotency keys that are missing, NUL, and different by
a NUL in front, so that the properties about the hash have a case each. `U64` is 8 there,
with dates below it: birth dates and cutoffs are `uint64` in the Go code, so the
truncation in the circuit never bites. On the node a package can be sent twice from
one directory, from the same or another account, next to an unrelated one. On the
page a second lookup, an edited form and a late configuration can all meet one
request, and a fact can be replaced or expire while it is shown; words of two bytes
leave room for a text of one. On a chain of five transactions a deployment of four
can be disturbed at each of its places; the theorems about the site and the
deployment hold without these bounds. `MaxTimestamp`, `MaxEvents`, `MaxRuns`,
`MaxIssuers`, `MaxTxs` and `MaxRestarts` are the only bounds; `Width` and `Ahead`
(how far blocks may be dated ahead of the backend's clock, 0 in the run) are
parameters.

**Fairness.** Only two runs assume any. `public_flow`: the node mines what it can;
the processes may stop anywhere, and the pool may lose transactions, which the
property then excuses for that account. `verifier_site`: `WF(Serve)`, the backend
runs its handlers and the node's calls return, and `WF(Finish)`, the browser
settles a fetch whose answer has come or whose connection broke. Neither the Go
code nor the page sets a deadline, so a node that hangs is outside of this
assumption; see `hazards`.

**Deadlock** is not checked in any run: every process and every bounded clock
comes to an end in all of them.

## Proofs

Each proof module states an inductive invariant that strengthens the
properties, proves that it holds initially and is kept by each action, and
combines the two with PTL. Assumptions are the named `ASSUME`s of the modules.

- `FactRegistryProofs`: from the invariant that storage, used nullifiers and history
  agree, `TypeCorrect`, `SpentOnce`, `EventsTell`. `NullifierSpentOnce`
  alone is not inductive: that `usedNullifiers` contains every nullifier of the
  history must be known, and for the number of spent nullifiers that each accepted
  call spends exactly one. `RevivalNeedsUnusedNullifier` is an action property from
  the same invariant; `Refinement` shows `FactLedger!Spec`.
- `IssuerRegistryProofs`: the same for the issuers. Alternation needs to know that
  an issuer is active exactly when its last event is `IssuerAdded`.
- `PolicyTreeProofs`: `ClimbedRoot`, about the operators: whatever leaf climbs along
  the path taken from a tree ends at the root of the tree that has this leaf in the
  path's place, so that `Satisfied` can be said in terms of trees. `BuildTree`,
  `Ancestor` and `ComputeMerkleRoot` are recursive functions, and the induction is
  over a set of levels (`InductionSet`, from the library's well-founded induction):
  first that each recursion reaches every level, then that on each level the two
  trees differ in the ancestor of the leaf at most and the climb is at that
  ancestor. `RootBinds` and `OnlyLeavesClimb` add `CollisionFree`, what the tree's
  users take Poseidon for. They go the other way, from the root down: equal roots
  have equal nodes on every level, so a root stands for one list of leaves, up to
  padding; and whatever climbs to a root, along any siblings and bits, is a leaf of
  that tree.
- `MerkleTreeProofs`: for every depth, every policy and every position. The
  invariant: each level computed so far is `NextLevel` of the one below, the path
  computed so far holds the siblings of the ancestors of the leaf, and the circuit
  stands on the ancestor of its level. `LoopsCompute` ties the loops to the
  operators, which is what lets `ProverPipeline` use the operators for them.
  `RootIsTheReference`: bottom-up and top-down give the same root. By induction over
  the levels (`BuildsReference`), node `i` of level `k` is the reference tree of the
  leaves `i * 2^k` to `(i + 1) * 2^k - 1`; the lemmas before it show that the two
  recursive definitions have values at all (`SubtreesExist`) and how a node's leaves
  are those of its halves.
- `ProverPipelineProofs`: `SoundPackages`, under `ExclusiveDirs`: no two processes
  share a circuit directory, or what their bb takes for it. The
  invariant says what a process relies on at each step: the file it reads next holds
  its own inputs, whole and satisfying, or is the directory that its bb made.
  `shared_circuit_dir` breaks the assumption. `TrueVerdicts` and `TrueClaims` add
  `JobsLoaded`: the policy's issuers are a list, birth date and cutoff fit the
  circuit's `u64` (they are `uint64` in the Go code), and a signature of zeros,
  which `fieldFromHex` makes of one that does not parse, verifies no more than that
  one does. By `ClimbedRoot` nargo then accepts exactly the jobs whose claim is true
  (`SatisfiedMeansEntitled`), and the invariant says that a process holds the inputs
  of its own job until it ends as that job deserves; that no run gets a package
  whose bb makes a directory, or looks for the circuit elsewhere, is part of
  `TrueVerdicts`. From the same invariant,
  `Serves` shows `ImplementsService`: under these two assumptions `prove`, with its
  leftovers and crashes, cannot be told from a prover that works in one step, and
  `HolderFlow` need not look inside. `EntitledServed` shows the property that
  `default_circuit_dir` violates for processes whose tools fit. `ListedIssuers`
  combines `SoundPackages` with `OnlyLeavesClimb`: under `CollisionFree` a package
  that shows a policy's root was signed with a key of that policy's list, whatever
  policy and path it was made with. `NullifiersNameSessions` says under
  `SessionsCollisionFree` that the proofs of two runs share a nullifier exactly when
  their jobs share holder, verifier, fact type and idempotency key, up to NULs in
  front of the key. Its invariant is that every proof read was made from the job of
  the run that read it; `SameKeySameHash`, for keys of any length, relates the
  number of a key to the key padded with NULs.
- `HolderFlowProofs`: `NoLossByRevert`, that `RevertMeansRecorded` holds on every
  node, whatever it drops, replaces or fails to answer. The property speaks of
  failed receipts only; the invariant adds that every used nullifier has an earlier
  receipt that succeeded, and that whatever is sent or pooled is one of `Calls`, the
  calls the contract is modelled for. `HolderFlowAssumption` says that a call can be
  made of every package, that deadlines and times are numbers, and that processes
  run the three commands. `FlowOnRecord` shows `FlowComplete` under `AutoMine` and
  `ExclusiveCwds`: of the processes with one working directory at most one may run
  `verify-service-flow`. Its invariant says for each phase what holds of the
  directory and of the chain: until the package is looked up, the file still is the
  one that was made, and from the submission on it is on record, since the contract
  takes no fact off. The run `flow_complete` is the case without `AutoMine`.
  `ProvenOnce` shows `ProvenNullifierOnce` on every node for packages as `prove`
  writes them, with their nullifier as the sixth public input
  (`PackagesConsistent`): the calls of stored facts are those of packages, and so
  their nullifier arguments are those that were proved.
  `SubmittedNotStuck` is the safety half of `SubmittedIsRecorded`: a package that
  was reported as submitted, and can succeed (`ViablePackages`), is on record, or is
  pooled `InTurn`, with every nonce
  before its own mined or pooled too, so that mining alone will record it. The
  invariant is that, of an account that lost nothing, the pooled nonces have no gap,
  and that a process about to send holds a nonce that leaves none: `PendingNonceAt`
  answers the first free one, which exists because the pool is finite, and other
  processes of the account can only fill nonces meanwhile.
- `VerifierSiteProofs`: `CardsAreTrue`, `VerifiedInTime` and `AsksOneAtATime`, for
  texts of any length and words of any width. The invariant follows a lookup from
  the button to the card: at most one is under way, and it carries the form last
  sent; the fact it has read is what the log says of that form's key after some
  number of submissions since then. For the expiry it compares the two clocks: a
  block is dated at most `Ahead` after the backend's clock, which only moves on.
- `DeploymentProofs`: `ExportsWhatItSaved` and `RedeployedAtSameAddress`. The
  invariant: while the node is the same, the addresses a script holds, and those in
  a file written by this run, are contracts of the right kinds, each linked with the
  one before. Transactions of others do not disturb it, because the chain only
  grows; a restart of the node makes it hold trivially.

Assumptions on the hash quantify over all values, as the fields of a policy or a
job are not restricted; the injective hash of TLC's runs satisfies them.

Only model-checked: liveness (`SubmittedIsRecorded`, `LookupEnds`), which TLAPS does
not do under fairness; `SubmittedNotStuck` and `AsksOneAtATime` prove the safety that
each of the two rests on. Every invariant, action property and refinement of the
passing runs is proved. That the four violations happen is shown by TLC alone.

## Not modelled

- `NoirVerifier.sol` is generated cryptography; it is the parameter `Verify`.
- Hashing and signatures are parameters; TLC uses an injective hash.
- Digits in the CLI: a hex string is the value it stands for (`prove` writes all of
  them with 32 bytes); where parsing fails is modelled (`Prepares`, `FieldFromHex`).
  The texts a person types into the page are modelled digit by digit.
- `import-credential` copies a credential and `testdata/generate.go` makes test data:
  file I/O that no other part waits for. The loaders of the CLI only parse JSON;
  what they return is the job of a process. `test-e2e.ts` is a test.
- Of the site: `/api/health`, the CORS headers, the layout, the address shown in the
  status line, and `fact_key`, which is marked "simplified" and read by nobody.
- Of the deployment: IssuerRegistry's address, which nothing reads, the contents of
  the seeded proof, and the files that `deploy.ts` writes on the host for people.
- How go-ethereum decodes the tuple of `getFact` into the CLI's and the backend's
  structs; the models have the decoding that the code intends and an error, either
  at any time (`Lookup`, `LookupFails`; `Judge`, `Refuse`).
- nargo and bb: of their command lines only what bb makes of its paths is modelled.
  `generator.go` calls `bb prove` without the `-t evm` of README.md:68-70; whether
  the contract's verifier accepts such a proof is `Verify`'s affair, and the
  properties of `HolderFlow` are about packages whose proof it accepts.
- That the clock moves on during a run of `prove`: the expiry of the request and
  `validUntil` are taken from one reading of it.

## Plan

1. Done: the contracts, the policy tree and circuit, the prover pipeline, the
   holder's commands, the verifier's site, the deployment; proofs about each.
2. Done: proofs of the refinements (`FactLedger`, `TrustedIssuers`, `ProofService`)
   and of what the hash gives (`RootBinds`, `OnlyLeavesClimb`, `ListedIssuers`,
   `NullifiersNameSessions`).
3. Left to prove: an abstract deployment, an address and what it points to, for
   `Deployment`.
4. Left to model: `Encoding`, the conversions of the CLI (`HexToField`,
   `FieldToHex`) against a reference on a small word size.
