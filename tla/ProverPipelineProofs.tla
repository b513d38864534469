------------------------- MODULE ProverPipelineProofs -------------------------
(***************************************************************************)
(* Packages are sound, and verdicts true, when no two processes share a    *)
(* circuit directory, whatever their bb makes of the paths it is given.    *)
(*                                                                         *)
(* PackageSound speaks of packages only.  It is inductive together with    *)
(* what a process may rely on at each of its steps: the file it reads next *)
(* still is the one that it, or the tool it called, wrote last.  What a    *)
(* verdict says then is what nargo says of the inputs, and by the theorem  *)
(* about the policy tree that is whether the claim is true.                *)
(***************************************************************************)
EXTENDS ProverPipeline, PolicyTreeProofs, TLAPS

Domains ==
    /\ DOMAIN phase = Procs /\ DOMAIN job = Procs /\ DOMAIN input = Procs
    /\ DOMAIN proof = Procs
    /\ DOMAIN proverToml = CircuitDirs /\ DOMAIN witness = CircuitDirs
    /\ DOMAIN proofFile = CircuitDirs /\ DOMAIN package = Cwds

\* file holds the circuit inputs of p, and they satisfy the circuit.
Holds(file, p) == file = input[p] /\ Whole(file) /\ Satisfied(file)

Relies(p) ==
    /\ phase[p] = "writeToml" => proverToml[CircuitDir(p)] = Torn
    /\ phase[p] = "execute" => proverToml[CircuitDir(p)] = input[p]
    /\ phase[p] = "prove" => Holds(witness[CircuitDir(p)], p)
    /\ phase[p] = "read" =>
          /\ BbDir(p) = CircuitDir(p)
          /\ IF BbOutput[p] = "file" THEN Holds(proofFile[CircuitDir(p)], p)
             ELSE proofFile[CircuitDir(p)] = Directory
    /\ phase[p] \in {"openPackage", "writePackage"} => Holds(proof[p], p) /\ ToolsFit(p)
    /\ phase[p] = "done" => ToolsFit(p)
    /\ BbDir(p) # CircuitDir(p) => witness[BbDir(p)] = Missing

IInv == Domains /\ (\A p \in Procs : Relies(p)) /\ PackageSound

-----------------------------------------------------------------------------

\* Initially no process has started and no file exists.
LEMMA InitIInv == Init => IInv
  <1> SUFFICES ASSUME Init PROVE IInv
    OBVIOUS
  <1>1. Domains
    BY DEF Init, Domains
  <1>2. \A p \in Procs : Relies(p)
    BY DEF Init, Relies, CircuitDirs
  <1>3. PackageSound
    BY DEF Init, PackageSound, Whole
  <1> QED
    BY <1>1, <1>2, <1>3 DEF IInv

\* A process that moves on from a step leaves the others where they were, and
\* their files too, if it touches no directory but its own.
LEMMA OthersRely ==
  ASSUME ExclusiveDirs, IInv, NEW p \in Procs, NEW q \in Procs, q # p,
         phase'[q] = phase[q], input'[q] = input[q], proof'[q] = proof[q],
         \A dir \in CircuitDirs \ {CircuitDir(p), BbDir(p)} :
            /\ proverToml'[dir] = proverToml[dir]
            /\ witness'[dir] = witness[dir]
            /\ proofFile'[dir] = proofFile[dir]
  PROVE  Relies(q)'
  <1>1. {CircuitDir(q), BbDir(q)} \subseteq CircuitDirs \ {CircuitDir(p), BbDir(p)}
    BY DEF CircuitDirs, ExclusiveDirs
  <1> QED
    BY <1>1 DEF IInv, Relies, Holds

\* The file a truncated one becomes.
LEMMA FilledIs ==
  ASSUME NEW file, NEW content, NEW result \in Filled(file, content)
  PROVE  /\ result \in {content, Torn}
         /\ file = Torn => result = content
  BY DEF Filled

LEMMA OpenTomlIInv ==
  ASSUME ExclusiveDirs, IInv, NEW p \in Procs, OpenToml(p) PROVE IInv'
  <1>1. CircuitDir(p) \in CircuitDirs
    BY DEF CircuitDirs
  <1>2. Domains'
    BY DEF IInv, Domains, OpenToml, Goto, local
  <1>3. ASSUME NEW q \in Procs PROVE Relies(q)'
    <2>1. CASE q = p
      BY <1>1, <2>1 DEF IInv, Domains, Relies, OpenToml, Goto, local
    <2>2. CASE q # p
      BY <2>2, OthersRely DEF IInv, Domains, OpenToml, Goto, local
    <2> QED
      BY <2>1, <2>2
  <1>4. PackageSound'
    BY DEF IInv, PackageSound, OpenToml
  <1> QED
    BY <1>2, <1>3, <1>4 DEF IInv

LEMMA WriteTomlIInv ==
  ASSUME ExclusiveDirs, IInv, NEW p \in Procs, WriteToml(p) PROVE IInv'
  <1>1. CircuitDir(p) \in CircuitDirs
    BY DEF CircuitDirs
  <1>2. PICK content \in Filled(proverToml[CircuitDir(p)], input[p]) :
           proverToml' = [proverToml EXCEPT ![CircuitDir(p)] = content]
    BY DEF WriteToml
  <1>3. content = input[p]
    BY <1>2, FilledIs DEF IInv, Relies, WriteToml
  <1>4. Domains'
    BY <1>2 DEF IInv, Domains, WriteToml, Goto, local
  <1>5. ASSUME NEW q \in Procs PROVE Relies(q)'
    <2>1. CASE q = p
      BY <1>1, <1>2, <1>3, <2>1 DEF IInv, Domains, Relies, WriteToml, Goto, local
    <2>2. CASE q # p
      BY <1>2, <2>2, OthersRely DEF IInv, Domains, WriteToml, Goto, local
    <2> QED
      BY <2>1, <2>2
  <1>6. PackageSound'
    BY DEF IInv, PackageSound, WriteToml
  <1> QED
    BY <1>4, <1>5, <1>6 DEF IInv

LEMMA NargoExecuteIInv ==
  ASSUME ExclusiveDirs, IInv, NEW p \in Procs, NargoExecute(p) PROVE IInv'
  <1>1. CircuitDir(p) \in CircuitDirs
    BY DEF CircuitDirs
  <1>2. Holds(proverToml[CircuitDir(p)], p)
    BY DEF IInv, Relies, Holds, NargoExecute, Executable
  <1>3. Domains'
    BY DEF IInv, Domains, NargoExecute, Goto, local
  <1>4. ASSUME NEW q \in Procs PROVE Relies(q)'
    <2>1. CASE q = p
      BY <1>1, <1>2, <2>1 DEF IInv, Domains, Relies, Holds, NargoExecute, Goto, local
    <2>2. CASE q # p
      BY <2>2, OthersRely DEF IInv, Domains, NargoExecute, Goto, local
    <2> QED
      BY <2>1, <2>2
  <1>5. PackageSound'
    BY DEF IInv, PackageSound, NargoExecute
  <1> QED
    BY <1>3, <1>4, <1>5 DEF IInv

LEMMA BbProveIInv ==
  ASSUME ExclusiveDirs, IInv, NEW p \in Procs, BbProve(p) PROVE IInv'
  <1>1. CircuitDir(p) \in CircuitDirs
    BY DEF CircuitDirs
  <1>2. Holds(witness[CircuitDir(p)], p) /\ BbDir(p) = CircuitDir(p)
    BY DEF IInv, Relies, BbProve, Whole
  <1>3. Domains'
    BY DEF IInv, Domains, BbProve, Goto, local
  <1>4. ASSUME NEW q \in Procs PROVE Relies(q)'
    <2>1. CASE q = p
      BY <1>1, <1>2, <2>1 DEF IInv, Domains, Relies, Holds, BbProve, Goto, local
    <2>2. CASE q # p
      BY <1>1, <1>2, <2>2, OthersRely DEF IInv, Domains, BbProve, Goto, local
    <2> QED
      BY <2>1, <2>2
  <1>5. PackageSound'
    BY DEF IInv, PackageSound, BbProve
  <1> QED
    BY <1>3, <1>4, <1>5 DEF IInv

\* A process that fails relies on nothing; what it may have torn is its own.
LEMMA FailsIInv ==
  ASSUME ExclusiveDirs, IInv, NEW p \in Procs, NEW end \in {"failed", "aborted"},
         Goto(p, end), UNCHANGED local,
         package' = package, Domains',
         BbDir(p) # CircuitDir(p) => witness'[BbDir(p)] = witness[BbDir(p)],
         \A dir \in CircuitDirs \ {CircuitDir(p), BbDir(p)} :
            /\ proverToml'[dir] = proverToml[dir]
            /\ witness'[dir] = witness[dir]
            /\ proofFile'[dir] = proofFile[dir]
  PROVE  IInv'
  <1>1. ASSUME NEW q \in Procs PROVE Relies(q)'
    <2>1. CASE q = p
      BY <2>1 DEF IInv, Domains, Relies, Goto
    <2>2. CASE q # p
      BY <2>2, OthersRely DEF IInv, Domains, Goto, local
    <2> QED
      BY <2>1, <2>2
  <1>2. PackageSound'
    BY DEF IInv, PackageSound
  <1> QED
    BY <1>1, <1>2 DEF IInv

\* What a process gets to read.
LEMMA ReadsOwn ==
  ASSUME IInv, NEW p \in Procs, ReadProof(p)
  PROVE  \/ /\ ToolsFit(p) /\ Holds(proofFile[CircuitDir(p)], p)
            /\ phase' = [phase EXCEPT ![p] = "openPackage"]
            /\ proof' = [proof EXCEPT ![p] = proofFile[CircuitDir(p)]]
         \/ ~ToolsFit(p) /\ Goto(p, "failed") /\ UNCHANGED proof
  <1>1. BbDir(p) = CircuitDir(p)
    BY DEF IInv, Relies, ReadProof
  <1>2. CASE BbOutput[p] = "file"
    BY <1>1, <1>2 DEF IInv, Relies, ReadProof, Holds, Whole, Goto, ToolsFit
  <1>3. CASE BbOutput[p] # "file"
    BY <1>3 DEF IInv, Relies, ReadProof, ToolsFit
  <1> QED
    BY <1>2, <1>3

LEMMA ReadProofIInv ==
  ASSUME ExclusiveDirs, IInv, NEW p \in Procs, ReadProof(p) PROVE IInv'
  <1>1. CASE Goto(p, "failed") /\ UNCHANGED proof
    <2>1. Domains'
      BY <1>1 DEF IInv, Domains, ReadProof, Goto, files
    <2> QED
      BY <1>1, <2>1, FailsIInv DEF ReadProof, files, local
  <1>2. CASE /\ ToolsFit(p) /\ Holds(proofFile[CircuitDir(p)], p)
             /\ phase' = [phase EXCEPT ![p] = "openPackage"]
             /\ proof' = [proof EXCEPT ![p] = proofFile[CircuitDir(p)]]
    <2>1. Domains'
      BY <1>2 DEF IInv, Domains, ReadProof, files
    <2>2. ASSUME NEW q \in Procs PROVE Relies(q)'
      <3>1. CASE q = p
        BY <1>2, <3>1 DEF IInv, Domains, Relies, Holds, ReadProof, files, ToolsFit
      <3>2. CASE q # p
        BY <1>2, <3>2, OthersRely DEF IInv, Domains, ReadProof, files
      <3> QED
        BY <3>1, <3>2
    <2>3. PackageSound'
      BY DEF IInv, PackageSound, ReadProof, files
    <2> QED
      BY <2>1, <2>2, <2>3 DEF IInv
  <1> QED
    BY <1>1, <1>2, ReadsOwn

LEMMA OpenPackageIInv ==
  ASSUME ExclusiveDirs, IInv, NEW p \in Procs, OpenPackage(p) PROVE IInv'
  <1>1. Domains'
    BY DEF IInv, Domains, OpenPackage, Goto, local
  <1>2. ASSUME NEW q \in Procs PROVE Relies(q)'
    <2>1. CASE q = p
      BY <2>1 DEF IInv, Domains, Relies, Holds, OpenPackage, Goto, local
    <2>2. CASE q # p
      BY <2>2, OthersRely DEF IInv, Domains, OpenPackage, Goto, local
    <2> QED
      BY <2>1, <2>2
  <1>3. PackageSound'
    BY DEF IInv, Domains, PackageSound, OpenPackage, Whole
  <1> QED
    BY <1>1, <1>2, <1>3 DEF IInv

LEMMA WritePackageIInv ==
  ASSUME ExclusiveDirs, IInv, NEW p \in Procs, WritePackage(p) PROVE IInv'
  <1>1. PICK content \in Filled(package[Cwd[p]], ProofPackage(p)) :
           package' = [package EXCEPT ![Cwd[p]] = content]
    BY DEF WritePackage
  <1>2. Domains'
    BY <1>1 DEF IInv, Domains, WritePackage, Goto, local
  <1>3. ASSUME NEW q \in Procs PROVE Relies(q)'
    <2>1. CASE q = p
      BY <2>1 DEF IInv, Domains, Relies, Holds, WritePackage, Goto, local
    <2>2. CASE q # p
      BY <2>2, OthersRely DEF IInv, Domains, WritePackage, Goto, local
    <2> QED
      BY <2>1, <2>2
  <1>4. PackageSound'
    <2>1. Holds(proof[p], p)
      BY DEF IInv, Relies, WritePackage
    <2>2. Sound(ProofPackage(p))
      BY <2>1 DEF Sound, ProofPackage, Holds
    <2>3. Whole(content) => Sound(content)
      BY <1>1, <2>2, FilledIs DEF Whole
    <2> QED
      BY <1>1, <2>3 DEF IInv, Domains, PackageSound, Sound, Whole
  <1> QED
    BY <1>2, <1>3, <1>4 DEF IInv

-----------------------------------------------------------------------------

LEMMA ToolFailsIInv ==
  ASSUME ExclusiveDirs, IInv, NEW p \in Procs, NargoFails(p) \/ BbFails(p) PROVE IInv'
  <1>1. Domains'
    BY DEF IInv, Domains, NargoFails, BbFails, Goto, local, files
  <1> QED
    BY <1>1, FailsIInv DEF NargoFails, BbFails, files

LEMMA AbortIInv ==
  ASSUME ExclusiveDirs, IInv, NEW p \in Procs, Abort(p) PROVE IInv'
  <1>1. CircuitDir(p) \in CircuitDirs /\ BbDir(p) \in CircuitDirs
    BY DEF CircuitDirs
  <1>2. Domains'
    BY DEF IInv, Domains, Abort, Goto, local, files
  <1>3. Goto(p, "aborted") /\ UNCHANGED local /\ package' = package
    BY DEF Abort, files
  <1>4. \A dir \in CircuitDirs \ {CircuitDir(p), BbDir(p)} :
            /\ proverToml'[dir] = proverToml[dir]
            /\ witness'[dir] = witness[dir]
            /\ proofFile'[dir] = proofFile[dir]
    BY <1>1 DEF IInv, Domains, Abort, files
  <1>5. BbDir(p) # CircuitDir(p) => witness'[BbDir(p)] = witness[BbDir(p)]
    BY <1>1 DEF IInv, Domains, Abort, files
  <1> QED
    BY <1>2, <1>3, <1>4, <1>5, FailsIInv

LEMMA StartIInv ==
  ASSUME ExclusiveDirs, IInv, NEW p \in Procs, NEW j, Start(p, j) PROVE IInv'
  <1>1. Domains'
    BY DEF IInv, Domains, Start, Goto, files
  <1>2. ASSUME NEW q \in Procs PROVE Relies(q)'
    <2>1. CASE q = p
      <3>1. phase'[p] \in {"openToml", "failed"}
        BY DEF IInv, Domains, Start, Goto
      <3> QED
        BY <2>1, <3>1 DEF IInv, Relies, Start, files
    <2>2. CASE q # p
      BY <2>2, OthersRely DEF IInv, Domains, Start, Goto, files
    <2> QED
      BY <2>1, <2>2
  <1>3. PackageSound'
    BY DEF IInv, PackageSound, Start, files
  <1> QED
    BY <1>1, <1>2, <1>3 DEF IInv

\* Every step preserves the invariant.
LEMMA NextIInv == ASSUME ExclusiveDirs, IInv, [Next]_vars PROVE IInv'
  <1>1. CASE UNCHANGED vars
    <2>1. Domains'
      BY <1>1 DEF IInv, Domains, vars
    <2>2. ASSUME NEW q \in Procs PROVE Relies(q)'
      BY <1>1 DEF IInv, Relies, Holds, vars
    <2>3. PackageSound'
      BY <1>1 DEF IInv, PackageSound, vars
    <2> QED
      BY <2>1, <2>2, <2>3 DEF IInv
  <1>2. ASSUME NEW p \in Procs, Step(p) PROVE IInv'
    BY <1>2, OpenTomlIInv, WriteTomlIInv, NargoExecuteIInv, ToolFailsIInv, BbProveIInv,
       ReadProofIInv, OpenPackageIInv, WritePackageIInv DEF Step
  <1>3. ASSUME NEW p \in Procs, NEW j \in JobsOf[p], Start(p, j) PROVE IInv'
    BY <1>3, StartIInv
  <1>4. ASSUME NEW p \in Procs, Abort(p) PROVE IInv'
    BY <1>4, AbortIInv
  <1> QED
    BY <1>1, <1>2, <1>3, <1>4 DEF Next, Work

-----------------------------------------------------------------------------

\* If every process has a circuit directory of its own, and its path means the
\* same to bb, then every proof_package.json that prove (main.go, generator.go)
\* leaves behind whole carries a proof of its own public inputs: crashes, failed
\* runs, and a working directory shared with other processes do not matter.
THEOREM SoundPackages == ASSUME ExclusiveDirs PROVE Spec => []PackageSound
  <1>1. Init => IInv
    BY InitIInv
  <1>2. IInv /\ [Next]_vars => IInv'
    BY NextIInv
  <1>3. IInv => PackageSound
    BY DEF IInv
  <1> QED
    BY <1>1, <1>2, <1>3, PTL DEF Spec

-----------------------------------------------------------------------------

\* What the loaders and the cryptography give prove: issuers are a list, days are
\* uint64 in Go too, and a signature written as 0 is as good as one that does not
\* parse.  A record of inputs is neither a missing nor a torn file.
JobsLoaded ==
    /\ U64 \in Nat /\ Validity \in Nat \ {0}
    /\ \A key, message : EddsaVerify(key, Zero, message) <=> EddsaVerify(key, NoField, message)
    /\ \A p \in Procs : \A j \in JobsOf[p] :
          /\ j.now \in Nat
          /\ \E S : j.policy.issuers \in Seq(S)
          /\ j.credential.birthDateDays \in 0..(U64 - 1)
          /\ j.request.cutoffDateDays \in 0..(U64 - 1)
          /\ Whole(CircuitInputs(j))

\* The first entry of the policy with the issuer's DID is an entry of it.
LEMMA LeafIndexInPolicy ==
  ASSUME NEW j, NEW S, j.policy.issuers \in Seq(S), LeafIndices(j) # {}
  PROVE  LeafIndex(j) \in 0..(Len(j.policy.issuers) - 1)
  <1> DEFINE is == j.policy.issuers
  <1>1. DOMAIN is = 1..Len(is) /\ Len(is) \in Nat
    OBVIOUS
  <1>2. LeafIndices(j) \subseteq 1..Len(is)
    BY <1>1 DEF LeafIndices
  <1>3. PICK m \in LeafIndices(j) : \A k \in LeafIndices(j) : m <= k
    <2>1. LeafIndices(j) \subseteq Nat
      BY <1>1, <1>2
    <2> QED
      BY <2>1, LeastNat
  <1> DEFINE first == CHOOSE i \in LeafIndices(j) : \A k \in LeafIndices(j) : i <= k
  <1>4. first \in LeafIndices(j)
    BY <1>3
  <1>5. LeafIndex(j) = first - 1
    BY DEF LeafIndex
  <1> HIDE DEF first, is
  <1>6. first \in 1..Len(is)
    BY <1>2, <1>4
  <1>7. first - 1 \in 0..(Len(is) - 1)
    BY <1>1, <1>6
  <1> QED
    BY <1>5, <1>7 DEF is

\* The tree with the credential's key differs from the policy's in one leaf.
LEMMA OneLeafReplaced ==
  ASSUME NEW j, NEW S, j.policy.issuers \in Seq(S), LeafIndices(j) # {},
         NEW i \in Nodes(0)
  PROVE  PaddedLeaves(LeavesWithKey(j))[i]
           = IF i = LeafIndex(j) THEN ComputeLeaf(j.credential.issuer.pubkey)
             ELSE PaddedLeaves(PolicyLeaves(j))[i]
  <1> DEFINE n == Len(j.policy.issuers)
             given == PolicyLeaves(j)
             idx == LeafIndex(j)
             leaf == ComputeLeaf(j.credential.issuer.pubkey)
             other == LeavesWithKey(j)
             T == {given[k] : k \in 1..n} \cup {leaf}
  <1>1. n \in Nat /\ idx \in 0..(n - 1)
    BY LeafIndexInPolicy
  <1>2. DOMAIN given = 1..n /\ given = [k \in 1..n |-> given[k]]
    BY DEF PolicyLeaves
  <1>3. other = [given EXCEPT ![idx + 1] = leaf]
    BY DEF LeavesWithKey
  <1>4. i \in Nat /\ i \in 0..(MaxLeaves - 1)
    BY Widths DEF Nodes, MaxLeaves
  <1> HIDE DEF n, given, idx, leaf, other
  <1>5. given \in [1..n -> T] /\ other \in [1..n -> T]
    BY <1>2, <1>3
  <1> HIDE DEF T
  <1>6. Len(given) = n /\ Len(other) = n
    BY <1>1, <1>5
  <1>7. /\ PaddedLeaves(given)[i] = IF i < n THEN given[i + 1] ELSE Zero
        /\ PaddedLeaves(other)[i] = IF i < n THEN other[i + 1] ELSE Zero
    BY <1>4, <1>6 DEF PaddedLeaves
  <1>8. i < n => i + 1 \in 1..n
    BY <1>1, <1>4
  <1>9. i < n => other[i + 1] = IF i = idx THEN leaf ELSE given[i + 1]
    BY <1>1, <1>2, <1>3, <1>4, <1>8
  <1>10. i = idx => i < n
    BY <1>1
  <1> QED
    BY <1>7, <1>9, <1>10 DEF n, given, idx, leaf, other

\* A number that fits a u64 is its own low 64 bits.
LEMMA FitsU64 == ASSUME U64 \in Nat, NEW x \in 0..(U64 - 1) PROVE x % U64 = x
  <1>1. U64 \in Nat /\ x \in Nat /\ x < U64
    OBVIOUS
  <1> QED
    BY <1>1

\* nargo accepts the inputs of exactly the jobs whose claim is true.
LEMMA SatisfiedMeansEntitled ==
  ASSUME JobsLoaded, NEW p \in Procs, NEW j \in JobsOf[p], Prepares(j)
  PROVE  Satisfied(CircuitInputs(j)) <=> Entitled(j)
  <1> DEFINE w == CircuitInputs(j)
             key == j.credential.issuer.pubkey
             days == j.credential.birthDateDays
             merkle == GetMerklePath(BuildTree(PolicyLeaves(j)), LeafIndex(j))
  <1>1. PICK S : j.policy.issuers \in Seq(S)
    BY DEF JobsLoaded
  <1>2. LeafIndex(j) \in Nodes(0)
    <2>1. LeafIndex(j) \in Nat /\ LeafIndex(j) < MaxLeaves
      BY <1>1, LeafIndexInPolicy DEF Prepares
    <2> QED
      BY <2>1, Widths DEF Nodes, MaxLeaves
  <1>3. IssuerInPolicy(w) <=> j.policy.root = BuildTree(LeavesWithKey(j))[TreeDepth][0]
    <2>1. ComputeMerkleRoot(ComputeLeaf(key), merkle.path, merkle.bits)
             = BuildTree(LeavesWithKey(j))[TreeDepth][0]
      <3>1. \A i \in Nodes(0) :
               PaddedLeaves(LeavesWithKey(j))[i]
                 = IF i = LeafIndex(j) THEN ComputeLeaf(key)
                   ELSE PaddedLeaves(PolicyLeaves(j))[i]
        BY <1>1, OneLeafReplaced DEF Prepares
      <3> QED
        BY <1>2, <3>1, ClimbedRoot
    <2>2. /\ w.issuerPubkey = key /\ w.issuerPolicyRoot = j.policy.root
          /\ w.merklePath = merkle.path /\ w.merkleIndexBits = merkle.bits
      BY DEF CircuitInputs
    <2> HIDE DEF w, key, merkle
    <2> QED
      BY <2>1, <2>2 DEF IssuerInPolicy
  <1>4. OldEnough(w) <=> days <= j.request.cutoffDateDays
    <2>1. w.birthDateDays = days /\ w.cutoffDateDays = j.request.cutoffDateDays
      BY DEF CircuitInputs
    <2>2. days \in 0..(U64 - 1) /\ j.request.cutoffDateDays \in 0..(U64 - 1)
      BY DEF JobsLoaded
    <2>3. days % U64 = days /\ j.request.cutoffDateDays % U64 = j.request.cutoffDateDays
      BY <2>2, FitsU64 DEF JobsLoaded
    <2> HIDE DEF w, days
    <2> QED
      BY <2>1, <2>2, <2>3 DEF OldEnough
  <1>5. SignedByIssuer(w)
           <=> EddsaVerify(key, j.credential.signature,
                           CredentialHash(key, days, j.request.schemaHash))
    <2>1. /\ w.issuerPubkey = key /\ w.birthDateDays = days
          /\ w.signature = FieldFromHex(j.credential.signature)
          /\ w.schemaHash = j.request.schemaHash
      BY DEF CircuitInputs
    <2>2. \A k, message : EddsaVerify(k, Zero, message) <=> EddsaVerify(k, NoField, message)
      BY DEF JobsLoaded
    <2> HIDE DEF w, key, days
    <2> QED
      BY <2>1, <2>2 DEF SignedByIssuer, FieldFromHex
  <1>6. /\ w.subjectTag = ComputeSubjectTag(w.holderSecret, w.verifierIdHash)
        /\ w.nullifier = ComputeNullifier(w.holderSecret, w.verifierIdHash,
                                          w.factTypeHash, w.idempotencyKeyHash)
    BY DEF CircuitInputs
  <1>7. w.validUntil # 0
    <2>1. w.validUntil = j.now + Validity /\ j.now \in Nat
      BY DEF CircuitInputs, JobsLoaded
    <2> HIDE DEF w
    <2> QED
      BY <2>1 DEF JobsLoaded
  <1> HIDE DEF w
  <1> QED
    BY <1>3, <1>4, <1>5, <1>6, <1>7 DEF Satisfied, Entitled, w

-----------------------------------------------------------------------------

\* The jobs of p that get as far as the files, what is written for each, and
\* the jobs whose claim is true.
Prepared(p) == {j \in JobsOf[p] : Prepares(j)}
Inputs(p) == [j \in JobsOf[p] |-> CircuitInputs(j)]
TrueJobs(p) == {j \in Prepared(p) : Entitled(j)}
TrueIds == {j.request.requestId : j \in UNION {TrueJobs(p) : p \in Procs}}

\* A process works on a job of its own, and ends as the job's claim deserves.
Deserves(p) ==
    /\ phase[p] # "ready" => job[p] \in JobsOf[p]
    /\ Running(p) => job[p] \in Prepared(p) /\ input[p] = Inputs(p)[job[p]]
    /\ phase[p] = "done" => job[p] \in TrueJobs(p)
    /\ phase[p] = "failed" /\ ToolsFit(p) => job[p] \notin TrueJobs(p)

OnTrueClaims ==
    \A dir \in Cwds : package[dir] \notin {Missing, Torn} => package[dir].requestId \in TrueIds

Verdicts == (\A p \in Procs : Deserves(p)) /\ OnTrueClaims

\* What nargo makes of the inputs of a job that got as far as the files.
LEMMA NargoDecides ==
  ASSUME JobsLoaded, NEW p \in Procs, NEW j \in Prepared(p)
  PROVE  Whole(Inputs(p)[j]) /\ (Satisfied(Inputs(p)[j]) <=> j \in TrueJobs(p))
  <1>1. j \in JobsOf[p] /\ Prepares(j) /\ Inputs(p)[j] = CircuitInputs(j)
    BY DEF Prepared, Inputs
  <1> QED
    BY <1>1, SatisfiedMeansEntitled DEF JobsLoaded, TrueJobs

\* A process whose inputs satisfied the circuit works on a true claim.
LEMMA HoldsDeserved ==
  ASSUME JobsLoaded, NEW p \in Procs, Deserves(p), Running(p), NEW file, Holds(file, p)
  PROVE  job[p] \in TrueJobs(p)
  <1>1. job[p] \in Prepared(p) /\ file = Inputs(p)[job[p]] /\ Satisfied(file)
    BY DEF Deserves, Holds
  <1> QED
    BY <1>1, NargoDecides

LEMMA InitVerdicts == Init => Verdicts
  BY DEF Init, Verdicts, Deserves, Running, OnTrueClaims

\* A process that goes on with its job, towards no verdict.
LEMMA GoesOn ==
  ASSUME Verdicts, IInv, NEW p \in Procs, Running(p), NEW next, Goto(p, next),
         next \notin {"ready", "done", "failed"}, job' = job, input' = input
  PROVE  \A q \in Procs : Deserves(q)'
  BY DEF Verdicts, IInv, Domains, Deserves, Running, Goto

\* A process that ends as its job deserves.
LEMMA EndsDeserved ==
  ASSUME Verdicts, IInv, NEW p \in Procs, Running(p), NEW end, Goto(p, end),
         \/ end = "done" /\ job[p] \in TrueJobs(p)
         \/ end = "failed" /\ (ToolsFit(p) => job[p] \notin TrueJobs(p)),
         job' = job, input' = input
  PROVE  \A q \in Procs : Deserves(q)'
  BY DEF Verdicts, IInv, Domains, Deserves, Running, Goto

LEMMA StepVerdicts ==
  ASSUME JobsLoaded, ExclusiveDirs, IInv, Verdicts, NEW p \in Procs, Step(p)
  PROVE  Verdicts'
  <1>1. Relies(p) /\ Deserves(p)
    BY DEF IInv, Verdicts
  <1>2. CASE OpenToml(p)
    <2>1. OnTrueClaims'
      BY <1>2 DEF OpenToml, Verdicts, OnTrueClaims
    <2> QED
      BY <1>2, <2>1, GoesOn DEF OpenToml, Running, local, Verdicts
  <1>3. CASE WriteToml(p)
    <2>1. OnTrueClaims'
      BY <1>3 DEF WriteToml, Verdicts, OnTrueClaims
    <2> QED
      BY <1>3, <2>1, GoesOn DEF WriteToml, Running, local, Verdicts
  <1>4. CASE NargoExecute(p)
    <2>1. OnTrueClaims'
      BY <1>4 DEF NargoExecute, Verdicts, OnTrueClaims
    <2> QED
      BY <1>4, <2>1, GoesOn DEF NargoExecute, Running, local, Verdicts
  <1>5. CASE NargoFails(p)
    <2>1. job[p] \notin TrueJobs(p)
      <3>1. proverToml[CircuitDir(p)] = Inputs(p)[job[p]] /\ job[p] \in Prepared(p)
        BY <1>1, <1>5 DEF NargoFails, Relies, Deserves, Running
      <3>2. ~(Whole(Inputs(p)[job[p]]) /\ Satisfied(Inputs(p)[job[p]]))
        BY <1>5, <3>1 DEF NargoFails, Executable
      <3> QED
        BY <3>1, <3>2, NargoDecides
    <2>2. OnTrueClaims'
      BY <1>5 DEF NargoFails, Verdicts, OnTrueClaims, files
    <2> QED
      BY <1>5, <2>1, <2>2, EndsDeserved DEF NargoFails, Running, local, Verdicts
  <1>6. CASE BbProve(p)
    <2>1. OnTrueClaims'
      BY <1>6 DEF BbProve, Verdicts, OnTrueClaims
    <2> QED
      BY <1>6, <2>1, GoesOn DEF BbProve, Running, local, Verdicts
  <1>7. CASE BbFails(p)
    <2>1. ~ToolsFit(p)
      BY <1>1, <1>7 DEF BbFails, Relies, Holds, ToolsFit
    <2>2. OnTrueClaims'
      BY <1>7 DEF BbFails, Verdicts, OnTrueClaims, files
    <2> QED
      BY <1>7, <2>1, <2>2, EndsDeserved DEF BbFails, Running, local, Verdicts
  <1>8. CASE ReadProof(p)
    <2>1. OnTrueClaims'
      BY <1>8 DEF ReadProof, Verdicts, OnTrueClaims, files
    <2>2. Running(p) /\ job' = job /\ input' = input
      BY <1>8 DEF ReadProof, Running
    <2>3. CASE ~ToolsFit(p) /\ Goto(p, "failed")
      BY <2>1, <2>2, <2>3, EndsDeserved DEF Verdicts
    <2>4. CASE phase' = [phase EXCEPT ![p] = "openPackage"]
      BY <2>1, <2>2, <2>4, GoesOn DEF Verdicts, Goto
    <2> QED
      BY <1>8, <2>3, <2>4, ReadsOwn
  <1>9. CASE OpenPackage(p)
    <2>1. OnTrueClaims'
      BY <1>9 DEF OpenPackage, Verdicts, OnTrueClaims, IInv, Domains
    <2> QED
      BY <1>9, <2>1, GoesOn DEF OpenPackage, Running, local, Verdicts
  <1>10. CASE WritePackage(p)
    <2>1. job[p] \in TrueJobs(p)
      BY <1>1, <1>10, HoldsDeserved DEF WritePackage, Relies, Running
    <2>2. PICK content \in Filled(package[Cwd[p]], ProofPackage(p)) :
             package' = [package EXCEPT ![Cwd[p]] = content]
      BY <1>10 DEF WritePackage
    <2>3. content # Torn => content.requestId \in TrueIds
      <3>1. ProofPackage(p).requestId \in TrueIds
        BY <2>1 DEF ProofPackage, TrueIds
      <3> QED
        BY <2>2, <3>1, FilledIs
    <2>4. OnTrueClaims'
      BY <2>2, <2>3 DEF Verdicts, OnTrueClaims, IInv, Domains
    <2> QED
      BY <1>10, <2>1, <2>4, EndsDeserved DEF WritePackage, Running, local, Verdicts
  <1> QED
    BY <1>2, <1>3, <1>4, <1>5, <1>6, <1>7, <1>8, <1>9, <1>10 DEF Step

LEMMA StartVerdicts ==
  ASSUME IInv, Verdicts, NEW p \in Procs, NEW j \in JobsOf[p], Start(p, j)
  PROVE  Verdicts'
  <1>1. OnTrueClaims'
    BY DEF Start, Verdicts, OnTrueClaims, files
  <1>2. ASSUME NEW q \in Procs PROVE Deserves(q)'
    <2>1. CASE q # p
      BY <2>1 DEF Start, Goto, Verdicts, Deserves, Running, IInv, Domains
    <2>2. CASE q = p /\ Prepares(j)
      <3>1. j \in Prepared(p) /\ CircuitInputs(j) = Inputs(p)[j]
        BY <2>2 DEF Prepared, Inputs
      <3>2. /\ phase'[p] = "openToml" /\ job'[p] = j
            /\ input'[p] = Inputs(p)[j]
        BY <2>2, <3>1 DEF Start, Goto, IInv, Domains
      <3> QED
        BY <2>2, <3>1, <3>2 DEF Deserves, Running
    <2>3. CASE q = p /\ ~Prepares(j)
      <3>1. j \notin TrueJobs(p)
        BY <2>3 DEF TrueJobs, Prepared
      <3>2. phase'[p] = "failed" /\ job'[p] = j
        BY <2>3 DEF Start, Goto, IInv, Domains
      <3> QED
        BY <2>3, <3>1, <3>2 DEF Deserves, Running
    <2> QED
      BY <2>1, <2>2, <2>3
  <1> QED
    BY <1>1, <1>2 DEF Verdicts

LEMMA NextVerdicts ==
  ASSUME JobsLoaded, ExclusiveDirs, IInv, Verdicts, [Next]_vars PROVE Verdicts'
  <1>1. CASE UNCHANGED vars
    BY <1>1 DEF vars, Verdicts, Deserves, Running, OnTrueClaims
  <1>2. ASSUME NEW p \in Procs, Abort(p) PROVE Verdicts'
    <2>1. OnTrueClaims'
      BY <1>2 DEF Abort, Verdicts, OnTrueClaims, files
    <2> QED
      BY <1>2, <2>1, GoesOn DEF Abort, local, Verdicts
  <1> QED
    BY <1>1, <1>2, StepVerdicts, StartVerdicts DEF Next, Work

LEMMA VerdictsHold == ASSUME JobsLoaded, ExclusiveDirs PROVE Spec => [](IInv /\ Verdicts)
  <1>1. Init => IInv /\ Verdicts
    BY InitIInv, InitVerdicts
  <1>2. IInv /\ Verdicts /\ [Next]_vars => (IInv /\ Verdicts)'
    BY NextIInv, NextVerdicts
  <1> QED
    BY <1>1, <1>2, PTL DEF Spec

\* prove (main.go, generator.go) ends with a package exactly when the claim of
\* its job is true and bb fits, unless it crashes: for every policy tree, whatever
\* the other processes do, with circuit directories that are not shared.  With a
\* path that means another directory to bb, or a bb that makes a directory of its
\* output, as README.md:68-75 has it, it never does.
THEOREM TrueVerdicts == ASSUME JobsLoaded, ExclusiveDirs PROVE Spec => []TruthfulVerdict
  <1>1. IInv /\ Verdicts => TruthfulVerdict
    <2> SUFFICES ASSUME IInv, Verdicts, NEW p \in Procs
                 PROVE  /\ phase[p] = "done"
                             => Prepares(job[p]) /\ Entitled(job[p]) /\ ToolsFit(p)
                        /\ phase[p] = "failed" /\ ToolsFit(p)
                             => ~(Prepares(job[p]) /\ Entitled(job[p]))
      BY DEF TruthfulVerdict
    <2> QED
      BY DEF Verdicts, Deserves, TrueJobs, Prepared, IInv, Relies
  <1> QED
    BY <1>1, VerdictsHold, PTL

\* Under the same assumptions no proof_package.json is ever left for a request
\* whose claim is false, even in a working directory that processes share.
THEOREM TrueClaims == ASSUME JobsLoaded, ExclusiveDirs PROVE Spec => []OnlyTrueClaims
  <1>1. Verdicts => OnlyTrueClaims
    <2> SUFFICES ASSUME Verdicts, NEW dir \in Cwds, Whole(package[dir])
                 PROVE  \E p \in Procs : \E j \in JobsOf[p] :
                           /\ j.request.requestId = package[dir].requestId
                           /\ Prepares(j) /\ Entitled(j)
      BY DEF OnlyTrueClaims
    <2>1. package[dir].requestId \in TrueIds
      BY DEF Verdicts, OnTrueClaims, Whole
    <2> QED
      BY <2>1 DEF TrueIds, TrueJobs, Prepared
  <1> QED
    BY <1>1, VerdictsHold, PTL

\* With tools that fit, a run on a true claim ends without its package (main.go)
\* only if it crashed: nothing else that earlier runs or other processes leave in
\* the files, and no place of the issuer in the policy, can make it fail.
THEOREM EntitledServed ==
  ASSUME JobsLoaded, ExclusiveDirs, \A p \in Procs : ToolsFit(p)
  PROVE  Spec => []EntitledGetsPackage
  <1>1. TruthfulVerdict => EntitledGetsPackage
    BY DEF TruthfulVerdict, EntitledGetsPackage
  <1> QED
    BY <1>1, TrueVerdicts, PTL

-----------------------------------------------------------------------------

\* If Poseidon has no collisions, then a proof_package.json that shows the root
\* of a policy's tree, whichever policy it was made with, was made from a
\* credential signed with a key on that policy's list: for every policy, every
\* depth of the tree and every Merkle path, not only the paths prove computes.
THEOREM ListedIssuers ==
  ASSUME CollisionFree, ExclusiveDirs,
         \A p \in Procs : \A j \in JobsOf[p] : \E S : j.policy.issuers \in Seq(S)
  PROVE  Spec => []SignedByListedIssuer
  <1>1. PackageSound => SignedByListedIssuer
    <2> SUFFICES ASSUME NEW dir \in Cwds, NEW p \in Procs, NEW j \in JobsOf[p],
                        PackageSound, Whole(package[dir]),
                        package[dir].publicInputs[3] = BuildTree(PolicyLeaves(j))[TreeDepth][0]
                 PROVE  /\ SignedByIssuer(package[dir].proof)
                        /\ ComputeLeaf(package[dir].proof.issuerPubkey) \in Range(PolicyLeaves(j))
      BY DEF SignedByListedIssuer
    <2> DEFINE w == package[dir].proof
               given == PolicyLeaves(j)
               n == Len(j.policy.issuers)
    <2>1. Satisfied(w) /\ PublicInputs(w) = package[dir].publicInputs
      BY DEF PackageSound, Sound
    <2>2. PublicInputs(w)[3] = w.issuerPolicyRoot
      BY DEF PublicInputs
    <2>3. n \in Nat /\ DOMAIN given = 1..n /\ given = [k \in 1..n |-> given[k]]
      BY DEF PolicyLeaves
    <2> HIDE DEF w, given, n
    <2>4. given \in Seq({given[k] : k \in 1..n})
      <3> DEFINE S == {given[k] : k \in 1..n}
      <3>1. given \in [1..n -> S]
        BY <2>3
      <3> HIDE DEF S
      <3> QED
        BY <2>3, <3>1 DEF S
    <2>5. ComputeMerkleRoot(ComputeLeaf(w.issuerPubkey), w.merklePath, w.merkleIndexBits)
            = BuildTree(given)[TreeDepth][0]
      BY <2>1, <2>2 DEF Satisfied, IssuerInPolicy, w, given
    <2>6. PICK i \in 1..Len(given) : given[i] = ComputeLeaf(w.issuerPubkey)
      BY <2>4, <2>5, OnlyListedKeysClimb
    <2>7. Len(given) = n
      <3> DEFINE S == {given[k] : k \in 1..n}
      <3>1. given \in Seq(S) /\ DOMAIN given = 1..n /\ n \in Nat
        BY <2>3, <2>4
      <3> HIDE DEF S
      <3> QED
        BY <3>1
    <2>8. given[i] \in Range(given)
      BY <2>3, <2>6, <2>7 DEF Range
    <2>9. SignedByIssuer(w)
      BY <2>1 DEF Satisfied
    <2> QED
      BY <2>6, <2>8, <2>9 DEF w, given
  <1> QED
    BY <1>1, SoundPackages, PTL

-----------------------------------------------------------------------------

\* The service's stages.
Stages == [p \in Procs |-> Stage(phase[p])]

\* A process that goes to another phase moves the service to the phase's stage.
LEMMA StageMoves ==
  ASSUME Domains, NEW p \in Procs, NEW next, Goto(p, next)
  PROVE  Stages' = [Stages EXCEPT ![p] = Stage(next)]
  BY DEF Domains, Goto, Stages, Stage

\* A step within a stage.
LEMMA StageKept ==
  ASSUME Domains, NEW p \in Procs, NEW next, Goto(p, next), Stage(next) = Stage(phase[p]),
         job' = job, package' = package
  PROVE  UNCHANGED <<Stages, job, package>>
  <1>1. Stages' = [Stages EXCEPT ![p] = Stage(next)]
    BY StageMoves
  <1>2. Stages[p] = Stage(phase[p])
    BY DEF Stages
  <1>3. Stages = [q \in Procs |-> Stages[q]]
    BY DEF Stages
  <1> QED
    BY <1>1, <1>2, <1>3

\* A process that fails or crashes gives up.
LEMMA Abandons ==
  ASSUME Domains, NEW p \in Procs, NEW end \in {"failed", "aborted"}, Goto(p, end),
         Running(p), job' = job, package' = package
  PROVE  Service!GiveUp(p)
  <1>1. Stages' = [Stages EXCEPT ![p] = "ended"]
    BY StageMoves DEF Stage
  <1>2. Stages[p] \in {"working", "saving"}
    BY DEF Stages, Stage, Running
  <1> QED
    BY <1>1, <1>2 DEF Service!GiveUp, Stages

\* Up to its package a process touches nothing the service has.
LEMMA WorksUnseen ==
  ASSUME IInv, NEW p \in Procs,
         OpenToml(p) \/ WriteToml(p) \/ NargoExecute(p) \/ BbProve(p)
  PROVE  UNCHANGED <<Stages, job, package>>
  <1>1. CASE OpenToml(p)
    BY <1>1, StageKept DEF IInv, OpenToml, Stage, local
  <1>2. CASE WriteToml(p)
    BY <1>2, StageKept DEF IInv, WriteToml, Stage, local
  <1>3. CASE NargoExecute(p)
    BY <1>3, StageKept DEF IInv, NargoExecute, Stage, local
  <1>4. CASE BbProve(p)
    BY <1>4, StageKept DEF IInv, BbProve, Stage, local
  <1> QED
    BY <1>1, <1>2, <1>3, <1>4

\* The package a process writes is the one of its job, and the claim is true.
LEMMA OwnPackage ==
  ASSUME JobsLoaded, IInv, Verdicts, NEW p \in Procs,
         phase[p] \in {"openPackage", "writePackage"}
  PROVE  Claim(job[p]) /\ ProofPackage(p) = PackageOf(job[p])
  <1>1. Holds(proof[p], p) /\ Deserves(p) /\ Running(p)
    BY DEF IInv, Relies, Verdicts, Running
  <1>2. job[p] \in TrueJobs(p)
    BY <1>1, HoldsDeserved
  <1>3. Claim(job[p])
    BY <1>2 DEF TrueJobs, Prepared, Claim
  <1>4. proof[p] = input[p] /\ input[p] = CircuitInputs(job[p])
    BY <1>1 DEF Holds, Deserves, Prepared, Inputs
  <1>5. ProofPackage(p) = PackageOf(job[p])
    BY <1>4 DEF ProofPackage, PackageOf
  <1> QED
    BY <1>3, <1>5

LEMMA StepServes ==
  ASSUME JobsLoaded, IInv, Verdicts, NEW p \in Procs, Step(p)
  PROVE  Service!Next \/ UNCHANGED <<Stages, job, package>>
  <1>1. CASE OpenToml(p) \/ WriteToml(p) \/ NargoExecute(p) \/ BbProve(p)
    BY <1>1, WorksUnseen
  <1>2. CASE NargoFails(p) \/ BbFails(p)
    <2>1. Goto(p, "failed") /\ Running(p) /\ job' = job /\ package' = package
      BY <1>2 DEF NargoFails, BbFails, Running, local, files
    <2>2. Service!GiveUp(p)
      BY <2>1, Abandons DEF IInv
    <2> QED
      BY <2>2 DEF Service!Next
  <1>3. CASE OpenPackage(p)
    <2>1. Stages' = [Stages EXCEPT ![p] = "saving"] /\ Stages[p] = "working"
      BY <1>3, StageMoves DEF IInv, OpenPackage, Stage, Stages
    <2>2. Claim(job[p])
      BY <1>3, OwnPackage DEF OpenPackage
    <2>3. Service!Open(p)
      BY <1>3, <2>1, <2>2 DEF Service!Open, OpenPackage, Stages, local
    <2> QED
      BY <2>3 DEF Service!Next
  <1>4. CASE WritePackage(p)
    <2>1. Stages' = [Stages EXCEPT ![p] = "ended"] /\ Stages[p] = "saving"
      BY <1>4, StageMoves DEF IInv, WritePackage, Stage, Stages
    <2>2. PICK content \in Filled(package[Cwd[p]], PackageOf(job[p])) :
             package' = [package EXCEPT ![Cwd[p]] = content]
      BY <1>4, OwnPackage DEF WritePackage
    <2>3. \/ package' = [package EXCEPT ![Cwd[p]] = PackageOf(job[p])]
          \/ package[Cwd[p]] # Torn /\ package' = [package EXCEPT ![Cwd[p]] = Torn]
      BY <2>2 DEF Filled
    <2>4. Service!Save(p)
      BY <1>4, <2>1, <2>3 DEF Service!Save, WritePackage, Stages, local
    <2> QED
      BY <2>4 DEF Service!Next
  <1>5. CASE ReadProof(p)
    <2>1. Running(p) /\ job' = job /\ package' = package /\ phase[p] = "read"
      BY <1>5 DEF ReadProof, Running, files
    <2>2. CASE Goto(p, "failed")
      BY <2>1, <2>2, Abandons DEF IInv, Service!Next
    <2>3. CASE phase' = [phase EXCEPT ![p] = "openPackage"]
      BY <2>1, <2>3, StageKept DEF IInv, Goto, Stage
    <2> QED
      BY <1>5, <2>2, <2>3, ReadsOwn
  <1> QED
    BY <1>1, <1>2, <1>3, <1>4, <1>5 DEF Step

LEMMA StartServes ==
  ASSUME IInv, NEW p \in Procs, NEW j \in JobsOf[p], Start(p, j)
  PROVE  Service!Next
  <1>1. PICK next \in {"openToml", "failed"} : Goto(p, next)
    BY DEF Start
  <1>2. Stages' = [Stages EXCEPT ![p] = Stage(next)]
    BY <1>1, StageMoves DEF IInv
  <1>3. Stage(next) \in {"working", "ended"}
    BY <1>1 DEF Stage
  <1>4. Stages[p] \in {"idle", "ended"}
    BY DEF Start, Running, Stages, Stage
  <1>5. job' = [job EXCEPT ![p] = j] /\ package' = package
    BY DEF Start, files
  <1>6. Service!Begin(p, j)
    BY <1>2, <1>3, <1>4, <1>5 DEF Service!Begin, Stages
  <1> QED
    BY <1>6 DEF Service!Next

\* With circuit directories that are not shared, prove (main.go, generator.go)
\* implements an atomic prover, which writes proof_package.json for true claims
\* only, and to each job its own package: crashes, the leftovers of earlier runs
\* and the steps of the other processes cannot be told from it.
THEOREM Serves == ASSUME JobsLoaded, ExclusiveDirs PROVE Spec => ImplementsService
  <1>1. Init => Service!Init
    BY DEF Init, Service!Init, Stage, Cwds
  <1>2. IInv /\ Verdicts /\ [Next]_vars => [Service!Next]_(Service!vars)
    <2> SUFFICES ASSUME IInv, Verdicts, [Next]_vars
                 PROVE  Service!Next \/ UNCHANGED <<Stages, job, package>>
      BY DEF Service!vars, Stages
    <2>1. ASSUME NEW p \in Procs, Abort(p) PROVE Service!Next
      <3>1. Service!GiveUp(p)
        BY <2>1, Abandons DEF Abort, IInv, local, files
      <3> QED
        BY <3>1 DEF Service!Next
    <2>2. CASE UNCHANGED vars
      BY <2>2 DEF vars, Stages
    <2> QED
      BY <2>1, <2>2, StepServes, StartServes DEF Next, Work
  <1>3. Spec => []IInv
    <2>1. IInv /\ [Next]_vars => IInv'
      BY NextIInv
    <2> QED
      BY <2>1, InitIInv, PTL DEF Spec
  <1> QED
    BY <1>1, <1>2, <1>3, VerdictsHold, PTL DEF Spec, ImplementsService, Service!Spec

-----------------------------------------------------------------------------

\* Idempotency keys are byte strings, and Poseidon tells sessions apart.
SessionsCollisionFree ==
    /\ \A p \in Procs : \A j \in JobsOf[p] : j.request.idempotencyKey \in Seq(Nat)
    /\ \A a1, a2, a3, a4, b1, b2, b3, b4 :
          Poseidon(<<a1, a2, a3, a4>>) = Poseidon(<<b1, b2, b3, b4>>)
            => a1 = b1 /\ a2 = b2 /\ a3 = b3 /\ a4 = b4

\* The number of a key has the key's bytes from the first that is not NUL.
LEMMA HashedKey ==
  ASSUME NEW key \in Seq(Nat)
  PROVE  \E f \in 1..(Len(key) + 1) :
            /\ \A k \in 1..(f - 1) : key[k] = 0
            /\ f <= Len(key) => key[f] # 0
            /\ ComputeIdempotencyKeyHash(key) = SubSeq(key, f, Len(key))
  <1> DEFINE First(i) == /\ \A k \in 1..(i - 1) : key[k] = 0
                         /\ i <= Len(key) => key[i] # 0
             T == {i \in 1..(Len(key) + 1) : i <= Len(key) => key[i] # 0}
  <1>1. Len(key) \in Nat
    OBVIOUS
  <1>2. Len(key) + 1 \in T /\ T \subseteq Nat
    BY <1>1
  <1>3. PICK m \in T : \A n \in T : m <= n
    BY <1>2, LeastNat
  <1>4. First(m)
    <2>1. ASSUME NEW k \in 1..(m - 1), key[k] # 0 PROVE FALSE
      <3>1. k \in T /\ k < m
        BY <1>1, <1>2, <1>3, <2>1
      <3> QED
        BY <1>2, <1>3, <3>1
    <2> QED
      BY <1>3, <2>1
  <1>5. m \in 1..(Len(key) + 1)
    BY <1>3
  <1> DEFINE first == CHOOSE i \in 1..(Len(key) + 1) : First(i)
  <1>6. first \in 1..(Len(key) + 1) /\ First(first)
    BY <1>4, <1>5
  <1>7. ComputeIdempotencyKeyHash(key) = SubSeq(key, first, Len(key))
    BY DEF ComputeIdempotencyKeyHash
  <1> HIDE DEF first
  <1> QED
    BY <1>6, <1>7

\* The padded key is its number, behind NULs.
LEMMA PaddedIs ==
  ASSUME NEW key \in Seq(Nat), NEW n \in Nat, Len(key) <= n
  PROVE  LET h == ComputeIdempotencyKeyHash(key) IN
         /\ h \in Seq(Nat)
         /\ \E m \in 1..(n + 1) :
               /\ Len(h) = n + 1 - m
               /\ m <= n => h[1] # 0
               /\ Padded(key, n) = [i \in 1..n |-> IF i < m THEN 0 ELSE h[i - m + 1]]
  <1> DEFINE h == ComputeIdempotencyKeyHash(key)
             l == Len(key)
  <1>1. PICK f \in 1..(l + 1) : /\ \A k \in 1..(f - 1) : key[k] = 0
                                /\ f <= l => key[f] # 0
                                /\ h = SubSeq(key, f, l)
    BY HashedKey
  <1>2. l \in Nat /\ l <= n /\ \A i \in 1..l : key[i] \in Nat
    OBVIOUS
  <1> HIDE DEF h, l
  <1>3. h = [i \in 1..(l + 1 - f) |-> key[i + f - 1]]
    BY <1>1, <1>2 DEF l
  <1>4. h \in [1..(l + 1 - f) -> Nat] /\ l + 1 - f \in Nat
    <2>1. \A i \in 1..(l + 1 - f) : i + f - 1 \in 1..l
      BY <1>1, <1>2
    <2> QED
      BY <1>1, <1>2, <1>3, <2>1
  <1>5. h \in Seq(Nat) /\ Len(h) = l + 1 - f
    BY <1>4
  <1> DEFINE m == n - l + f
  <1>6. m \in 1..(n + 1) /\ Len(h) = n + 1 - m
    BY <1>1, <1>2, <1>5
  <1>7. m <= n => h[1] # 0
    BY <1>1, <1>2, <1>3
  <1>8. Padded(key, n) = [i \in 1..n |-> IF i < m THEN 0 ELSE h[i - m + 1]]
    <2>1. ASSUME NEW i \in 1..n
          PROVE  (IF i <= n - l THEN 0 ELSE key[i - (n - l)])
                    = IF i < m THEN 0 ELSE h[i - m + 1]
      <3>1. CASE i <= n - l
        BY <1>1, <1>2, <3>1
      <3>2. CASE i > n - l /\ i < m
        BY <1>1, <1>2, <3>2
      <3>3. CASE i >= m
        <4>1. i - m + 1 \in 1..(l + 1 - f) /\ (i - m + 1) + f - 1 = i - (n - l)
          BY <1>1, <1>2, <3>3
        <4> QED
          BY <1>1, <1>2, <1>3, <3>3, <4>1
      <3> QED
        BY <1>1, <1>2, <3>1, <3>2, <3>3
    <2> QED
      BY <2>1 DEF Padded, l
  <1> QED
    BY <1>5, <1>6, <1>7, <1>8 DEF h

\* Keys have the same number exactly if they differ at most by NULs in front.
LEMMA SameKeySameHash ==
  ASSUME NEW a \in Seq(Nat), NEW b \in Seq(Nat)
  PROVE  SameKey(a, b) <=> ComputeIdempotencyKeyHash(a) = ComputeIdempotencyKeyHash(b)
  <1> DEFINE n == IF Len(a) <= Len(b) THEN Len(b) ELSE Len(a)
             ha == ComputeIdempotencyKeyHash(a)
             hb == ComputeIdempotencyKeyHash(b)
             pa == Padded(a, n)
             pb == Padded(b, n)
  <1>1. n \in Nat /\ Len(a) <= n /\ Len(b) <= n
    OBVIOUS
  <1>2. SameKey(a, b) <=> pa = pb
    BY DEF SameKey
  <1> HIDE DEF n
  <1>3. PICK m \in 1..(n + 1) :
           /\ Len(ha) = n + 1 - m
           /\ m <= n => ha[1] # 0
           /\ pa = [i \in 1..n |-> IF i < m THEN 0 ELSE ha[i - m + 1]]
    BY <1>1, PaddedIs
  <1>4. PICK k \in 1..(n + 1) :
           /\ Len(hb) = n + 1 - k
           /\ k <= n => hb[1] # 0
           /\ pb = [i \in 1..n |-> IF i < k THEN 0 ELSE hb[i - k + 1]]
    BY <1>1, PaddedIs
  <1>5. ha \in Seq(Nat) /\ hb \in Seq(Nat)
    BY <1>1, PaddedIs
  <1> HIDE DEF ha, hb, pa, pb
  <1>6. ASSUME ha = hb PROVE pa = pb
    <2>1. m = k
      BY <1>1, <1>3, <1>4, <1>6
    <2> QED
      BY <1>3, <1>4, <1>6, <2>1
  <1>7. ASSUME pa = pb PROVE ha = hb
    <2>1. m = k
      <3>1. ~(m < k)
        <4> SUFFICES ASSUME m < k PROVE FALSE
          OBVIOUS
        <4>1. m \in 1..n /\ m <= n
          BY <1>1
        <4>2. pa[m] = ha[m - m + 1] /\ pb[m] = 0
          BY <1>3, <1>4, <4>1
        <4> QED
          BY <1>3, <1>7, <4>1, <4>2
      <3>2. ~(k < m)
        <4> SUFFICES ASSUME k < m PROVE FALSE
          OBVIOUS
        <4>1. k \in 1..n /\ k <= n
          BY <1>1
        <4>2. pb[k] = hb[k - k + 1] /\ pa[k] = 0
          BY <1>3, <1>4, <4>1
        <4> QED
          BY <1>4, <1>7, <4>1, <4>2
      <3> QED
        BY <1>1, <3>1, <3>2
    <2>2. Len(ha) = Len(hb)
      BY <1>3, <1>4, <2>1
    <2>3. ASSUME NEW i \in 1..Len(ha) PROVE ha[i] = hb[i]
      <3>1. /\ i + m - 1 \in 1..n /\ ~(i + m - 1 < m) /\ (i + m - 1) - m + 1 = i
        BY <1>1, <1>3
      <3>2. pa[i + m - 1] = ha[i] /\ pb[i + m - 1] = hb[i]
        BY <1>3, <1>4, <2>1, <3>1
      <3> QED
        BY <1>7, <3>2
    <2>4. /\ ha = [i \in 1..Len(ha) |-> ha[i]]
          /\ hb = [i \in 1..Len(hb) |-> hb[i]]
      BY <1>5
    <2> QED
      BY <2>2, <2>3, <2>4
  <1> QED
    BY <1>2, <1>6, <1>7 DEF ha, hb

\* The proof that a process has read was made from its own job, and it keeps it
\* after the package is written.
ProofsOwn ==
    \A p \in Procs :
        /\ Running(p) => job[p] \in JobsOf[p] /\ input[p] = CircuitInputs(job[p])
        /\ Whole(proof[p]) => job[p] \in JobsOf[p] /\ proof[p] = CircuitInputs(job[p])

LEMMA NextProofsOwn ==
  ASSUME ExclusiveDirs, IInv, ProofsOwn, [Next]_vars PROVE ProofsOwn'
  <1>1. CASE UNCHANGED vars
    BY <1>1 DEF vars, ProofsOwn, Running
  <1>2. ASSUME NEW p \in Procs, NEW next, Running(p), Goto(p, next), UNCHANGED local
        PROVE  ProofsOwn'
    BY <1>2 DEF ProofsOwn, Running, Goto, local, IInv, Domains
  <1>3. ASSUME NEW p \in Procs, ReadProof(p) PROVE ProofsOwn'
    <2>1. Running(p) /\ UNCHANGED <<job, input, runs>>
      BY <1>3 DEF ReadProof, Running
    <2>2. CASE Goto(p, "failed") /\ UNCHANGED proof
      BY <1>2, <2>1, <2>2 DEF local
    <2>3. CASE /\ Holds(proofFile[CircuitDir(p)], p)
               /\ phase' = [phase EXCEPT ![p] = "openPackage"]
               /\ proof' = [proof EXCEPT ![p] = proofFile[CircuitDir(p)]]
      <3>1. proofFile[CircuitDir(p)] = CircuitInputs(job[p]) /\ job[p] \in JobsOf[p]
        BY <2>1, <2>3 DEF ProofsOwn, Holds
      <3> QED
        BY <2>1, <2>3, <3>1 DEF ProofsOwn, Running, IInv, Domains
    <2> QED
      BY <1>3, <2>2, <2>3, ReadsOwn
  <1>4. ASSUME NEW p \in Procs, NEW j \in JobsOf[p], Start(p, j) PROVE ProofsOwn'
    BY <1>4 DEF Start, Goto, Running, ProofsOwn, IInv, Domains, Whole
  <1>5. ASSUME NEW p \in Procs, Step(p) PROVE ProofsOwn'
    BY <1>2, <1>3, <1>5 DEF Step, OpenToml, WriteToml, NargoExecute, NargoFails, BbProve,
       BbFails, OpenPackage, WritePackage, Running
  <1>6. ASSUME NEW p \in Procs, Abort(p) PROVE ProofsOwn'
    BY <1>2, <1>6 DEF Abort
  <1> QED
    BY <1>1, <1>4, <1>5, <1>6 DEF Next, Work

\* If Poseidon has no collisions, then the nullifier of a proof (witness.go,
\* generator.go), which FactRegistry accepts once, stands for the session of the
\* job it was made for, up to NULs in front of its key: for every set of jobs and
\* keys of any length, with circuit directories that are not shared.
THEOREM NullifiersNameSessions ==
  ASSUME SessionsCollisionFree, ExclusiveDirs PROVE Spec => []NullifierIsSession
  <1>1. Init => IInv /\ ProofsOwn
    BY InitIInv DEF Init, ProofsOwn, Whole, Running
  <1>2. IInv /\ ProofsOwn /\ [Next]_vars => (IInv /\ ProofsOwn)'
    BY NextIInv, NextProofsOwn
  <1>3. ProofsOwn => NullifierIsSession
    <2> SUFFICES ASSUME ProofsOwn, NEW p \in Procs, NEW q \in Procs,
                        Whole(proof[p]), Whole(proof[q])
                 PROVE  proof[p].nullifier = proof[q].nullifier
                    <=> /\ job[p].holderSecret = job[q].holderSecret
                        /\ job[p].request.verifierIdHash = job[q].request.verifierIdHash
                        /\ job[p].request.factTypeHash = job[q].request.factTypeHash
                        /\ SameKey(job[p].request.idempotencyKey,
                                   job[q].request.idempotencyKey)
      BY DEF NullifierIsSession
    <2> DEFINE N(j) == ComputeNullifier(j.holderSecret, j.request.verifierIdHash,
                                        j.request.factTypeHash,
                                        ComputeIdempotencyKeyHash(j.request.idempotencyKey))
    <2>1. proof[p].nullifier = N(job[p]) /\ proof[q].nullifier = N(job[q])
      <3>1. \A j : CircuitInputs(j).nullifier = N(j)
        BY DEF CircuitInputs
      <3> HIDE DEF N
      <3> QED
        BY <3>1 DEF ProofsOwn
    <2>2. SameKey(job[p].request.idempotencyKey, job[q].request.idempotencyKey)
            <=> ComputeIdempotencyKeyHash(job[p].request.idempotencyKey)
                  = ComputeIdempotencyKeyHash(job[q].request.idempotencyKey)
      BY SameKeySameHash DEF ProofsOwn, SessionsCollisionFree
    <2> QED
      BY <2>1, <2>2 DEF ComputeNullifier, SessionsCollisionFree
  <1> QED
    BY <1>1, <1>2, <1>3, PTL DEF Spec

=============================================================================
