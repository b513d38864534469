--------------------------- MODULE HolderFlowProofs ---------------------------
(***************************************************************************)
(* What the holder may conclude from the answers of any node.              *)
(*                                                                         *)
(* RevertMeansRecorded speaks of reverted receipts, ProvenNullifierOnce of *)
(* those that succeeded.  They are inductive together with: the used       *)
(* nullifiers are those of one receipt each that succeeded, and every call *)
(* that a process sends or the pool holds was made of a package.           *)
(*                                                                         *)
(* FlowComplete speaks of the chain at the end of a flow.  Its invariant   *)
(* says, for each phase of a flow, that proof_package.json still is the    *)
(* package it made, and from the submission on that the package is on      *)
(* record; the contract never takes a fact off.                            *)
(***************************************************************************)
EXTENDS HolderFlow, FiniteSetTheorems, WellFoundedInduction, TLAPS

Domains ==
    /\ DOMAIN phase = Procs /\ DOMAIN command = Procs /\ DOMAIN made = Procs
    /\ DOMAIN pkg = Procs /\ DOMAIN nonce = Procs /\ DOMAIN key = Procs
    /\ DOMAIN result = Procs /\ DOMAIN runs = Procs /\ DOMAIN package = Cwds

ClientCalls == {CallOf(package_) : package_ \in Packages}

\* Where packages are kept, and the calls made of them.
PackagesTyped ==
    /\ \A dir \in Cwds : package[dir] \in Packages \cup {Missing, Torn}
    /\ \A p \in Procs : phase[p] = "save" => made[p] \in Packages
    /\ \A p \in Procs : phase[p] \in {"nonce", "send"} => pkg[p] \in Packages
    /\ \A tx \in pool : tx.call \in ClientCalls /\ tx.from \in Addresses

IsSeq(s) == \E S : s \in Seq(S)

\* The nullifiers a receipt accounts for.
Succeeded(n) ==
    \E j \in DOMAIN receipts : receipts[j].success /\ receipts[j].tx.call.nullifier = n

ReceiptsTyped ==
    /\ IsSeq(receipts)
    /\ usedNullifiers \in [Registry!Nullifiers -> BOOLEAN]
    /\ \A n \in Registry!Nullifiers : usedNullifiers[n] <=> Succeeded(n)
    /\ \A i \in DOMAIN receipts : receipts[i].tx.call \in ClientCalls
    /\ \A i, j \in DOMAIN receipts :
          /\ receipts[i].success /\ receipts[j].success
          /\ receipts[i].tx.call.nullifier = receipts[j].tx.call.nullifier
          => i = j

IInv == Domains /\ PackagesTyped /\ ReceiptsTyped /\ RevertMeansRecorded

-----------------------------------------------------------------------------

\* Appending to a sequence of any elements.
LEMMA AppendIs ==
  ASSUME NEW s, IsSeq(s), NEW e
  PROVE  /\ IsSeq(Append(s, e))
         /\ Len(s) \in Nat
         /\ DOMAIN s = 1..Len(s)
         /\ DOMAIN Append(s, e) = 1..(Len(s) + 1)
         /\ \A i \in 1..Len(s) : Append(s, e)[i] = s[i]
         /\ Append(s, e)[Len(s) + 1] = e
  <1>1. PICK S : s \in Seq(S)
    BY DEF IsSeq
  <1>2. s \in Seq(S \cup {e})
    BY <1>1
  <1>3. Append(s, e) \in Seq(S \cup {e})
    BY <1>2
  <1> QED
    BY <1>2, <1>3 DEF IsSeq

LEMMA ClientCallsKnown == ClientCalls \subseteq Calls
  BY HolderFlowAssumption DEF ClientCalls

\* Initially nothing was sent and nothing is recorded.
LEMMA InitIInv == Init => IInv
  <1> SUFFICES ASSUME Init PROVE IInv
    OBVIOUS
  <1>1. Domains
    BY DEF Init, Domains
  <1>2. PackagesTyped
    BY DEF Init, NodeInit, PackagesTyped
  <1>3. ReceiptsTyped
    <2>1. receipts = << >> /\ << >> \in Seq({})
      BY DEF Init, NodeInit
    <2>2. usedNullifiers = [n \in Registry!Nullifiers |-> FALSE]
      BY DEF Init, NodeInit, Registry!Init
    <2> QED
      BY <2>1, <2>2 DEF ReceiptsTyped, Succeeded, IsSeq
  <1>4. RevertMeansRecorded
    BY DEF Init, NodeInit, RevertMeansRecorded
  <1> QED
    BY <1>1, <1>2, <1>3, <1>4 DEF IInv

\* A transaction that is executed keeps the account of the receipts.
LEMMA ExecuteReceipts ==
  ASSUME ReceiptsTyped, RevertMeansRecorded, NEW tx, tx.call \in ClientCalls, Execute(tx)
  PROVE  ReceiptsTyped' /\ RevertMeansRecorded'
  <1> DEFINE n == tx.call.nullifier
             last == [tx |-> tx, success |-> Succeeds(tx)]
             L == Len(receipts)
  <1>1. receipts' = Append(receipts, last)
    BY DEF Execute
  <1>2. /\ IsSeq(receipts') /\ L \in Nat
        /\ DOMAIN receipts = 1..L /\ DOMAIN receipts' = 1..(L + 1)
        /\ \A i \in 1..L : receipts'[i] = receipts[i]
        /\ receipts'[L + 1] = last
    BY <1>1, AppendIs DEF ReceiptsTyped
  <1>3. n \in Registry!Nullifiers
    BY ClientCallsKnown DEF Registry!Nullifiers
  <1>4. Succeeds(tx) <=> Viable(tx.call, tx.gas) /\ ~usedNullifiers[n]
    BY DEF Succeeds, Viable, Registry!Accepts
  <1> HIDE DEF L, n
  <1>5. ASSUME NEW m PROVE Succeeded(m)' <=> Succeeded(m) \/ (Succeeds(tx) /\ m = n)
    <2>1. \A j \in DOMAIN receipts' : j \in 1..L \/ j = L + 1
      BY <1>2
    <2>2. L + 1 \in DOMAIN receipts'
      BY <1>2
    <2>3. \A j \in 1..L : j \in DOMAIN receipts'
      BY <1>2
    <2> QED
      BY <1>2, <2>1, <2>2, <2>3 DEF Succeeded, n
  <1>6. ReceiptsTyped'
    <2>1. /\ usedNullifiers' \in [Registry!Nullifiers -> BOOLEAN]
          /\ \A m \in Registry!Nullifiers :
                usedNullifiers'[m] <=> usedNullifiers[m] \/ (Succeeds(tx) /\ m = n)
      <3>1. CASE Succeeds(tx) /\ Registry!SubmitVerifiedFact(tx.from, tx.call)
        BY <1>3, <3>1 DEF Registry!SubmitVerifiedFact, ReceiptsTyped, n
      <3>2. CASE ~Succeeds(tx) /\ UNCHANGED registryVars
        BY <3>2 DEF registryVars, ReceiptsTyped
      <3> QED
        BY <3>1, <3>2 DEF Execute
    <2>2. \A m \in Registry!Nullifiers : usedNullifiers'[m] <=> Succeeded(m)'
      BY <1>5, <2>1 DEF ReceiptsTyped
    <2>3. \A i \in DOMAIN receipts' : receipts'[i].tx.call \in ClientCalls
      <3> SUFFICES ASSUME NEW i \in DOMAIN receipts' PROVE receipts'[i].tx.call \in ClientCalls
        OBVIOUS
      <3>1. CASE i \in 1..L
        BY <1>2, <3>1 DEF ReceiptsTyped
      <3>2. CASE i = L + 1
        BY <1>2, <3>2
      <3> QED
        BY <1>2, <3>1, <3>2
    <2>4. ASSUME Succeeds(tx), NEW j \in 1..L, receipts[j].success
          PROVE  receipts[j].tx.call.nullifier # n
      <3>1. ~Succeeded(n)
        BY <1>3, <1>4, <2>4 DEF ReceiptsTyped
      <3> QED
        BY <1>2, <2>4, <3>1 DEF Succeeded
    <2>5. ASSUME NEW i \in DOMAIN receipts', NEW j \in DOMAIN receipts',
                 receipts'[i].success, receipts'[j].success,
                 receipts'[i].tx.call.nullifier = receipts'[j].tx.call.nullifier
          PROVE  i = j
      <3>1. CASE i \in 1..L /\ j \in 1..L
        BY <1>2, <2>5, <3>1 DEF ReceiptsTyped
      <3>2. CASE i = L + 1 /\ j \in 1..L
        BY <1>2, <2>4, <2>5, <3>2 DEF n
      <3>3. CASE i \in 1..L /\ j = L + 1
        BY <1>2, <2>4, <2>5, <3>3 DEF n
      <3> QED
        BY <1>2, <3>1, <3>2, <3>3
    <2> QED
      BY <1>2, <2>1, <2>2, <2>3, <2>5 DEF ReceiptsTyped
  <1>7. RevertMeansRecorded'
    <2> SUFFICES ASSUME NEW i \in DOMAIN receipts', ~receipts'[i].success,
                        Viable(receipts'[i].tx.call, receipts'[i].tx.gas)
                 PROVE  \E j \in 1..(i - 1) :
                           /\ receipts'[j].success
                           /\ receipts'[j].tx.call.nullifier = receipts'[i].tx.call.nullifier
      BY DEF RevertMeansRecorded, Viable
    <2>1. CASE i \in 1..L
      <3>1. receipts'[i] = receipts[i] /\ i \in DOMAIN receipts
        BY <1>2, <2>1
      <3>2. PICK j \in 1..(i - 1) : /\ receipts[j].success
                                    /\ receipts[j].tx.call.nullifier
                                         = receipts[i].tx.call.nullifier
        BY <3>1 DEF RevertMeansRecorded, Viable
      <3>3. receipts'[j] = receipts[j]
        BY <1>2, <2>1
      <3> QED
        BY <3>1, <3>2, <3>3
    <2>2. CASE i = L + 1
      <3>1. ~Succeeds(tx) /\ Viable(tx.call, tx.gas)
        BY <1>2, <2>2
      <3>2. Succeeded(n)
        BY <1>3, <1>4, <3>1 DEF ReceiptsTyped
      <3>3. PICK j \in 1..L : receipts[j].success /\ receipts[j].tx.call.nullifier = n
        BY <1>2, <3>2 DEF Succeeded
      <3>4. j \in 1..(i - 1) /\ receipts'[j] = receipts[j] /\ receipts'[i].tx = tx
        BY <1>2, <2>2
      <3> QED
        BY <3>3, <3>4 DEF n
    <2> QED
      BY <1>2, <2>1, <2>2
  <1> QED
    BY <1>6, <1>7

\* A step that executes nothing keeps it too.
LEMMA IdleReceipts ==
  ASSUME ReceiptsTyped, RevertMeansRecorded, receipts' = receipts,
         usedNullifiers' = usedNullifiers
  PROVE  ReceiptsTyped' /\ RevertMeansRecorded'
  BY DEF ReceiptsTyped, RevertMeansRecorded, Succeeded, Viable

-----------------------------------------------------------------------------

\* The call of a signed transaction is one that the clients make.
LEMMA SignedCall ==
  ASSUME PackagesTyped, NEW p \in Procs, phase[p] = "send"
  PROVE  SignedTx(p).call \in ClientCalls /\ SignedTx(p).from \in Addresses
  BY HolderFlowAssumption DEF PackagesTyped, SignedTx, ClientCalls

\* The steps of the processes.
LEMMA WorkIInv == ASSUME IInv, Work PROVE IInv'
  <1> USE DEF IInv
  <1>1. ASSUME NEW p \in Procs, NEW c \in CommandsOf[p], Start(p, c) PROVE IInv'
    <2>1. phase'[p] \notin {"save", "nonce", "send"}
      <3>1. c \in Commands
        BY HolderFlowAssumption
      <3>2. FirstPhase[c] \in {"read", "lookup", "prove"}
        BY <3>1 DEF FirstPhase, Commands
      <3> QED
        BY <1>1, <3>2 DEF Start, Goto, Domains
    <2>2. Domains' /\ PackagesTyped'
      BY <1>1, <2>1 DEF Start, Goto, Domains, PackagesTyped, nodeVars
    <2> QED
      BY <1>1, <2>2, IdleReceipts DEF Start, nodeVars, registryVars
  <1>2. ASSUME NEW p \in Procs, Prove(p) PROVE IInv'
    <2>1. Cwd[p] \in Cwds
      BY DEF Cwds
    <2>2. PICK package_ \in PackagesOf[p] : made' = [made EXCEPT ![p] = package_]
      BY <1>2 DEF Prove
    <2>3. package_ \in Packages
      BY DEF Packages
    <2>4. Domains' /\ PackagesTyped'
      BY <1>2, <2>1, <2>2, <2>3 DEF Prove, Goto, Domains, PackagesTyped, nodeVars
    <2> QED
      BY <1>2, <2>4, IdleReceipts DEF Prove, nodeVars, registryVars
  <1>3. ASSUME NEW p \in Procs, SavePackage(p) PROVE IInv'
    <2>1. PICK content \in {made[p], Torn} : package' = [package EXCEPT ![Cwd[p]] = content]
      BY <1>3 DEF SavePackage
    <2>2. made[p] \in Packages
      BY <1>3 DEF SavePackage, PackagesTyped
    <2>3. Domains' /\ PackagesTyped'
      BY <1>3, <2>1, <2>2 DEF SavePackage, Goto, Domains, PackagesTyped, nodeVars, local
    <2> QED
      BY <1>3, <2>3, IdleReceipts DEF SavePackage, nodeVars, registryVars
  <1>4. ASSUME NEW p \in Procs, ReadPackage(p) PROVE IInv'
    <2>1. package[Cwd[p]] \in Packages
      BY <1>4 DEF ReadPackage, Readable, PackagesTyped, Cwds
    <2>2. Domains' /\ PackagesTyped'
      BY <1>4, <2>1 DEF ReadPackage, Goto, Domains, PackagesTyped, nodeVars
    <2> QED
      BY <1>4, <2>2, IdleReceipts DEF ReadPackage, nodeVars, registryVars
  <1>5. ASSUME NEW p \in Procs, GetNonce(p) PROVE IInv'
    <2>1. Domains' /\ PackagesTyped'
      BY <1>5 DEF GetNonce, Goto, Domains, PackagesTyped, nodeVars
    <2> QED
      BY <1>5, <2>1, IdleReceipts DEF GetNonce, nodeVars, registryVars
  <1>6. ASSUME NEW p \in Procs, SendAndExecute(p) PROVE IInv'
    <2>1. phase'[p] \in {"done", "reread", "failed"} /\ pool' = pool
      BY <1>6 DEF SendAndExecute, ExecutedAtOnce, Goto, Submitted, Domains
    <2>2. Domains' /\ PackagesTyped'
      BY <1>6, <2>1 DEF SendAndExecute, Goto, Domains, PackagesTyped, local
    <2>3. SignedTx(p).call \in ClientCalls
      BY <1>6, SignedCall DEF SendAndExecute
    <2> QED
      BY <1>6, <2>2, <2>3, ExecuteReceipts DEF SendAndExecute, ExecutedAtOnce
  <1>7. ASSUME NEW p \in Procs, SendToPool(p) PROVE IInv'
    <2>1. phase'[p] \in {"done", "reread"}
      BY <1>7 DEF SendToPool, Goto, Submitted, Domains
    <2>2. SignedTx(p).call \in ClientCalls /\ SignedTx(p).from \in Addresses
      BY <1>7, SignedCall DEF SendToPool
    <2>3. \A tx \in pool' : tx \in pool \/ tx = SignedTx(p)
      BY <1>7 DEF SendToPool, TakenIn
    <2>4. Domains' /\ PackagesTyped'
      BY <1>7, <2>1, <2>2, <2>3 DEF SendToPool, Goto, Domains, PackagesTyped, local
    <2> QED
      BY <1>7, <2>4, IdleReceipts DEF SendToPool, TakenIn, registryVars
  <1>8. ASSUME NEW p \in Procs, SendRejected(p) \/ ReadFails(p) \/ LookupFails(p) \/ Abort(p) PROVE IInv'
    <2>1. Goto(p, "failed") /\ UNCHANGED <<nodeVars, local, package>>
      BY <1>8 DEF SendRejected, Rejected, ReadFails, LookupFails, Abort
    <2>2. Domains' /\ PackagesTyped'
      BY <2>1 DEF Goto, Domains, PackagesTyped, nodeVars, local
    <2> QED
      BY <2>1, <2>2, IdleReceipts DEF nodeVars, registryVars
  <1>9. ASSUME NEW p \in Procs, RereadPackage(p) PROVE IInv'
    <2>1. Domains' /\ PackagesTyped'
      BY <1>9 DEF RereadPackage, Goto, Domains, PackagesTyped, nodeVars
    <2> QED
      BY <1>9, <2>1, IdleReceipts DEF RereadPackage, nodeVars, registryVars
  <1>10. ASSUME NEW p \in Procs, Lookup(p) PROVE IInv'
    <2>1. Domains' /\ PackagesTyped'
      BY <1>10 DEF Lookup, Goto, Domains, PackagesTyped, nodeVars
    <2> QED
      BY <1>10, <2>1, IdleReceipts DEF Lookup, nodeVars, registryVars
  <1> QED
    BY <1>1, <1>2, <1>3, <1>4, <1>5, <1>6, <1>7, <1>8, <1>9, <1>10 DEF Work, Step, Send

\* The steps of the node.
LEMMA NodeIInv ==
  ASSUME IInv, Mine \/ NextBlock \/ Evict, UNCHANGED <<phase, local, package>> PROVE IInv'
  <1> USE DEF IInv
  <1>1. Domains'
    BY DEF Domains, local
  <1>2. \A tx \in pool' : tx \in pool
    BY DEF Mine, NextBlock, Evict
  <1>3. PackagesTyped'
    BY <1>2 DEF PackagesTyped, local
  <1>4. CASE Mine
    <2>1. PICK tx \in pool : Execute(tx)
      BY <1>4 DEF Mine
    <2> QED
      BY <1>1, <1>3, <2>1, ExecuteReceipts DEF PackagesTyped
  <1>5. CASE NextBlock \/ Evict
    BY <1>1, <1>3, <1>5, IdleReceipts DEF NextBlock, Evict, Registry!NextBlock, registryVars
  <1> QED
    BY <1>4, <1>5

LEMMA NextIInv == ASSUME IInv, [Next]_vars PROVE IInv'
  <1>1. CASE UNCHANGED vars
    <2>1. Domains' /\ PackagesTyped'
      BY <1>1 DEF IInv, Domains, PackagesTyped, vars, local, nodeVars
    <2> QED
      BY <1>1, <2>1, IdleReceipts DEF IInv, vars, nodeVars, registryVars
  <1>2. CASE Next
    BY <1>2, WorkIInv, NodeIInv DEF Next, Node
  <1> QED
    BY <1>1, <1>2

-----------------------------------------------------------------------------

\* On every node, and however processes share accounts and directories: a
\* submission (submitter.go) whose proof verifies is reverted by the contract
\* only if a transaction before it recorded the same nullifier.
THEOREM NoLossByRevert == Spec => []RevertMeansRecorded
  <1>1. Init => IInv
    BY InitIInv
  <1>2. IInv /\ [Next]_vars => IInv'
    BY NextIInv
  <1>3. IInv => RevertMeansRecorded
    BY DEF IInv
  <1> QED
    BY <1>1, <1>2, <1>3, PTL DEF Spec

\* What prove (generator.go) leaves in a package: its nullifier is the sixth
\* public input.
PackagesConsistent ==
    \A package_ \in Packages : package_.nullifier = package_.publicInputs[6]

\* Then the contract spends each proven nullifier once, though it only looks at
\* the argument: submit-fact (main.go) sends no other one.
THEOREM ProvenOnce ==
  ASSUME PackagesConsistent
  PROVE  Spec => []ProvenNullifierOnce
  <1>1. Init => IInv
    BY InitIInv
  <1>2. IInv /\ [Next]_vars => IInv'
    BY NextIInv
  <1>3. IInv => ProvenNullifierOnce
    <2>1. \A call \in ClientCalls : call.publicInputs[6] = call.nullifier
      BY DEF ClientCalls, CallOf, PackagesConsistent
    <2> QED
      BY <2>1 DEF IInv, ReceiptsTyped, ProvenNullifierOnce
  <1> QED
    BY <1>1, <1>2, <1>3, PTL DEF Spec

-----------------------------------------------------------------------------

(***************************************************************************)
(* On a node that mines at once, verify-service-flow is complete if no     *)
(* other process proves into its directory.                                *)
(***************************************************************************)
flow == "verify-service-flow"

ExclusiveCwds ==
    \A p, q \in Procs :
        p # q /\ Cwd[p] = Cwd[q] => flow \notin CommandsOf[p] \/ flow \notin CommandsOf[q]

\* What the account finds of its package on the chain.
OnRecord(account, package_) ==
    /\ \E i \in DOMAIN accepted : /\ accepted[i].nullifier = package_.nullifier
                                  /\ accepted[i].submitter = account
    /\ facts[KeyOfPackage(package_)].exists

StorageKeyed ==
    /\ IsSeq(accepted)
    /\ DOMAIN facts = Registry!FactKeys
    /\ \A k \in Registry!FactKeys : facts[k].exists => Registry!KeyOf(facts[k]) = k

CommandKnown(p) ==
    /\ command[p] = "none" \/ command[p] \in CommandsOf[p]
    /\ phase[p] \in {"prove", "save"} => command[p] = flow

\* How far the flow of a process has come.
Progress(p) ==
    /\ phase[p] = "save" => package[Cwd[p]] = Torn
    /\ phase[p] \in {"save", "read", "nonce", "send", "reread", "lookup", "done"} =>
           made[p] \in Packages
    /\ phase[p] \in {"read", "nonce", "send", "reread"} => package[Cwd[p]] = made[p]
    /\ phase[p] \in {"nonce", "send"} => pkg[p] = made[p]
    /\ phase[p] \in {"reread", "lookup", "done"} => OnRecord(Account[p], made[p])
    /\ phase[p] \in {"lookup", "done"} => key[p] = KeyOfPackage(made[p])
    /\ phase[p] = "done" => result[p].exists /\ Registry!KeyOf(result[p]) = key[p]

FlowInv ==
    /\ Domains /\ PackagesTyped /\ StorageKeyed
    /\ \A p \in Procs : CommandKnown(p) /\ (command[p] = flow => Progress(p))

LEMMA FlowInvInit == Init => FlowInv
  <1> SUFFICES ASSUME Init PROVE FlowInv
    OBVIOUS
  <1>1. Domains /\ PackagesTyped
    BY InitIInv DEF IInv
  <1>2. StorageKeyed
    <2>1. accepted = << >> /\ << >> \in Seq({})
      BY DEF Init, NodeInit, Registry!Init
    <2>2. facts = [k \in Registry!FactKeys |-> Registry!EmptyFact]
      BY DEF Init, NodeInit, Registry!Init
    <2>3. ~Registry!EmptyFact.exists
      BY DEF Registry!EmptyFact
    <2> QED
      BY <2>1, <2>2, <2>3 DEF StorageKeyed, IsSeq
  <1>3. ASSUME NEW p \in Procs PROVE CommandKnown(p) /\ command[p] # flow
    BY DEF Init, CommandKnown, flow
  <1> QED
    BY <1>1, <1>2, <1>3 DEF FlowInv

\* An executed transaction takes nothing off the record, and adds its own
\* call to it if the contract accepts that.
LEMMA ExecuteStorage ==
  ASSUME StorageKeyed, NEW tx, tx.call \in Calls, Execute(tx)
  PROVE  /\ StorageKeyed'
         /\ \A account : \A package_ \in Packages :
               OnRecord(account, package_) => OnRecord(account, package_)'
         /\ \A package_ \in Packages :
               Succeeds(tx) /\ tx.call = CallOf(package_) => OnRecord(tx.from, package_)'
  <1> DEFINE new == Registry!NewFact(tx.call, tx.from, timestamp)
             k == Registry!KeyOf(tx.call)
             L == Len(accepted)
  <1>1. CASE Registry!SubmitVerifiedFact(tx.from, tx.call)
    <2>1. accepted' = Append(accepted, new) /\ facts' = [facts EXCEPT ![k] = new]
      BY <1>1 DEF Registry!SubmitVerifiedFact
    <2>2. /\ IsSeq(accepted') /\ L \in Nat
          /\ DOMAIN accepted = 1..L /\ DOMAIN accepted' = 1..(L + 1)
          /\ \A i \in 1..L : accepted'[i] = accepted[i]
          /\ accepted'[L + 1] = new
      BY <2>1, AppendIs DEF StorageKeyed
    <2>3. k \in Registry!FactKeys
      BY DEF Registry!FactKeys
    <2>4. /\ new.exists /\ Registry!KeyOf(new) = k
          /\ new.nullifier = tx.call.nullifier /\ new.submitter = tx.from
      BY DEF Registry!NewFact, Registry!KeyOf, Registry!FactKey
    <2>5. /\ DOMAIN facts' = Registry!FactKeys
          /\ facts'[k] = new
          /\ \A other \in Registry!FactKeys : other # k => facts'[other] = facts[other]
      BY <2>1, <2>3 DEF StorageKeyed
    <2>6. StorageKeyed'
      BY <2>2, <2>4, <2>5 DEF StorageKeyed
    <2>7. ASSUME NEW account, NEW package_ \in Packages, OnRecord(account, package_)
          PROVE  OnRecord(account, package_)'
      <3>1. KeyOfPackage(package_) \in Registry!FactKeys
        BY HolderFlowAssumption DEF KeyOfPackage, Registry!FactKeys
      <3>2. facts'[KeyOfPackage(package_)].exists
        BY <2>4, <2>5, <2>7, <3>1 DEF OnRecord
      <3>3. PICK i \in 1..L : /\ accepted[i].nullifier = package_.nullifier
                              /\ accepted[i].submitter = account
        BY <2>2, <2>7 DEF OnRecord
      <3>4. i \in DOMAIN accepted' /\ accepted'[i] = accepted[i]
        BY <2>2
      <3> QED
        BY <3>2, <3>3, <3>4 DEF OnRecord
    <2>8. ASSUME NEW package_ \in Packages, tx.call = CallOf(package_)
          PROVE  OnRecord(tx.from, package_)'
      <3>1. tx.call.nullifier = package_.nullifier
        BY <2>8 DEF CallOf
      <3>2. KeyOfPackage(package_) = k
        BY <2>8 DEF KeyOfPackage
      <3>3. /\ L + 1 \in DOMAIN accepted'
            /\ accepted'[L + 1].nullifier = package_.nullifier
            /\ accepted'[L + 1].submitter = tx.from
        BY <2>2, <2>4, <3>1
      <3> QED
        BY <2>4, <2>5, <3>2, <3>3 DEF OnRecord
    <2> QED
      BY <2>6, <2>7, <2>8
  <1>2. CASE ~Succeeds(tx) /\ UNCHANGED registryVars
    BY <1>2 DEF StorageKeyed, OnRecord, registryVars
  <1> QED
    BY <1>1, <1>2 DEF Execute

\* A step of others, or of the node, leaves a flow as far as it was.
LEMMA ProgressKept ==
  ASSUME FlowInv, NEW q \in Procs,
         phase'[q] = phase[q], command'[q] = command[q], made'[q] = made[q],
         pkg'[q] = pkg[q], key'[q] = key[q], result'[q] = result[q],
         command[q] = flow => package'[Cwd[q]] = package[Cwd[q]],
         \A account : \A package_ \in Packages :
            OnRecord(account, package_) => OnRecord(account, package_)'
  PROVE  CommandKnown(q)' /\ (command'[q] = flow => Progress(q)')
  <1>1. CommandKnown(q)'
    BY DEF FlowInv, CommandKnown
  <1>2. ASSUME command'[q] = flow PROVE Progress(q)'
    <2>1. Progress(q)
      BY <1>2 DEF FlowInv
    <2>2. PICK package_ : package_ = made[q]
      OBVIOUS
    <2>3. phase[q] \in {"reread", "lookup", "done"} => OnRecord(Account[q], package_)'
      BY <2>1, <2>2 DEF Progress
    <2>4. made'[q] = package_
      BY <2>2
    <2>5. phase[q] \in {"reread", "lookup", "done"} => OnRecord(Account[q], made[q])'
      BY <2>3, <2>4 DEF OnRecord
    <2> QED
      BY <1>2, <2>1, <2>5 DEF Progress
  <1> QED
    BY <1>1, <1>2

\* The same, with the flow of the process that takes the step.
LEMMA FlowStep ==
  ASSUME FlowInv, NEW p \in Procs,
         Domains', PackagesTyped', StorageKeyed',
         \A q \in Procs : q # p =>
            /\ phase'[q] = phase[q] /\ command'[q] = command[q] /\ made'[q] = made[q]
            /\ pkg'[q] = pkg[q] /\ key'[q] = key[q] /\ result'[q] = result[q]
            /\ command[q] = flow => package'[Cwd[q]] = package[Cwd[q]],
         \A account : \A package_ \in Packages :
            OnRecord(account, package_) => OnRecord(account, package_)',
         CommandKnown(p)', command'[p] = flow => Progress(p)'
  PROVE  FlowInv'
  <1>1. ASSUME NEW q \in Procs PROVE CommandKnown(q)' /\ (command'[q] = flow => Progress(q)')
    <2>1. CASE q = p
      BY <2>1
    <2>2. CASE q # p
      BY <2>2, ProgressKept
    <2> QED
      BY <2>1, <2>2
  <1> QED
    BY <1>1 DEF FlowInv

\* A step that leaves the contract alone keeps what is on record.
LEMMA IdleStorage ==
  ASSUME StorageKeyed, UNCHANGED <<facts, accepted>>
  PROVE  /\ StorageKeyed'
         /\ \A account : \A package_ \in Packages :
               OnRecord(account, package_) => OnRecord(account, package_)'
  BY DEF StorageKeyed, OnRecord

\* The typing part of FlowInv is that of IInv.
LEMMA TypedKept ==
  ASSUME FlowInv, IInv, [Next]_vars
  PROVE  Domains' /\ PackagesTyped'
  BY NextIInv DEF IInv

\* A process that writes proof_package.json runs a flow, so no other flow
\* reads it.
LEMMA NobodyElse ==
  ASSUME ExclusiveCwds, FlowInv, NEW p \in Procs, phase[p] \in {"prove", "save"},
         NEW q \in Procs, q # p, command[q] = flow
  PROVE  Cwd[q] # Cwd[p]
  <1>1. flow \in CommandsOf[p] /\ flow \in CommandsOf[q]
    BY DEF FlowInv, CommandKnown, flow
  <1> QED
    BY <1>1 DEF ExclusiveCwds

LEMMA FlowWork ==
  ASSUME AutoMine, ExclusiveCwds, FlowInv, IInv, Work
  PROVE  FlowInv'
  <1> Domains' /\ PackagesTyped'
    BY TypedKept DEF Next
  <1> USE DEF Domains
  <1>0. Domains /\ PackagesTyped /\ StorageKeyed
    BY DEF FlowInv
  <1>1. ASSUME NEW p \in Procs, NEW c \in CommandsOf[p], Start(p, c) PROVE FlowInv'
    <2>1. c \in Commands
      BY HolderFlowAssumption
    <2>2. /\ c = flow => FirstPhase[c] = "prove"
          /\ c # flow => FirstPhase[c] \in {"read", "lookup"}
      BY <2>1 DEF FirstPhase, Commands, flow
    <2>3. command'[p] = c /\ phase'[p] = FirstPhase[c]
      BY <1>0, <1>1 DEF Start, Goto
    <2>4. CommandKnown(p)' /\ (command'[p] = flow => Progress(p)')
      BY <2>2, <2>3 DEF CommandKnown, Progress
    <2> QED
      BY <1>0, <1>1, <2>4, FlowStep, IdleStorage DEF Start, Goto, nodeVars, registryVars
  <1>2. ASSUME NEW p \in Procs, Prove(p) PROVE FlowInv'
    <2>1. Cwd[p] \in Cwds
      BY DEF Cwds
    <2>2. PICK package_ \in PackagesOf[p] : made' = [made EXCEPT ![p] = package_]
      BY <1>2 DEF Prove
    <2>3. made'[p] \in Packages
      BY <1>0, <2>2 DEF Packages
    <2>4. CommandKnown(p)' /\ Progress(p)'
      BY <1>0, <1>2, <2>1, <2>3 DEF FlowInv, CommandKnown, Progress, Prove, Goto
    <2>5. \A q \in Procs : q # p /\ command[q] = flow => package'[Cwd[q]] = package[Cwd[q]]
      BY <1>0, <1>2, NobodyElse DEF Prove
    <2> QED
      BY <1>0, <1>2, <2>2, <2>4, <2>5, FlowStep, IdleStorage DEF Prove, Goto, nodeVars, registryVars
  <1>3. ASSUME NEW p \in Procs, SavePackage(p) PROVE FlowInv'
    <2>1. Cwd[p] \in Cwds
      BY DEF Cwds
    <2>2. Progress(p) /\ command[p] = flow
      BY <1>3 DEF FlowInv, CommandKnown, SavePackage
    <2>3. package[Cwd[p]] = Torn
      BY <1>3, <2>2 DEF Progress, SavePackage
    <2>4. package' = [package EXCEPT ![Cwd[p]] = made[p]]
      BY <1>3, <2>3 DEF SavePackage
    <2>5. CommandKnown(p)' /\ Progress(p)'
      BY <1>0, <1>3, <2>1, <2>2, <2>4 DEF FlowInv, CommandKnown, Progress, SavePackage, Goto, local
    <2>6. \A q \in Procs : q # p /\ command[q] = flow => package'[Cwd[q]] = package[Cwd[q]]
      BY <1>0, <1>3, <2>4, NobodyElse DEF SavePackage
    <2> QED
      BY <1>0, <1>3, <2>5, <2>6, FlowStep, IdleStorage
      DEF SavePackage, Goto, local, nodeVars, registryVars
  <1>4. ASSUME NEW p \in Procs, ReadPackage(p) PROVE FlowInv'
    <2>1. CommandKnown(p)' /\ (command'[p] = flow => Progress(p)')
      BY <1>0, <1>4 DEF FlowInv, CommandKnown, Progress, ReadPackage, Goto
    <2> QED
      BY <1>0, <1>4, <2>1, FlowStep, IdleStorage DEF ReadPackage, Goto, nodeVars, registryVars
  <1>5. ASSUME NEW p \in Procs, GetNonce(p) PROVE FlowInv'
    <2>1. CommandKnown(p)' /\ (command'[p] = flow => Progress(p)')
      BY <1>0, <1>5 DEF FlowInv, CommandKnown, Progress, GetNonce, Goto
    <2> QED
      BY <1>0, <1>5, <2>1, FlowStep, IdleStorage DEF GetNonce, Goto, nodeVars, registryVars
  <1>6. ASSUME NEW p \in Procs, SendAndExecute(p) PROVE FlowInv'
    <2>0. PICK tx : tx = SignedTx(p)
      OBVIOUS
    <2>1. Execute(tx) /\ tx.call \in Calls
      BY <1>0, <1>6, <2>0, SignedCall, ClientCallsKnown DEF SendAndExecute, ExecutedAtOnce
    <2>2. /\ StorageKeyed'
          /\ \A account : \A package_ \in Packages :
                OnRecord(account, package_) => OnRecord(account, package_)'
          /\ \A package_ \in Packages :
                Succeeds(tx) /\ tx.call = CallOf(package_) => OnRecord(tx.from, package_)'
      BY <1>0, <2>1, ExecuteStorage
    <2>3. /\ phase'[p] = IF Succeeds(tx) THEN Submitted(p) ELSE "failed"
          /\ UNCHANGED <<local, package>>
      BY <1>0, <1>6, <2>0 DEF SendAndExecute, Goto
    <2>4. CommandKnown(p)'
      BY <2>3 DEF FlowInv, CommandKnown, Submitted, local
    <2>5. ASSUME command'[p] = flow, phase'[p] # "failed" PROVE Progress(p)'
      <3>1. Progress(p) /\ command[p] = flow
        BY <2>3, <2>5 DEF FlowInv, local
      <3>2. PICK package_ \in Packages : package_ = made[p] /\ package_ = pkg[p]
        BY <1>6, <3>1 DEF Progress, SendAndExecute
      <3>3. phase'[p] = "reread" /\ Succeeds(tx) /\ tx.call = CallOf(package_)
        BY <2>0, <2>3, <2>5, <3>1, <3>2 DEF Submitted, flow, SignedTx
      <3>4. tx.from = Account[p]
        BY <2>0 DEF SignedTx
      <3>5. OnRecord(Account[p], package_)'
        BY <2>2, <3>3, <3>4
      <3>6. made'[p] = package_ /\ package'[Cwd[p]] = package_
        BY <1>6, <2>3, <3>1, <3>2 DEF Progress, local, SendAndExecute
      <3>7. OnRecord(Account[p], made[p])'
        BY <3>5, <3>6 DEF OnRecord
      <3> QED
        BY <3>3, <3>6, <3>7 DEF Progress
    <2>6. command'[p] = flow => Progress(p)'
      <3>1. CASE phase'[p] = "failed"
        BY <3>1 DEF Progress
      <3> QED
        BY <2>5, <3>1
    <2> QED
      BY <1>0, <1>6, <2>2, <2>3, <2>4, <2>6, FlowStep DEF SendAndExecute, Goto, local
  <1>7. ASSUME NEW p \in Procs, SendToPool(p) PROVE FlowInv'
    BY <1>7 DEF SendToPool, TakenIn
  <1>8. ASSUME NEW p \in Procs, SendRejected(p) \/ ReadFails(p) \/ LookupFails(p) \/ Abort(p) PROVE FlowInv'
    <2>1. Goto(p, "failed") /\ UNCHANGED <<nodeVars, local, package>>
      BY <1>8 DEF SendRejected, Rejected, ReadFails, LookupFails, Abort
    <2>2. CommandKnown(p)' /\ (command'[p] = flow => Progress(p)')
      BY <1>0, <2>1 DEF FlowInv, CommandKnown, Progress, Goto, local
    <2> QED
      BY <1>0, <2>1, <2>2, FlowStep, IdleStorage DEF Goto, local, nodeVars, registryVars
  <1>9. ASSUME NEW p \in Procs, RereadPackage(p) PROVE FlowInv'
    <2>1. /\ key'[p] = KeyOfPackage(package[Cwd[p]]) /\ phase'[p] = "lookup" /\ phase[p] = "reread"
          /\ UNCHANGED <<command, made, facts, accepted>>
      BY <1>0, <1>9 DEF RereadPackage, Goto, nodeVars, registryVars
    <2>2. CommandKnown(p)'
      BY <2>1 DEF FlowInv, CommandKnown
    <2>3. command'[p] = flow => Progress(p)'
      BY <2>1 DEF FlowInv, Progress, OnRecord
    <2> QED
      BY <1>0, <1>9, <2>2, <2>3, FlowStep, IdleStorage DEF RereadPackage, Goto, nodeVars, registryVars
  <1>10. ASSUME NEW p \in Procs, Lookup(p) PROVE FlowInv'
    <2>1. /\ result'[p] = Registry!GetFact(key[p]) /\ phase'[p] = "done" /\ phase[p] = "lookup"
          /\ UNCHANGED <<command, made, key, facts, accepted>>
      BY <1>0, <1>10 DEF Lookup, Goto, nodeVars, registryVars
    <2>2. CommandKnown(p)'
      BY <2>1 DEF FlowInv, CommandKnown
    <2>3. ASSUME command'[p] = flow PROVE Progress(p)'
      <3>1. Progress(p)
        BY <2>1, <2>3 DEF FlowInv
      <3>2. /\ made[p] \in Packages /\ key[p] = KeyOfPackage(made[p])
            /\ OnRecord(Account[p], made[p])
        BY <2>1, <3>1 DEF Progress
      <3>3. key[p] \in Registry!FactKeys
        BY <3>2, HolderFlowAssumption DEF KeyOfPackage, Registry!FactKeys
      <3>4. result'[p] = facts[key[p]] /\ facts[key[p]].exists
        BY <2>1, <3>2, <3>3 DEF Registry!GetFact, OnRecord
      <3>5. Registry!KeyOf(facts[key[p]]) = key[p]
        BY <1>0, <3>3, <3>4 DEF StorageKeyed
      <3>6. OnRecord(Account[p], made[p])'
        BY <2>1, <3>2 DEF OnRecord
      <3> QED
        BY <2>1, <3>2, <3>4, <3>5, <3>6 DEF Progress
    <2> QED
      BY <1>0, <1>10, <2>2, <2>3, FlowStep, IdleStorage DEF Lookup, Goto, nodeVars, registryVars
  <1> QED
    BY <1>1, <1>2, <1>3, <1>4, <1>5, <1>6, <1>7, <1>8, <1>9, <1>10 DEF Work, Step, Send

\* A step that no process takes.
LEMMA FlowIdle ==
  ASSUME FlowInv, IInv, [Next]_vars, UNCHANGED <<phase, local, package>>, StorageKeyed',
         \A account : \A package_ \in Packages :
            OnRecord(account, package_) => OnRecord(account, package_)'
  PROVE  FlowInv'
  <1>1. Domains' /\ PackagesTyped'
    BY TypedKept
  <1>2. \A q \in Procs : CommandKnown(q)' /\ (command'[q] = flow => Progress(q)')
    BY ProgressKept DEF local
  <1> QED
    BY <1>1, <1>2 DEF FlowInv

LEMMA FlowNext ==
  ASSUME AutoMine, ExclusiveCwds, FlowInv, IInv, [Next]_vars
  PROVE  FlowInv'
  <1>0. StorageKeyed /\ PackagesTyped
    BY DEF FlowInv
  <1>1. CASE Work
    BY <1>1, FlowWork
  <1>2. CASE Node /\ Mine
    <2>1. PICK tx \in pool : Execute(tx)
      BY <1>2 DEF Mine
    <2>2. tx.call \in Calls
      BY <1>0, ClientCallsKnown DEF PackagesTyped
    <2> QED
      BY <1>0, <1>2, <2>1, <2>2, ExecuteStorage, FlowIdle DEF Node
  <1>3. CASE Node /\ (NextBlock \/ Evict)
    BY <1>0, <1>3, IdleStorage, FlowIdle
    DEF Node, NextBlock, Evict, Registry!NextBlock, registryVars
  <1>4. CASE UNCHANGED vars
    BY <1>0, <1>4, IdleStorage, FlowIdle DEF vars, nodeVars, registryVars
  <1> QED
    BY <1>1, <1>2, <1>3, <1>4 DEF Next, Node

\* verify-service-flow (main.go) keeps its promise when the node mines at once
\* and no other process proves into its directory, whatever other accounts,
\* shells and crashes there are.
THEOREM FlowOnRecord ==
  ASSUME AutoMine, ExclusiveCwds
  PROVE  Spec => []FlowComplete
  <1>1. Init => IInv /\ FlowInv
    BY InitIInv, FlowInvInit
  <1>2. IInv /\ FlowInv /\ [Next]_vars => (IInv /\ FlowInv)'
    BY NextIInv, FlowNext
  <1>3. FlowInv => FlowComplete
    BY DEF FlowInv, Progress, OnRecord, FlowComplete, flow
  <1> QED
    BY <1>1, <1>2, <1>3, PTL DEF Spec

-----------------------------------------------------------------------------

(***************************************************************************)
(* On any node, what was reported as submitted is not stuck: unless the    *)
(* pool lost one of an account's transactions, those it holds follow on    *)
(* from one another, and a process that has a nonce and did not send yet   *)
(* finds every nonce before its own taken.                                 *)
(***************************************************************************)

ViableCalls == {call \in Calls : Viable(call, GasLimit)}

PoolTyped ==
    /\ accountNonce \in [Addresses -> Nat]
    /\ usedNullifiers \in [Registry!Nullifiers -> BOOLEAN]
    /\ \A tx \in pool : /\ tx.from \in Addresses /\ tx.nonce \in Nat
                       /\ tx.call \in Calls /\ tx.gas = GasLimit
    /\ \A a \in Addresses : IsFiniteSet(PooledNonces(a))
    /\ \A tx, other \in pool : SameSlot(tx, other) => tx = other
    /\ AutoMine => pool = {}

GapFree(a) == a \notin dropped => \A tx \in pool : tx.from = a => InTurn(a, tx)

PoolInv == PoolTyped /\ \A a \in Addresses : GapFree(a)

\* The account may send its transaction n: those before it are sent.
Ready(a, n) ==
    a \notin dropped =>
        \A m \in Nat : accountNonce[a] <= m /\ m < n => m \in PooledNonces(a)

\* What SubmittedIsPending promises of a call.
Settled(a, call) ==
    \/ usedNullifiers[call.nullifier]
    \/ a \in dropped
    \/ \E tx \in pool : InTurn(a, tx) /\ tx.call = call

\* A step of the node that breaks no promise.
KeepsPromises ==
    /\ PoolInv'
    /\ \A a \in Addresses : \A n \in Nat : Ready(a, n) => Ready(a, n)'
    /\ \A a \in Addresses : \A call \in ViableCalls : Settled(a, call) => Settled(a, call)'

\* A set of numbers has a least one.
LEMMA LeastOf ==
  ASSUME NEW T, T \subseteq Nat, T # {}
  PROVE  \E m \in T : \A n \in T : m <= n
  <1> DEFINE R == {ss \in Nat \X Nat : ss[1] < ss[2]}
  <1>1. IsWellFoundedOn(R, Nat)
    BY NatLessThanWellFounded DEF OpToRel
  <1>2. PICK m \in T : \A n \in T : ~(<<n, m>> \in R)
    BY <1>1, WFMin
  <1>3. ASSUME NEW n \in T PROVE m <= n
    <2>1. ~(n < m)
      BY <1>2
    <2> QED
      BY <2>1
  <1> QED
    BY <1>3

\* PendingNonceAt is the first nonce that no transaction of the pool takes.
LEMMA PendingNonce ==
  ASSUME PoolTyped, NEW a \in Addresses
  PROVE  /\ PendingNonceAt(a) \in Nat /\ accountNonce[a] <= PendingNonceAt(a)
         /\ PendingNonceAt(a) \notin PooledNonces(a)
         /\ \A m \in Nat : accountNonce[a] <= m /\ m < PendingNonceAt(a) => m \in PooledNonces(a)
  <1> DEFINE taken == PooledNonces(a)
             first == accountNonce[a]
             size == Cardinality(taken)
             next == first..(first + size)
  <1>1. IsFiniteSet(taken) /\ first \in Nat
    BY DEF PoolTyped
  <1>2. size \in Nat
    BY <1>1, FS_CardinalityType
  <1> HIDE DEF taken, first, size
  <1>3. Cardinality(next) = size + 1
    <2>1. ~(first > first + size) /\ (first + size) - first + 1 = size + 1
      BY <1>1, <1>2
    <2> QED
      BY <1>1, <1>2, <2>1, FS_Interval
  <1>4. next \ taken # {}
    <2> SUFFICES ASSUME next \subseteq taken PROVE FALSE
      OBVIOUS
    <2>1. Cardinality(next) <= size
      BY <1>1, FS_Subset DEF size
    <2> QED
      BY <1>2, <1>3, <2>1
  <1>5. PICK m \in next \ taken : \A n \in next \ taken : m <= n
    <2>1. next \ taken \subseteq Nat
      BY <1>1, <1>2
    <2> QED
      BY <1>4, <2>1, LeastOf
  <1>6. \A n \in next : n < m => n \in taken
    BY <1>1, <1>2, <1>5
  <1> DEFINE IsFirst(n) == n \notin taken /\ \A k \in next : k < n => k \in taken
             chosen == CHOOSE n \in next : IsFirst(n)
  <1>7. PendingNonceAt(a) = chosen
    BY DEF PendingNonceAt, taken, first, size
  <1>8. chosen \in next /\ IsFirst(chosen)
    BY <1>5, <1>6
  <1> HIDE DEF chosen
  <1>9. chosen \in Nat /\ first <= chosen /\ chosen <= first + size
    BY <1>1, <1>2, <1>8
  <1>10. ASSUME NEW k \in Nat, first <= k, k < chosen PROVE k \in taken
    <2>1. k \in next
      BY <1>1, <1>2, <1>9, <1>10
    <2> QED
      BY <1>8, <1>10, <2>1
  <1> QED
    BY <1>7, <1>8, <1>9, <1>10 DEF taken, first

-----------------------------------------------------------------------------

\* A step that leaves the node alone, but for the time of its block.
LEMMA IdlePromises ==
  ASSUME PoolInv, UNCHANGED <<usedNullifiers, pool, accountNonce, dropped>>
  PROVE  KeepsPromises
  BY DEF KeepsPromises, PoolInv, PoolTyped, GapFree, Ready, Settled, InTurn, PooledNonces

\* A transaction executed in its turn makes place for the next, and records its
\* nullifier, if it is not recorded yet.
LEMMA ExecutePromises ==
  ASSUME PoolInv, NEW tx0, tx0.from \in Addresses, tx0.nonce \in Nat,
         tx0.call \in Calls, tx0.gas = GasLimit, tx0 \in pool \/ pool = {}, Execute(tx0), pool' = pool \ {tx0}, dropped' = dropped
  PROVE  /\ KeepsPromises
         /\ tx0.call \in ViableCalls => usedNullifiers'[tx0.call.nullifier]
  <1> DEFINE a0 == tx0.from
             n0 == tx0.nonce
             null0 == tx0.call.nullifier
  <1> USE DEF PoolInv
  <1>1. /\ n0 = accountNonce[a0] /\ accountNonce' \in [Addresses -> Nat]
        /\ accountNonce'[a0] = n0 + 1
        /\ \A a \in Addresses : a # a0 => accountNonce'[a] = accountNonce[a]
        /\ \A a \in Addresses : accountNonce[a] \in Nat
    BY DEF Execute, PoolTyped
  <1>2. \A a : PooledNonces(a)' \subseteq PooledNonces(a)
    BY DEF PooledNonces
  <1>3. \A a : \A m \in PooledNonces(a) : (a = a0 /\ m = n0) \/ m \in PooledNonces(a)'
    BY DEF PooledNonces
  <1>4. \A tx \in pool' : ~(tx.from = a0 /\ tx.nonce = n0)
    BY DEF PoolTyped, SameSlot
  <1>5. null0 \in Registry!Nullifiers
    BY DEF Registry!Nullifiers
  <1>6. /\ usedNullifiers' \in [Registry!Nullifiers -> BOOLEAN]
        /\ tx0.call \in ViableCalls => usedNullifiers'[null0]
        /\ \A nullifier \in Registry!Nullifiers :
              usedNullifiers[nullifier] => usedNullifiers'[nullifier]
    <2>1. CASE Registry!SubmitVerifiedFact(tx0.from, tx0.call)
      BY <1>5, <2>1 DEF PoolTyped, Registry!SubmitVerifiedFact
    <2>2. CASE ~Succeeds(tx0) /\ UNCHANGED registryVars
      BY <1>5, <2>2 DEF PoolTyped, ViableCalls, Viable, Succeeds, Registry!Accepts, registryVars
    <2> QED
      BY <2>1, <2>2 DEF Execute
  <1>7. ASSUME NEW a \in Addresses, NEW tx \in pool', InTurn(a, tx) PROVE InTurn(a, tx)'
    <2>1. tx \in pool /\ tx.from = a /\ tx.nonce \in Nat
      BY <1>7 DEF InTurn, PoolTyped
    <2>2. accountNonce'[a] <= tx.nonce
      BY <1>1, <1>4, <1>7, <2>1 DEF InTurn
    <2>3. ASSUME NEW m \in accountNonce'[a]..tx.nonce PROVE m \in PooledNonces(a)'
      <3>1. m \in accountNonce[a]..tx.nonce /\ ~(a = a0 /\ m = n0)
        BY <1>1, <2>1
      <3> QED
        BY <1>3, <1>7, <3>1 DEF InTurn
    <2> QED
      BY <2>1, <2>2, <2>3 DEF InTurn
  <1>8. PoolTyped'
    <2>1. \A a \in Addresses : IsFiniteSet(PooledNonces(a)')
      BY <1>2, FS_Subset DEF PoolTyped
    <2> QED
      BY <1>1, <1>6, <2>1 DEF PoolTyped, SameSlot
  <1>9. \A a \in Addresses : GapFree(a)'
    BY <1>7 DEF GapFree
  <1>10. ASSUME NEW a \in Addresses, NEW n \in Nat, Ready(a, n) PROVE Ready(a, n)'
    <2> SUFFICES ASSUME a \notin dropped, NEW m \in Nat, accountNonce'[a] <= m, m < n
                 PROVE  m \in PooledNonces(a)'
      BY DEF Ready
    <2>1. accountNonce[a] <= m /\ ~(a = a0 /\ m = n0)
      BY <1>1
    <2> QED
      BY <1>3, <1>10, <2>1 DEF Ready
  <1>11. ASSUME NEW a \in Addresses, NEW call \in ViableCalls, Settled(a, call)
         PROVE  Settled(a, call)'
    <2>1. CASE usedNullifiers[call.nullifier] \/ a \in dropped
      <3>1. call.nullifier \in Registry!Nullifiers
        BY DEF ViableCalls, Registry!Nullifiers
      <3> QED
        BY <1>6, <2>1, <3>1 DEF Settled
    <2>2. CASE \E tx \in pool : InTurn(a, tx) /\ tx.call = call
      <3>1. PICK tx \in pool : InTurn(a, tx) /\ tx.call = call
        BY <2>2
      <3>2. CASE tx = tx0
        BY <1>6, <3>1, <3>2 DEF Settled
      <3>3. CASE tx # tx0
        BY <1>7, <3>1, <3>3 DEF Settled
      <3> QED
        BY <3>2, <3>3
    <2> QED
      BY <1>11, <2>1, <2>2 DEF Settled
  <1> QED
    BY <1>6, <1>8, <1>9, <1>10, <1>11 DEF KeepsPromises

\* A transaction that the pool takes in with a nonce of PendingNonceAt is in
\* turn, and takes nobody's place without the loss being noticed.
LEMMA TakenInPromises ==
  ASSUME PoolInv, NEW tx0, tx0.from \in Addresses, tx0.nonce \in Nat,
         tx0.call \in Calls, tx0.gas = GasLimit,
         Ready(tx0.from, tx0.nonce), TakenIn(tx0)
  PROVE  KeepsPromises /\ Settled(tx0.from, tx0.call)'
  <1> DEFINE a0 == tx0.from
             n0 == tx0.nonce
  <1> USE DEF PoolInv
  <1>1. /\ ~AutoMine /\ accountNonce[a0] <= n0
        /\ pool' = {other \in pool : ~SameSlot(tx0, other)} \cup {tx0}
        /\ dropped' = dropped \cup {lost.from : lost \in pool \ pool'}
        /\ accountNonce' = accountNonce /\ usedNullifiers' = usedNullifiers
    BY DEF TakenIn, registryVars
  <1>2. \A a : PooledNonces(a) \subseteq PooledNonces(a)'
    BY <1>1 DEF PooledNonces, SameSlot
  <1>3. \A a : PooledNonces(a)' \subseteq PooledNonces(a) \cup {n0}
    BY <1>1 DEF PooledNonces
  <1>4. n0 \in PooledNonces(a0)'
    BY <1>1 DEF PooledNonces
  <1>5. \A a : \A tx \in pool : InTurn(a, tx) => InTurn(a, tx)' \/ a \in dropped'
    BY <1>1, <1>2 DEF InTurn
  <1>6. a0 \notin dropped => InTurn(a0, tx0)'
    <2> SUFFICES ASSUME a0 \notin dropped, NEW m \in accountNonce[a0]..n0
                 PROVE  m \in PooledNonces(a0)'
      BY <1>1 DEF InTurn
    <2>1. m \in Nat /\ accountNonce[a0] <= m /\ (m < n0 \/ m = n0)
      BY DEF PoolTyped
    <2> QED
      BY <1>2, <1>4, <2>1 DEF Ready
  <1>7. PoolTyped'
    <2>1. ASSUME NEW a \in Addresses PROVE IsFiniteSet(PooledNonces(a)')
      <3>1. PICK taken : taken = PooledNonces(a) \cup {n0}
        OBVIOUS
      <3>2. IsFiniteSet(taken)
        BY <3>1, FS_AddElement DEF PoolTyped
      <3> QED
        BY <1>3, <3>1, <3>2, FS_Subset
    <2>2. \A tx, other \in pool' : SameSlot(tx, other) => tx = other
      BY <1>1 DEF PoolTyped, SameSlot
    <2>3. \A tx \in pool' : /\ tx.from \in Addresses /\ tx.nonce \in Nat
                           /\ tx.call \in Calls /\ tx.gas = GasLimit
      BY <1>1 DEF PoolTyped
    <2> QED
      BY <1>1, <2>1, <2>2, <2>3 DEF PoolTyped
  <1>8. ASSUME NEW a \in Addresses PROVE GapFree(a)'
    <2> SUFFICES ASSUME a \notin dropped', NEW tx \in pool', tx.from = a
                 PROVE  InTurn(a, tx)'
      BY DEF GapFree
    <2>1. CASE tx = tx0
      BY <1>1, <1>6, <2>1
    <2>2. CASE tx # tx0
      BY <1>1, <1>5, <2>2 DEF GapFree
    <2> QED
      BY <2>1, <2>2
  <1>9. \A a \in Addresses : \A n \in Nat : Ready(a, n) => Ready(a, n)'
    BY <1>1, <1>2 DEF Ready
  <1>10. \A a \in Addresses : \A call \in ViableCalls : Settled(a, call) => Settled(a, call)'
    <2> SUFFICES ASSUME NEW a \in Addresses, NEW call, Settled(a, call),
                        a \notin dropped', ~usedNullifiers[call.nullifier]
                 PROVE  Settled(a, call)'
      BY <1>1 DEF Settled
    <2>1. PICK tx \in pool : InTurn(a, tx) /\ tx.call = call
      BY <1>1 DEF Settled
    <2>2. InTurn(a, tx)'
      BY <1>5, <2>1
    <2> QED
      BY <2>1, <2>2 DEF Settled, InTurn
  <1>11. Settled(a0, tx0.call)'
    <2>1. CASE a0 \in dropped
      BY <1>1, <2>1 DEF Settled
    <2>2. CASE a0 \notin dropped
      BY <1>1, <1>6, <2>2 DEF Settled
    <2> QED
      BY <2>1, <2>2
  <1> QED
    BY <1>7, <1>8, <1>9, <1>10, <1>11 DEF KeepsPromises

\* An account whose transaction is evicted is promised nothing any more.
LEMMA EvictPromises ==
  ASSUME PoolInv, Evict PROVE KeepsPromises
  <1> USE DEF PoolInv
  <1>1. PICK tx0 \in pool : pool' = pool \ {tx0} /\ dropped' = dropped \cup {tx0.from}
    BY DEF Evict
  <1>2. accountNonce' = accountNonce /\ usedNullifiers' = usedNullifiers
    BY DEF Evict, registryVars
  <1>3. \A a : a # tx0.from => PooledNonces(a)' = PooledNonces(a)
    BY <1>1 DEF PooledNonces
  <1>4. \A a : PooledNonces(a)' \subseteq PooledNonces(a)
    BY <1>1 DEF PooledNonces
  <1>5. \A a : a # tx0.from => \A tx \in pool : InTurn(a, tx) => InTurn(a, tx)'
    BY <1>1, <1>2, <1>3 DEF InTurn
  <1>6. PoolTyped'
    <2>1. \A a \in Addresses : IsFiniteSet(PooledNonces(a)')
      BY <1>4, FS_Subset DEF PoolTyped
    <2> QED
      BY <1>1, <1>2, <2>1 DEF PoolTyped, SameSlot
  <1>7. \A a \in Addresses : GapFree(a)'
    BY <1>1, <1>5 DEF GapFree
  <1>8. \A a \in Addresses : \A n \in Nat : Ready(a, n) => Ready(a, n)'
    BY <1>1, <1>2, <1>3 DEF Ready
  <1>9. \A a \in Addresses : \A call \in ViableCalls : Settled(a, call) => Settled(a, call)'
    <2> SUFFICES ASSUME NEW a \in Addresses, NEW call, Settled(a, call),
                        a \notin dropped', ~usedNullifiers[call.nullifier]
                 PROVE  Settled(a, call)'
      BY <1>2 DEF Settled
    <2>1. PICK tx \in pool : InTurn(a, tx) /\ tx.call = call
      BY <1>1 DEF Settled
    <2>2. InTurn(a, tx)'
      BY <1>1, <1>5, <2>1
    <2> QED
      BY <2>1, <2>2 DEF Settled, InTurn
  <1> QED
    BY <1>6, <1>7, <1>8, <1>9 DEF KeepsPromises

-----------------------------------------------------------------------------

\* A process that is about to send has its nonce.
Holding(p) ==
    /\ phase[p] = "send" =>
          /\ nonce[p] \in Nat
          /\ \A n \in Nat : nonce[p] = n => Ready(Account[p], n)
    /\ phase[p] \in {"reread", "lookup"} => command[p] # "submit-fact"

Promised(p) ==
    \A package_ \in ViablePackages :
        ReportedSubmitted(p, package_) => Settled(Account[p], CallOf(package_))

PendingInv == PoolInv /\ \A p \in Procs : Holding(p) /\ Promised(p)

LEMMA PackageCall ==
  ASSUME NEW package_ \in ViablePackages PROVE CallOf(package_) \in ViableCalls
  BY HolderFlowAssumption DEF ViablePackages, ViableCalls

\* A step that breaks no promise breaks none of those made to a process that
\* does not take it.
LEMMA PromisesKept ==
  ASSUME KeepsPromises, NEW q \in Procs, Holding(q), Promised(q),
         phase'[q] = phase[q], command'[q] = command[q],
         pkg'[q] = pkg[q], nonce'[q] = nonce[q]
  PROVE  Holding(q)' /\ Promised(q)'
  <1>1. Account[q] \in Addresses
    BY HolderFlowAssumption
  <1>2. Holding(q)'
    BY <1>1 DEF Holding, KeepsPromises
  <1>3. Promised(q)'
    BY <1>1, PackageCall DEF Promised, KeepsPromises, ReportedSubmitted
  <1> QED
    BY <1>2, <1>3

\* The same, with the process that takes the step.
LEMMA PendingStep ==
  ASSUME PendingInv, KeepsPromises, NEW p \in Procs,
         \A q \in Procs : q # p =>
            /\ phase'[q] = phase[q] /\ command'[q] = command[q]
            /\ pkg'[q] = pkg[q] /\ nonce'[q] = nonce[q],
         Holding(p)', Promised(p)'
  PROVE  PendingInv'
  <1>1. ASSUME NEW q \in Procs PROVE Holding(q)' /\ Promised(q)'
    <2>1. CASE q = p
      BY <2>1
    <2>2. CASE q # p
      BY <2>2, PromisesKept DEF PendingInv
    <2> QED
      BY <2>1, <2>2
  <1> QED
    BY <1>1 DEF PendingInv, KeepsPromises

\* A step towards a phase in which nothing is promised yet or any more.
LEMMA UnpromisedStep ==
  ASSUME PendingInv, NEW p \in Procs,
         UNCHANGED <<usedNullifiers, pool, accountNonce, dropped>>,
         \A q \in Procs : q # p =>
            /\ phase'[q] = phase[q] /\ command'[q] = command[q]
            /\ pkg'[q] = pkg[q] /\ nonce'[q] = nonce[q],
         phase'[p] \notin {"send", "reread"},
         phase'[p] \in {"lookup", "done"} => command'[p] # "submit-fact"
  PROVE  PendingInv'
  <1>1. KeepsPromises
    BY IdlePromises DEF PendingInv
  <1>2. Holding(p)' /\ Promised(p)'
    BY DEF Holding, Promised, ReportedSubmitted
  <1> QED
    BY <1>1, <1>2, PendingStep

\* The transaction that a process sends, and what Submitted then promises.
LEMMA SignedIs ==
  ASSUME IInv, NEW p \in Procs, phase[p] = "send"
  PROVE  /\ SignedTx(p).from = Account[p] /\ Account[p] \in Addresses
         /\ SignedTx(p).nonce = nonce[p]
         /\ SignedTx(p).call = CallOf(pkg[p]) /\ SignedTx(p).call \in Calls
         /\ SignedTx(p).gas = GasLimit
  <1>1. pkg[p] \in Packages
    BY DEF IInv, PackagesTyped
  <1>2. CallOf(pkg[p]) \in Calls /\ Account[p] \in Addresses
    BY <1>1, HolderFlowAssumption
  <1> QED
    BY <1>1, <1>2 DEF SignedTx

LEMMA SubmittedPromised ==
  ASSUME NEW p \in Procs, command' = command, pkg' = pkg,
         phase'[p] = Submitted(p), NEW call, call = CallOf(pkg[p]),
         Settled(Account[p], call)'
  PROVE  Holding(p)' /\ Promised(p)'
  <1>1. Holding(p)'
    BY DEF Holding, Submitted
  <1>2. ASSUME NEW package_ \in ViablePackages, ReportedSubmitted(p, package_)'
        PROVE  Settled(Account[p], CallOf(package_))'
    <2>1. CallOf(package_) = call
      BY <1>2 DEF ReportedSubmitted
    <2> QED
      BY <2>1
  <1> QED
    BY <1>1, <1>2 DEF Promised

LEMMA PendingWork ==
  ASSUME IInv, PendingInv, Work PROVE PendingInv'
  <1>0. Domains
    BY DEF IInv
  <1> USE DEF Domains
  <1>1. ASSUME NEW p \in Procs, NEW c \in CommandsOf[p], Start(p, c) PROVE PendingInv'
    <2>1. c \in Commands
      BY HolderFlowAssumption
    <2>2. FirstPhase[c] \in {"read", "prove", "lookup"} /\ (FirstPhase[c] = "lookup" => c # "submit-fact")
      BY <2>1 DEF FirstPhase, Commands
    <2> QED
      BY <1>0, <1>1, <2>2, UnpromisedStep DEF Start, Goto, nodeVars, registryVars
  <1>2. ASSUME NEW p \in Procs, Prove(p) PROVE PendingInv'
    BY <1>0, <1>2, UnpromisedStep DEF Prove, Goto, nodeVars, registryVars
  <1>3. ASSUME NEW p \in Procs, SavePackage(p) PROVE PendingInv'
    BY <1>0, <1>3, UnpromisedStep DEF SavePackage, Goto, local, nodeVars, registryVars
  <1>4. ASSUME NEW p \in Procs, ReadPackage(p) PROVE PendingInv'
    BY <1>0, <1>4, UnpromisedStep DEF ReadPackage, Goto, nodeVars, registryVars
  <1>5. ASSUME NEW p \in Procs, GetNonce(p) PROVE PendingInv'
    <2>1. PICK n : n = PendingNonceAt(Account[p])
      OBVIOUS
    <2>2. phase'[p] = "send" /\ nonce'[p] = n /\ UNCHANGED <<pool, accountNonce, dropped>>
      BY <1>0, <1>5, <2>1 DEF GetNonce, Goto, nodeVars
    <2>3. n \in Nat /\ Ready(Account[p], n)
      BY <2>1, PendingNonce, HolderFlowAssumption DEF PendingInv, PoolInv, Ready
    <2>4. Ready(Account[p], n)'
      BY <2>2, <2>3 DEF Ready, PooledNonces
    <2>5. Holding(p)' /\ Promised(p)'
      BY <2>2, <2>3, <2>4 DEF Holding, Promised, ReportedSubmitted
    <2>6. KeepsPromises
      BY <1>5, IdlePromises DEF PendingInv, GetNonce, nodeVars, registryVars
    <2> QED
      BY <1>0, <1>5, <2>5, <2>6, PendingStep DEF GetNonce, Goto
  <1>6. ASSUME NEW p \in Procs, SendAndExecute(p) PROVE PendingInv'
    <2>1. PICK tx : tx = SignedTx(p)
      OBVIOUS
    <2>2. /\ AutoMine /\ Execute(tx) /\ pool' = pool /\ dropped' = dropped /\ phase[p] = "send"
          /\ UNCHANGED <<command, pkg, nonce>>
      BY <1>6, <2>1 DEF SendAndExecute, ExecutedAtOnce, local
    <2>3. pool = {} /\ nonce[p] \in Nat
      BY <2>2 DEF PendingInv, PoolInv, PoolTyped, Holding
    <2>4. /\ tx.from = Account[p] /\ Account[p] \in Addresses /\ tx.nonce = nonce[p]
          /\ tx.call = CallOf(pkg[p]) /\ tx.call \in Calls /\ tx.gas = GasLimit
      BY <2>1, <2>2, SignedIs
    <2>5. KeepsPromises /\ (tx.call \in ViableCalls => usedNullifiers'[tx.call.nullifier])
      BY <2>2, <2>3, <2>4, ExecutePromises DEF PendingInv
    <2>6. Holding(p)' /\ Promised(p)'
      <3>1. phase'[p] = "failed" \/ (phase'[p] = Submitted(p) /\ Succeeds(tx))
        BY <1>0, <1>6, <2>1 DEF SendAndExecute, Goto
      <3>2. CASE phase'[p] = "failed"
        BY <3>2 DEF Holding, Promised, ReportedSubmitted
      <3>3. CASE phase'[p] = Submitted(p) /\ Succeeds(tx)
        <4>1. tx.call \in ViableCalls
          BY <2>4, <3>3 DEF ViableCalls, Viable, Succeeds, Registry!Accepts
        <4>2. Settled(Account[p], tx.call)'
          BY <2>5, <4>1 DEF Settled
        <4> QED
          BY <2>2, <2>4, <3>3, <4>2, SubmittedPromised
      <3> QED
        BY <3>1, <3>2, <3>3
    <2> QED
      BY <1>0, <1>6, <2>2, <2>5, <2>6, PendingStep DEF SendAndExecute, Goto
  <1>7. ASSUME NEW p \in Procs, SendToPool(p) PROVE PendingInv'
    <2>1. PICK tx : tx = SignedTx(p)
      OBVIOUS
    <2>2. /\ TakenIn(tx) /\ phase[p] = "send" /\ phase'[p] = Submitted(p)
          /\ UNCHANGED <<command, pkg, nonce>>
      BY <1>0, <1>7, <2>1 DEF SendToPool, Goto, local
    <2>3. /\ tx.from = Account[p] /\ Account[p] \in Addresses /\ tx.nonce = nonce[p]
          /\ tx.call = CallOf(pkg[p]) /\ tx.call \in Calls /\ tx.gas = GasLimit
      BY <2>1, <2>2, SignedIs
    <2>4. tx.nonce \in Nat /\ Ready(tx.from, tx.nonce)
      BY <2>2, <2>3 DEF PendingInv, Holding
    <2>5. KeepsPromises /\ Settled(tx.from, tx.call)'
      BY <2>2, <2>3, <2>4, TakenInPromises DEF PendingInv
    <2>6. Settled(Account[p], tx.call)'
      BY <2>3, <2>5
    <2>7. Holding(p)' /\ Promised(p)'
      BY <2>2, <2>3, <2>6, SubmittedPromised
    <2> QED
      BY <1>0, <1>7, <2>2, <2>5, <2>7, PendingStep DEF SendToPool, Goto
  <1>8. ASSUME NEW p \in Procs, SendRejected(p) \/ ReadFails(p) \/ LookupFails(p) \/ Abort(p) PROVE PendingInv'
    <2>1. Goto(p, "failed") /\ UNCHANGED <<nodeVars, local, package>>
      BY <1>8 DEF SendRejected, Rejected, ReadFails, LookupFails, Abort
    <2> QED
      BY <1>0, <2>1, UnpromisedStep DEF Goto, local, nodeVars, registryVars
  <1>9. ASSUME NEW p \in Procs, RereadPackage(p) PROVE PendingInv'
    <2>1. command[p] # "submit-fact"
      BY <1>9 DEF PendingInv, Holding, RereadPackage
    <2> QED
      BY <1>0, <1>9, <2>1, UnpromisedStep DEF RereadPackage, Goto, nodeVars, registryVars
  <1>10. ASSUME NEW p \in Procs, Lookup(p) PROVE PendingInv'
    <2>1. command[p] # "submit-fact"
      BY <1>10 DEF PendingInv, Holding, Lookup
    <2> QED
      BY <1>0, <1>10, <2>1, UnpromisedStep DEF Lookup, Goto, nodeVars, registryVars
  <1> QED
    BY <1>1, <1>2, <1>3, <1>4, <1>5, <1>6, <1>7, <1>8, <1>9, <1>10 DEF Work, Step, Send

LEMMA PendingNext ==
  ASSUME IInv, PendingInv, [Next]_vars PROVE PendingInv'
  <1>1. CASE Work
    BY <1>1, PendingWork
  <1>2. ASSUME UNCHANGED <<phase, local, package>>, KeepsPromises PROVE PendingInv'
    <2>1. \A q \in Procs : Holding(q)' /\ Promised(q)'
      BY <1>2, PromisesKept DEF PendingInv, local
    <2> QED
      BY <1>2, <2>1 DEF PendingInv, KeepsPromises
  <1>3. CASE Node
    <2>1. CASE Mine
      <3>1. PICK tx \in pool : Execute(tx) /\ pool' = pool \ {tx}
        BY <2>1 DEF Mine
      <3>2. /\ tx.from \in Addresses /\ tx.nonce \in Nat /\ tx.call \in Calls
            /\ tx.gas = GasLimit /\ dropped' = dropped
        BY <2>1 DEF PendingInv, PoolInv, PoolTyped, Mine
      <3>3. KeepsPromises
        BY <3>1, <3>2, ExecutePromises DEF PendingInv
      <3> QED
        BY <1>2, <1>3, <3>3 DEF Node
    <2>2. CASE Evict
      BY <1>2, <1>3, <2>2, EvictPromises DEF Node, PendingInv
    <2>3. CASE NextBlock
      <3>1. KeepsPromises
        BY <2>3, IdlePromises DEF PendingInv, NextBlock, Registry!NextBlock
      <3> QED
        BY <1>2, <1>3, <3>1 DEF Node
    <2> QED
      BY <1>3, <2>1, <2>2, <2>3 DEF Node
  <1>4. CASE UNCHANGED vars
    <2>1. KeepsPromises
      BY <1>4, IdlePromises DEF PendingInv, vars, nodeVars, registryVars
    <2> QED
      BY <1>2, <1>4, <2>1 DEF vars
  <1> QED
    BY <1>1, <1>3, <1>4 DEF Next

LEMMA InitPending == Init => PendingInv
  <1> SUFFICES ASSUME Init PROVE PendingInv
    OBVIOUS
  <1>1. pool = {} /\ accountNonce = [a \in Addresses |-> 0]
    BY DEF Init, NodeInit
  <1>2. usedNullifiers = [n \in Registry!Nullifiers |-> FALSE]
    BY DEF Init, NodeInit, Registry!Init
  <1>3. \A a : PooledNonces(a) = {}
    BY <1>1 DEF PooledNonces
  <1>4. PoolTyped
    BY <1>1, <1>2, <1>3, FS_EmptySet DEF PoolTyped
  <1>5. \A a \in Addresses : GapFree(a)
    BY <1>1 DEF GapFree
  <1>6. \A p \in Procs : Holding(p) /\ Promised(p)
    BY DEF Init, Holding, Promised, ReportedSubmitted
  <1> QED
    BY <1>4, <1>5, <1>6 DEF PendingInv, PoolInv

\* A viable package that submit-fact (main.go, submitter.go) reported as submitted
\* is on record, or in the pool with every nonce before its own taken: on every node,
\* for any number of processes that share accounts, whatever is mined, crashes
\* and is rejected, unless the pool lost a transaction of that account.
THEOREM SubmittedNotStuck == Spec => []SubmittedIsPending
  <1>1. Init => IInv /\ PendingInv
    BY InitIInv, InitPending
  <1>2. IInv /\ PendingInv /\ [Next]_vars => (IInv /\ PendingInv)'
    BY NextIInv, PendingNext
  <1>3. PendingInv => SubmittedIsPending
    BY DEF PendingInv, Promised, Settled, SubmittedIsPending
  <1> QED
    BY <1>1, <1>2, <1>3, PTL DEF Spec

=============================================================================
