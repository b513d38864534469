----------------------------- MODULE HolderFlow -----------------------------
(***************************************************************************)
(* The commands of the holder's CLI that end on the chain                  *)
(* (cli/cmd/main.go, cli/internal/blockchain): submit-fact, lookup-fact,   *)
(* and verify-service-flow, which runs prove, submit-fact and lookup-fact  *)
(* one after the other through the file proof_package.json.                *)
(*                                                                         *)
(* prove is abstracted to its outcome, a package it made or a failure, and *)
(* the two steps that write the file: ProverPipeline has the rest of it.   *)
(* Hex strings are the values they stand for; a package that prove wrote   *)
(* has eight public inputs, all of which parse.                            *)
(***************************************************************************)
EXTENDS EthereumNode

CONSTANTS
    Procs,             \* CLI processes
    CommandsOf,        \* the commands each process may be started on
    Account,           \* the address of each process's HOLDER_PRIVATE_KEY
    Cwd,               \* the working directory of each process
    PackagesOf,        \* the packages prove may make for each process
    Missing, Torn,     \* a file that does not exist, one that does not parse
    MaxRuns            \* bound on how often a process is started

VARIABLES
    phase,             \* what each process does next
    command,           \* the command it was started on
    made,              \* the package its prove made
    pkg,               \* the package submit-fact read
    nonce,             \* the nonce it got
    key,               \* the fact that lookup-fact was asked for
    result,            \* what getFact returned
    package,           \* proof_package.json of each working directory
    runs               \* how often each process was started

local == <<command, made, pkg, nonce, key, result, runs>>
vars == <<nodeVars, phase, local, package>>

Cwds == {Cwd[p] : p \in Procs}

\* Mutant of CallOf: the nullifier argument is taken from the next public input.
CallOfShifted(package_) ==
    LET inputs == package_.publicInputs
    IN  [proof |-> package_.proof, publicInputs |-> inputs,
         verifierIdHash |-> inputs[1], factTypeHash |-> inputs[2],
         issuerPolicyRoot |-> inputs[3], schemaHash |-> inputs[4],
         subjectTag |-> package_.subjectTag, nullifier |-> inputs[7],
         validUntil |-> inputs[7]]

\* The arguments of submitVerifiedFact that submit-fact takes from a package.
CallOf(package_) ==
    LET inputs == package_.publicInputs
    IN  [proof |-> package_.proof, publicInputs |-> inputs,
         verifierIdHash |-> inputs[1], factTypeHash |-> inputs[2],
         issuerPolicyRoot |-> inputs[3], schemaHash |-> inputs[4],
         subjectTag |-> package_.subjectTag, nullifier |-> package_.nullifier,
         validUntil |-> inputs[7]]

KeyOfPackage(package_) == Registry!KeyOf(CallOf(package_))

\* The gas limit of every transaction of submit-fact.
GasLimit == 3000000

\* The call fails for a used nullifier at most.
Viable(call, gas) == Verify(call.proof, call.publicInputs) /\ GasOf(call) <= gas

Commands == {"submit-fact", "lookup-fact", "verify-service-flow"}

Packages == UNION {PackagesOf[p] : p \in Procs}

ASSUME HolderFlowAssumption ==
    /\ Missing # Torn
    /\ Packages \cap {Missing, Torn} = {}
    /\ \A package_ \in Packages : CallOf(package_) \in Calls
    /\ \A c \in Calls : Verify(c.proof, c.publicInputs) \in BOOLEAN
    /\ \A p \in Procs : Account[p] \in Addresses /\ CommandsOf[p] \subseteq Commands
    /\ MaxRuns \in Nat
    /\ MaxTimestamp \in Nat \ {0} /\ \A c \in Calls : c.validUntil \in Nat

-----------------------------------------------------------------------------

Init ==
    /\ NodeInit
    /\ phase = [p \in Procs |-> "ready"]
    /\ command = [p \in Procs |-> "none"]
    /\ made = [p \in Procs |-> Missing]
    /\ pkg = [p \in Procs |-> Missing]
    /\ nonce = [p \in Procs |-> 0]
    /\ key = [p \in Procs |-> Missing]
    /\ result = [p \in Procs |-> Registry!EmptyFact]
    /\ package = [dir \in Cwds |-> Missing]
    /\ runs = [p \in Procs |-> 0]

Goto(p, next) == phase' = [phase EXCEPT ![p] = next]

FirstPhase == [c \in Commands |->
                 CASE c = "submit-fact" -> "read"
                   [] c = "lookup-fact" -> "lookup"
                   [] c = "verify-service-flow" -> "prove"]

\* A process is started; the flags of lookup-fact name some fact.
Start(p, c) ==
    /\ phase[p] \in {"ready", "done", "failed"}
    /\ runs[p] < MaxRuns
    /\ runs' = [runs EXCEPT ![p] = @ + 1]
    /\ command' = [command EXCEPT ![p] = c]
    /\ Goto(p, FirstPhase[c])
    /\ made' = [made EXCEPT ![p] = Missing]
    /\ pkg' = [pkg EXCEPT ![p] = Missing]
    /\ nonce' = [nonce EXCEPT ![p] = 0]
    /\ \E k \in IF c = "lookup-fact" THEN Registry!FactKeys ELSE {Missing} :
          key' = [key EXCEPT ![p] = k]
    /\ result' = [result EXCEPT ![p] = Registry!EmptyFact]
    /\ UNCHANGED <<nodeVars, package>>

\* proveCmd: a package is made, the file truncated, then filled.
Prove(p) ==
    /\ phase[p] = "prove"
    /\ \E package_ \in PackagesOf[p] : made' = [made EXCEPT ![p] = package_]
    /\ package' = [package EXCEPT ![Cwd[p]] = Torn]
    /\ Goto(p, "save")
    /\ UNCHANGED <<nodeVars, command, pkg, nonce, key, result, runs>>

SavePackage(p) ==
    /\ phase[p] = "save"
    /\ \E content \in IF package[Cwd[p]] = Torn THEN {made[p]} ELSE {made[p], Torn} :
          package' = [package EXCEPT ![Cwd[p]] = content]
    /\ Goto(p, "read")
    /\ UNCHANGED <<nodeVars, local>>

Readable(p) == package[Cwd[p]] \notin {Missing, Torn}

ReadPackage(p) ==
    /\ phase[p] = "read"
    /\ Readable(p)
    /\ pkg' = [pkg EXCEPT ![p] = package[Cwd[p]]]
    /\ Goto(p, "nonce")
    /\ UNCHANGED <<nodeVars, command, made, nonce, key, result, package, runs>>

\* Mutant of GetNonce: one too high.
GetNonceOffByOne(p) ==
    /\ phase[p] = "nonce"
    /\ nonce' = [nonce EXCEPT ![p] = PendingNonceAt(Account[p]) + 1]
    /\ Goto(p, "send")
    /\ UNCHANGED <<nodeVars, command, made, pkg, key, result, package, runs>>

GetNonce(p) ==
    /\ phase[p] = "nonce"
    /\ nonce' = [nonce EXCEPT ![p] = PendingNonceAt(Account[p])]
    /\ Goto(p, "send")
    /\ UNCHANGED <<nodeVars, command, made, pkg, key, result, package, runs>>

SignedTx(p) ==
    [from |-> Account[p], nonce |-> nonce[p], gas |-> GasLimit, call |-> CallOf(pkg[p])]

\* Where submit-fact ends when SendTransaction returned no error.
Submitted(p) == IF command[p] = "submit-fact" THEN "done" ELSE "reread"

\* SendTransaction on a node that mines at once: a revert is its error.
SendAndExecute(p) ==
    /\ phase[p] = "send"
    /\ ExecutedAtOnce(SignedTx(p))
    /\ Goto(p, IF Succeeds(SignedTx(p)) THEN Submitted(p) ELSE "failed")
    /\ UNCHANGED <<local, package>>

SendToPool(p) ==
    /\ phase[p] = "send"
    /\ TakenIn(SignedTx(p))
    /\ Goto(p, Submitted(p))
    /\ UNCHANGED <<local, package>>

\* Mutant of SendRejected: the error is not returned.
SendRejectedIgnored(p) ==
    /\ phase[p] = "send"
    /\ Rejected(SignedTx(p))
    /\ Goto(p, Submitted(p))
    /\ UNCHANGED <<local, package>>

SendRejected(p) ==
    /\ phase[p] = "send"
    /\ Rejected(SignedTx(p))
    /\ Goto(p, "failed")
    /\ UNCHANGED <<local, package>>

\* verify-service-flow reads the file again to learn what to look up.
RereadPackage(p) ==
    /\ phase[p] = "reread"
    /\ Readable(p)
    /\ key' = [key EXCEPT ![p] = KeyOfPackage(package[Cwd[p]])]
    /\ Goto(p, "lookup")
    /\ UNCHANGED <<nodeVars, command, made, pkg, nonce, result, package, runs>>

\* The answer is one tuple, the struct it is decoded into has its fields: what
\* the ABI library of the build makes of that is the fact, or an error.
LookupFails(p) ==
    /\ phase[p] = "lookup"
    /\ Goto(p, "failed")
    /\ UNCHANGED <<nodeVars, local, package>>

\* "Fact NOT found" is no error.
Lookup(p) ==
    /\ phase[p] = "lookup"
    /\ result' = [result EXCEPT ![p] = Registry!GetFact(key[p])]
    /\ Goto(p, "done")
    /\ UNCHANGED <<nodeVars, command, made, pkg, nonce, key, package, runs>>

ReadFails(p) ==
    /\ phase[p] \in {"read", "reread"}
    /\ ~Readable(p)
    /\ Goto(p, "failed")
    /\ UNCHANGED <<nodeVars, local, package>>

\* A crash, a failing prove, or a call to the node that fails or whose answer
\* is lost: the process ends, and what it did before stays.
Abort(p) ==
    /\ phase[p] \notin {"ready", "done", "failed"}
    /\ Goto(p, "failed")
    /\ UNCHANGED <<nodeVars, local, package>>

Send(p) == SendAndExecute(p) \/ SendToPool(p) \/ SendRejected(p)

Step(p) ==
    \/ Prove(p) \/ SavePackage(p)
    \/ ReadPackage(p) \/ GetNonce(p) \/ Send(p)
    \/ RereadPackage(p) \/ Lookup(p) \/ LookupFails(p) \/ ReadFails(p)

Work == \E p \in Procs : Step(p) \/ (\E c \in CommandsOf[p] : Start(p, c)) \/ Abort(p)

Node == (Mine \/ NextBlock \/ Evict) /\ UNCHANGED <<phase, local, package>>

Next == Work \/ Node

Spec == Init /\ [][Next]_vars

\* The node mines what it can.
FairSpec == Spec /\ WF_vars(Mine /\ UNCHANGED <<phase, local, package>>)

-----------------------------------------------------------------------------

\* No two submissions succeed with proofs of the same nullifier.  The contract
\* does not see to it: it marks the nullifier argument as used and does not
\* compare it with the sixth public input, which is what was proved.  It is
\* submit-fact that always sends the two alike, through any pool and retries.
ProvenNullifierOnce ==
    \A i, j \in DOMAIN receipts :
        /\ receipts[i].success /\ receipts[j].success
        /\ receipts[i].tx.call.publicInputs[6] = receipts[j].tx.call.publicInputs[6]
        => i = j

\* verify-service-flow ends well only if the package it made is on record,
\* submitted by its own account, and the lookup found its fact.
FlowComplete ==
    \A p \in Procs :
        phase[p] = "done" /\ command[p] = "verify-service-flow" =>
            /\ \E i \in DOMAIN accepted :
                  /\ accepted[i].nullifier = made[p].nullifier
                  /\ accepted[i].submitter = Account[p]
            /\ result[p].exists
            /\ Registry!KeyOf(result[p]) = KeyOfPackage(made[p])

\* A receipt with status reverted is no loss: if its proof verifies and the gas
\* suffices, the same nullifier was recorded by an earlier transaction, whoever
\* sent it, however often the package was retried.
RevertMeansRecorded ==
    \A i \in DOMAIN receipts :
        LET tx == receipts[i].tx
        IN  ~receipts[i].success /\ Viable(tx.call, tx.gas) =>
                \E j \in 1..(i - 1) : /\ receipts[j].success
                                      /\ receipts[j].tx.call.nullifier = tx.call.nullifier

\* submit-fact, alone or within a flow, reported the package as submitted.
ReportedSubmitted(p, package_) ==
    /\ pkg[p] = package_
    /\ phase[p] = "reread" \/ (phase[p] = "done" /\ command[p] = "submit-fact")

\* The transaction waits for its turn, and no nonce is missing that has to come
\* before its own.
InTurn(account, tx) ==
    /\ tx \in pool /\ tx.from = account
    /\ accountNonce[account] <= tx.nonce
    /\ accountNonce[account]..tx.nonce \subseteq PooledNonces(account)

ViablePackages == {package_ \in Packages : Viable(CallOf(package_), GasLimit)}

\* A viable package that was reported as submitted is on record, or on its way
\* without anything that can stop it, unless the pool lost a transaction of the
\* account: it is never stuck behind a nonce that nobody sends, however many
\* processes take nonces of the account at the same time, and whatever else
\* they send, viable or not.
SubmittedIsPending ==
    \A p \in Procs : \A package_ \in ViablePackages :
        ReportedSubmitted(p, package_) =>
            \/ usedNullifiers[CallOf(package_).nullifier]
            \/ Account[p] \in dropped
            \/ \E tx \in pool : /\ InTurn(Account[p], tx)
                                /\ tx.call = CallOf(package_)

\* A viable package that submit-fact reported as submitted ends up on record, by
\* its transaction or by an earlier one that carried it, also if the process is
\* gone by then: unless the pool lost a transaction of the account.
SubmittedIsRecorded ==
    \A p \in Procs : \A package_ \in ViablePackages :
        ReportedSubmitted(p, package_)
            ~> usedNullifiers[CallOf(package_).nullifier] \/ Account[p] \in dropped

=============================================================================
