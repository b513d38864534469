------------------------------ MODULE Deployment ------------------------------
(***************************************************************************)
(* Deployment of the contracts: the in-memory Hardhat node, the deployer   *)
(* container of docker-compose.yml with deploy-and-seed.ts, deploy.ts run  *)
(* on the host against the same node, and the start of the verifier's      *)
(* backend, which gets the address of FactRegistry through .env.           *)
(*                                                                         *)
(* All of them, and a CLI with the README's key, send their transactions   *)
(* from Hardhat's account #0, so the chain is the sequence of that         *)
(* account's transactions, and the address of a contract is the position   *)
(* of the transaction that created it.                                     *)
(***************************************************************************)
EXTENDS Integers, Sequences

CONSTANTS
    MaxTxs,            \* bound on the transactions of account #0 on one chain
    MaxRuns,           \* bounds on the runs of each script
    MaxRestarts        \* bound on the restarts of the node

ASSUME DeploymentAssumption ==
    /\ MaxTxs \in Nat
    /\ MaxRestarts \in Nat
    /\ MaxRuns \in [{"deploy-and-seed", "deploy"} -> Nat]

VARIABLES
    chain,             \* what each transaction created, and what that refers to
    phase,             \* what each script does next
    made,              \* the addresses a script has got so far, its variables
    deploymentJson,    \* the addresses in the deployer's file, <<>> if there is none
    env,               \* FACT_REGISTRY_ADDRESS in the shared .env; NoAddress if blank
    backend,           \* FACT_REGISTRY_ADDRESS of the running backend
    runs, restarts,    \* how many there have been
    sameNode,          \* history: the node has not restarted since the script began
    saved              \* history: this run of the deployer has written its file

vars == <<chain, phase, made, deploymentJson, env, backend, runs, restarts, sameNode, saved>>

NoAddress == 0
Scripts == {"deploy-and-seed", "deploy"}

\* Mutant of Order: deploy.ts deploys the two registries the other way round.
OrderSwapped(s) ==
    IF s = "deploy" THEN <<"ZKTranscriptLib", "HonkVerifier", "FactRegistry", "IssuerRegistry">>
    ELSE <<"ZKTranscriptLib", "HonkVerifier", "IssuerRegistry", "FactRegistry">>

\* The contracts in the order in which a script deploys them.
Order(s) == <<"ZKTranscriptLib", "HonkVerifier", "IssuerRegistry", "FactRegistry">>

Position(s, kind) == CHOOSE i \in 1..4 : Order(s)[i] = kind
AddressOf(s, addresses, kind) == addresses[Position(s, kind)]

\* The library a verifier is linked with, the verifier of a FactRegistry.
RefersTo(s, kind) ==
    CASE kind = "HonkVerifier" -> AddressOf(s, made[s], "ZKTranscriptLib")
      [] kind = "FactRegistry" -> AddressOf(s, made[s], "HonkVerifier")
      [] OTHER -> NoAddress

-----------------------------------------------------------------------------

Init ==
    /\ chain = <<>>
    /\ phase = [s \in Scripts |-> "idle"]
    /\ made = [s \in Scripts |-> <<>>]
    /\ deploymentJson = <<>>
    /\ env = NoAddress
    /\ backend = NoAddress
    /\ runs = [s \in Scripts |-> 0]
    /\ restarts = 0
    /\ sameNode = [s \in Scripts |-> TRUE]
    /\ saved = FALSE

\* docker compose up starts the deployer, in a new container or in one that may
\* have run before and keeps its files.
Start(s) ==
    /\ phase[s] \in {"idle", "done"}
    /\ runs[s] < MaxRuns[s]
    /\ runs' = [runs EXCEPT ![s] = @ + 1]
    /\ phase' = [phase EXCEPT ![s] = "deploying"]
    /\ made' = [made EXCEPT ![s] = <<>>]
    /\ sameNode' = [sameNode EXCEPT ![s] = TRUE]
    /\ saved' = (saved /\ s = "deploy")
    /\ deploymentJson' \in IF s = "deploy" THEN {deploymentJson} ELSE {deploymentJson, <<>>}
    /\ UNCHANGED <<chain, env, backend, restarts>>

Send(kind, address) == chain' = Append(chain, [kind |-> kind, refersTo |-> address])

DeployNext(s) ==
    /\ phase[s] = "deploying"
    /\ Len(made[s]) < 4
    /\ Len(chain) < MaxTxs
    /\ LET kind == Order(s)[Len(made[s]) + 1] IN Send(kind, RefersTo(s, kind))
    /\ made' = [made EXCEPT ![s] = Append(@, Len(chain'))]
    /\ UNCHANGED <<phase, deploymentJson, env, backend, runs, restarts, sameNode, saved>>

\* The script's process ends; the deployer's shell goes on.
Ends(s) ==
    /\ phase' = [phase EXCEPT ![s] = IF s = "deploy" THEN "idle" ELSE "exporting"]
    /\ made' = [made EXCEPT ![s] = <<>>]

\* The end of deploy.ts; what it writes is read by people only.
FinishDeploy ==
    /\ phase["deploy"] = "deploying"
    /\ Len(made["deploy"]) = 4
    /\ Ends("deploy")
    /\ UNCHANGED <<chain, deploymentJson, env, backend, runs, restarts, sameNode, saved>>

\* Mutant of Save: a file that is there is kept.
SaveOnce ==
    /\ phase["deploy-and-seed"] = "deploying"
    /\ Len(made["deploy-and-seed"]) = 4
    /\ phase' = [phase EXCEPT !["deploy-and-seed"] = "seeding"]
    /\ deploymentJson' = IF deploymentJson = <<>> THEN made["deploy-and-seed"] ELSE deploymentJson
    /\ saved' = TRUE
    /\ UNCHANGED <<chain, made, env, backend, runs, restarts, sameNode>>

\* Written when all four are deployed, before the seeding.
Save ==
    /\ phase["deploy-and-seed"] = "deploying"
    /\ Len(made["deploy-and-seed"]) = 4
    /\ phase' = [phase EXCEPT !["deploy-and-seed"] = "seeding"]
    /\ deploymentJson' = made["deploy-and-seed"]
    /\ saved' = TRUE
    /\ UNCHANGED <<chain, made, env, backend, runs, restarts, sameNode>>

\* The test proof is submitted, if its files are there and the call does not
\* revert; the end of deploy-and-seed.ts.
Seed ==
    /\ phase["deploy-and-seed"] = "seeding"
    /\ \/ Len(chain) < MaxTxs /\ Send("call", NoAddress)
       \/ UNCHANGED chain
    /\ Ends("deploy-and-seed")
    /\ UNCHANGED <<deploymentJson, env, backend, runs, restarts, sameNode, saved>>

\* An error ends the script with exit code 1; the shell, without set -e, goes on.
ScriptFails(s) ==
    /\ phase[s] = "deploying"
    /\ Ends(s)
    /\ UNCHANGED <<chain, deploymentJson, env, backend, runs, restarts, sameNode, saved>>

\* The rest of the deployer's command: the address of whatever file there is,
\* or blank, and "=== Deploy complete ===".
Export ==
    /\ phase["deploy-and-seed"] = "exporting"
    /\ env' = IF deploymentJson = <<>> THEN NoAddress
              ELSE AddressOf("deploy-and-seed", deploymentJson, "FactRegistry")
    /\ phase' = [phase EXCEPT !["deploy-and-seed"] = "done"]
    /\ UNCHANGED <<chain, made, deploymentJson, backend, runs, restarts, sameNode, saved>>

\* The deployer's container is killed.
Kill ==
    /\ phase["deploy-and-seed"] \notin {"idle", "done"}
    /\ phase' = [phase EXCEPT !["deploy-and-seed"] = "idle"]
    /\ made' = [made EXCEPT !["deploy-and-seed"] = <<>>]
    /\ UNCHANGED <<chain, deploymentJson, env, backend, runs, restarts, sameNode, saved>>

\* condition: service_completed_successfully
StartVerifier ==
    /\ phase["deploy-and-seed"] = "done"
    /\ backend' = env
    /\ UNCHANGED <<chain, phase, made, deploymentJson, env, runs, restarts, sameNode, saved>>

\* A CLI, or a test, uses account #0.
Call ==
    /\ Len(chain) < MaxTxs
    /\ Send("call", NoAddress)
    /\ UNCHANGED <<phase, made, deploymentJson, env, backend, runs, restarts, sameNode, saved>>

\* The node keeps its chain in memory.
NodeRestart ==
    /\ restarts < MaxRestarts
    /\ restarts' = restarts + 1
    /\ chain' = <<>>
    /\ sameNode' = [s \in Scripts |-> FALSE]
    /\ UNCHANGED <<phase, made, deploymentJson, env, backend, runs, saved>>

Next ==
    \/ \E s \in Scripts : Start(s) \/ DeployNext(s) \/ ScriptFails(s)
    \/ FinishDeploy \/ Save \/ Seed \/ Export \/ Kill
    \/ StartVerifier \/ Call \/ NodeRestart

Spec == Init /\ [][Next]_vars

-----------------------------------------------------------------------------

IsContract(address, kind) == address \in DOMAIN chain /\ chain[address].kind = kind

\* A FactRegistry whose verifier, and the library of that, are what they should be.
IsWorkingRegistry(address) ==
    /\ IsContract(address, "FactRegistry")
    /\ IsContract(chain[address].refersTo, "HonkVerifier")
    /\ IsContract(chain[chain[address].refersTo].refersTo, "ZKTranscriptLib")

\* A run of the deployer that got as far as writing deployment.json exports,
\* unless the node restarts, a FactRegistry that works, even if the seeding
\* fails, an older file lies there, or others use account #0 meanwhile.
SavedIsExported ==
    (/\ phase["deploy-and-seed"] = "done"
     /\ saved
     /\ sameNode["deploy-and-seed"]) => IsWorkingRegistry(env)

\* What a deployment on an empty chain that nothing disturbs gets.
Undisturbed == <<1, 2, 3, 4>>

\* A backend that got its address from an undisturbed deployment can run on
\* when the node restarts: it finds a working FactRegistry again as soon as
\* either script has deployed undisturbed.
AddressSurvivesRestart ==
    \A s \in Scripts :
        /\ backend = AddressOf("deploy-and-seed", Undisturbed, "FactRegistry")
        /\ made[s] = Undisturbed /\ sameNode[s]
        => IsWorkingRegistry(backend)

\* docker-compose.yml:44 echoes "=== Deploy complete ===" and lets the backend
\* start: .env then holds the address of a FactRegistry, if the node is the same.
DeployComplete ==
    (/\ phase["deploy-and-seed"] = "done"
     /\ sameNode["deploy-and-seed"]) => IsWorkingRegistry(env)

=============================================================================
