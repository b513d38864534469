--------------------------- MODULE DeploymentProofs ---------------------------
(***************************************************************************)
(* Deployment with any number of runs, restarts and transactions.          *)
(*                                                                         *)
(* The invariant: as long as the node is the same, the addresses a script  *)
(* holds, and those in a file that this run of the deployer wrote, are     *)
(* those of the contracts it deployed, each referring to the right one.    *)
(***************************************************************************)
EXTENDS Deployment, TLAPS

deployer == "deploy-and-seed"

USE DEF deployer, Scripts

\* addresses begins a deployment in the order of the scripts.
Deployed(addresses) ==
    \A i \in 1..Len(addresses) :
        /\ IsContract(addresses[i], Order(deployer)[i])
        /\ i = 2 => chain[addresses[i]].refersTo = addresses[1]
        /\ i = 4 => chain[addresses[i]].refersTo = addresses[2]

IsSeq(s) == \E S : s \in Seq(S)

Typed ==
    /\ IsSeq(chain)
    /\ made \in [Scripts -> Seq(Nat)]
    /\ \A s \in Scripts : Len(made[s]) <= 4
    /\ DOMAIN phase = Scripts
    /\ DOMAIN sameNode = Scripts
    /\ saved => deploymentJson \in Seq(Nat) /\ Len(deploymentJson) = 4

ScriptsKnow == \A s \in Scripts : sameNode[s] => Deployed(made[s])

FileTells == saved /\ sameNode[deployer] => Deployed(deploymentJson)

IInv == Typed /\ ScriptsKnow /\ FileTells /\ SavedIsExported

-----------------------------------------------------------------------------

\* Where each contract stands in the order.
LEMMA Positions ==
  ASSUME NEW s
  PROVE  /\ Position(s, "ZKTranscriptLib") = 1
         /\ Position(s, "HonkVerifier") = 2
         /\ Position(s, "FactRegistry") = 4
  <1>1. /\ Order(s)[1] = "ZKTranscriptLib" /\ Order(s)[2] = "HonkVerifier"
        /\ Order(s)[3] = "IssuerRegistry" /\ Order(s)[4] = "FactRegistry"
    BY DEF Order
  <1>2. \A i \in 1..4 : i = 1 \/ i = 2 \/ i = 3 \/ i = 4
    OBVIOUS
  <1> QED
    BY <1>1, <1>2 DEF Position

\* A whole deployment ends with a FactRegistry that works.
LEMMA DeployedWorks ==
  ASSUME NEW addresses, addresses \in Seq(Nat), Len(addresses) = 4, Deployed(addresses)
  PROVE  IsWorkingRegistry(AddressOf(deployer, addresses, "FactRegistry"))
  <1>1. /\ IsContract(addresses[4], "FactRegistry") /\ chain[addresses[4]].refersTo = addresses[2]
        /\ IsContract(addresses[2], "HonkVerifier") /\ chain[addresses[2]].refersTo = addresses[1]
        /\ IsContract(addresses[1], "ZKTranscriptLib")
    BY DEF Deployed, Order
  <1> QED
    BY <1>1, Positions DEF AddressOf, IsWorkingRegistry

\* A chain that grows keeps its contracts.
LEMMA GrowingKeeps ==
  ASSUME IsSeq(chain), NEW tx, chain' = Append(chain, tx)
  PROVE  /\ IsSeq(chain') /\ Len(chain) \in Nat /\ Len(chain') = Len(chain) + 1
         /\ DOMAIN chain = 1..Len(chain) /\ DOMAIN chain' = 1..(Len(chain) + 1)
         /\ chain'[Len(chain) + 1] = tx
         /\ \A a \in DOMAIN chain : a \in DOMAIN chain' /\ chain'[a] = chain[a]
  <1>1. PICK S : chain \in Seq(S)
    BY DEF IsSeq
  <1>2. chain \in Seq(S \cup {tx})
    BY <1>1
  <1>3. chain' \in Seq(S \cup {tx})
    BY <1>2
  <1> QED
    BY <1>2, <1>3 DEF IsSeq

LEMMA GrowingDeployed ==
  ASSUME IsSeq(chain), NEW tx, chain' = Append(chain, tx)
  PROVE  /\ \A addresses : Deployed(addresses) => Deployed(addresses)'
         /\ \A a : IsWorkingRegistry(a) => IsWorkingRegistry(a)'
  <1>1. \A a \in DOMAIN chain : a \in DOMAIN chain' /\ chain'[a] = chain[a]
    BY GrowingKeeps
  <1> QED
    BY <1>1 DEF Deployed, IsWorkingRegistry, IsContract, Order

LEMMA SameChain ==
  ASSUME UNCHANGED chain
  PROVE  /\ \A addresses : Deployed(addresses)' <=> Deployed(addresses)
         /\ \A a : IsWorkingRegistry(a)' <=> IsWorkingRegistry(a)
  BY DEF Deployed, IsWorkingRegistry, IsContract, Order

LEMMA InitIInv == Init => IInv
  <1> SUFFICES ASSUME Init PROVE IInv
    OBVIOUS
  <1>1. << >> \in Seq(Nat) /\ << >> \in Seq({}) /\ Len(<< >>) = 0
    OBVIOUS
  <1> QED
    BY <1>1 DEF Init, IInv, Typed, IsSeq, ScriptsKnow, Deployed, FileTells, SavedIsExported, Scripts

\* A script gets the address of its next contract.
LEMMA DeployNextIInv ==
  ASSUME IInv, NEW s \in Scripts, DeployNext(s)
  PROVE  IInv'
  <1> DEFINE n == Len(made[s])
             L == Len(chain)
             kind == Order(s)[n + 1]
             tx == [kind |-> kind, refersTo |-> RefersTo(s, kind)]
  <1>1. chain' = Append(chain, tx)
    BY DEF DeployNext, Send
  <1>2. /\ IsSeq(chain') /\ L \in Nat /\ Len(chain') = L + 1
        /\ DOMAIN chain' = 1..(L + 1) /\ chain'[L + 1] = tx
    BY <1>1, GrowingKeeps DEF IInv, Typed
  <1>3. /\ \A addresses : Deployed(addresses) => Deployed(addresses)'
        /\ \A a : IsWorkingRegistry(a) => IsWorkingRegistry(a)'
    BY <1>1, GrowingDeployed DEF IInv, Typed
  <1>4. /\ made' = [made EXCEPT ![s] = Append(@, L + 1)] /\ n \in Nat /\ n < 4
        /\ UNCHANGED <<phase, deploymentJson, env, backend, runs, restarts, sameNode, saved>>
    BY <1>2 DEF DeployNext, IInv, Typed
  <1>5. /\ made'[s] \in Seq(Nat) /\ Len(made'[s]) = n + 1 /\ made'[s][n + 1] = L + 1
        /\ \A i \in 1..n : made'[s][i] = made[s][i]
        /\ \A r \in Scripts : r # s => made'[r] = made[r]
    BY <1>2, <1>4 DEF IInv, Typed
  <1>6. Typed'
    BY <1>2, <1>4, <1>5 DEF IInv, Typed
  <1>7. ScriptsKnow'
    <2> SUFFICES ASSUME NEW r \in Scripts, sameNode[r] PROVE Deployed(made[r])'
      BY <1>4 DEF ScriptsKnow
    <2>1. Deployed(made[r])
      BY DEF IInv, ScriptsKnow
    <2>2. CASE r # s
      <3>1. PICK old : old = made[r]
        OBVIOUS
      <3>2. Deployed(old)' /\ made'[r] = old
        BY <1>3, <1>5, <2>1, <2>2, <3>1
      <3> QED
        BY <3>2 DEF Deployed
    <2>3. CASE r = s
      <3>1. Deployed(made[s])
        BY <2>1, <2>3
      <3>2. PICK old : old = made[s]
        OBVIOUS
      <3>3. Deployed(old)'
        BY <1>3, <3>1, <3>2
      <3>4. ASSUME NEW i \in 1..n
            PROVE  /\ made'[s][i] \in DOMAIN chain' /\ chain'[made'[s][i]].kind = Order(deployer)[i]
                   /\ i = 2 => chain'[made'[s][i]].refersTo = made'[s][1]
                   /\ i = 4 => chain'[made'[s][i]].refersTo = made'[s][2]
        BY <1>4, <1>5, <3>2, <3>3 DEF Deployed, IsContract, Order
      <3>5. /\ L + 1 \in DOMAIN chain' /\ chain'[L + 1].kind = Order(deployer)[n + 1]
            /\ n + 1 = 2 => chain'[L + 1].refersTo = made[s][1]
            /\ n + 1 = 4 => chain'[L + 1].refersTo = made[s][2]
        <4>1. kind = Order(deployer)[n + 1]
          BY DEF Order
        <4>2. n + 1 = 2 => kind = "HonkVerifier" /\ RefersTo(s, kind) = made[s][1]
          BY Positions DEF Order, RefersTo, AddressOf
        <4>3. n + 1 = 4 => kind = "FactRegistry" /\ RefersTo(s, kind) = made[s][2]
          BY Positions DEF Order, RefersTo, AddressOf
        <4> QED
          BY <1>2, <4>1, <4>2, <4>3
      <3>6. PICK new : new = made'[s]
        OBVIOUS
      <3>7. /\ Len(new) = n + 1
            /\ \A i \in 1..(n + 1) : i \in 1..n \/ i = n + 1
        BY <1>4, <1>5, <3>6
      <3>8. n + 1 = 2 => 1 \in 1..n
        BY <1>4
      <3>9. n + 1 = 4 => 2 \in 1..n
        BY <1>4
      <3>10. ASSUME NEW i \in 1..Len(new)
             PROVE  /\ new[i] \in DOMAIN chain' /\ chain'[new[i]].kind = Order(deployer)[i]
                    /\ i = 2 => chain'[new[i]].refersTo = new[1]
                    /\ i = 4 => chain'[new[i]].refersTo = new[2]
        <4>1. CASE i \in 1..n
          BY <3>4, <3>6, <4>1
        <4>2. CASE i = n + 1
          BY <1>5, <3>5, <3>6, <3>8, <3>9, <4>2
        <4> QED
          BY <3>7, <4>1, <4>2
      <3>11. Deployed(new)'
        BY <3>10 DEF Deployed, IsContract, Order
      <3> QED
        BY <2>3, <3>6, <3>11 DEF Deployed
    <2> QED
      BY <2>2, <2>3
  <1>8. FileTells' /\ SavedIsExported'
    BY <1>3, <1>4 DEF IInv, FileTells, SavedIsExported
  <1> QED
    BY <1>6, <1>7, <1>8 DEF IInv

\* A script starts, or its process ends: its addresses are gone.
LEMMA ForgetIInv ==
  ASSUME IInv, NEW s \in Scripts, UNCHANGED <<chain, env>>,
         saved' => deploymentJson' = deploymentJson,
         made' = [made EXCEPT ![s] = <<>>],
         DOMAIN phase' = Scripts, DOMAIN sameNode' = Scripts,
         \A r \in Scripts \ {s} : sameNode'[r] = sameNode[r],
         saved' => saved /\ sameNode'[deployer] = sameNode[deployer],
         phase'[deployer] = "done" /\ saved' => phase[deployer] = "done"
  PROVE  IInv'
  <1>1. /\ made'[s] = <<>> /\ <<>> \in Seq(Nat) /\ Len(<<>>) = 0
        /\ \A r \in Scripts \ {s} : made'[r] = made[r]
    BY DEF IInv, Typed
  <1>2. Typed'
    BY <1>1 DEF IInv, Typed
  <1>3. ScriptsKnow'
    <2> SUFFICES ASSUME NEW r \in Scripts, sameNode'[r] PROVE Deployed(made[r])'
      BY DEF ScriptsKnow
    <2>1. CASE r = s
      BY <1>1, <2>1 DEF Deployed
    <2>2. CASE r # s
      <3>1. Deployed(made[r]) /\ made'[r] = made[r]
        BY <1>1, <2>2 DEF IInv, ScriptsKnow
      <3> QED
        BY <3>1 DEF Deployed, IsContract
    <2> QED
      BY <2>1, <2>2
  <1>4. FileTells'
    BY DEF IInv, FileTells, Deployed, IsContract
  <1>5. SavedIsExported'
    BY SameChain DEF IInv, SavedIsExported
  <1> QED
    BY <1>2, <1>3, <1>4, <1>5 DEF IInv

\* The file is written and read.
LEMMA FileIInv == ASSUME IInv, Save \/ Export PROVE IInv'
  <1>1. deployer \in Scripts
    BY DEF Scripts
  <1>2. CASE Save
    <2>1. /\ deploymentJson' = made[deployer] /\ Len(made[deployer]) = 4 /\ saved'
          /\ UNCHANGED <<chain, made, env, sameNode>> /\ phase' = [phase EXCEPT ![deployer] = "seeding"]
      BY <1>2 DEF Save
    <2>2. Typed'
      BY <1>1, <2>1 DEF IInv, Typed
    <2>3. ScriptsKnow'
      BY <2>1 DEF IInv, ScriptsKnow, Deployed, IsContract
    <2>4. FileTells'
      <3>1. sameNode[deployer] => Deployed(made[deployer])
        BY <1>1 DEF IInv, ScriptsKnow
      <3> QED
        BY <2>1, <3>1 DEF FileTells, Deployed, IsContract
    <2>5. phase'[deployer] # "done"
      BY <1>1, <2>1 DEF IInv, Typed
    <2>6. SavedIsExported'
      BY <2>5 DEF SavedIsExported
    <2> QED
      BY <2>2, <2>3, <2>4, <2>6 DEF IInv
  <1>3. CASE Export
    <2>1. /\ env' = IF deploymentJson = <<>> THEN NoAddress
                    ELSE AddressOf(deployer, deploymentJson, "FactRegistry")
          /\ UNCHANGED <<chain, made, deploymentJson, sameNode, saved>>
          /\ phase' = [phase EXCEPT ![deployer] = "done"]
      BY <1>3 DEF Export
    <2>2. Typed'
      BY <2>1 DEF IInv, Typed
    <2>3. ScriptsKnow' /\ FileTells'
      BY <2>1 DEF IInv, ScriptsKnow, FileTells, Deployed, IsContract
    <2>4. SavedIsExported'
      <3> SUFFICES ASSUME saved, sameNode[deployer] PROVE IsWorkingRegistry(env)'
        BY <2>1 DEF SavedIsExported
      <3>1. /\ deploymentJson \in Seq(Nat) /\ Len(deploymentJson) = 4
            /\ Deployed(deploymentJson)
        BY DEF IInv, Typed, FileTells
      <3>2. deploymentJson # <<>>
        <4>1. Len(<<>>) = 0
          OBVIOUS
        <4> SUFFICES ASSUME deploymentJson = <<>> PROVE FALSE
          OBVIOUS
        <4> QED
          BY <3>1, <4>1
      <3>3. env' = AddressOf(deployer, deploymentJson, "FactRegistry")
        BY <2>1, <3>2
      <3>4. IsWorkingRegistry(AddressOf(deployer, deploymentJson, "FactRegistry"))
        BY <3>1, DeployedWorks
      <3> QED
        BY <2>1, <3>3, <3>4 DEF IsWorkingRegistry, IsContract
    <2> QED
      BY <2>2, <2>3, <2>4 DEF IInv
  <1> QED
    BY <1>2, <1>3

\* Transactions of others, and a chain that is gone.
LEMMA ChainIInv == ASSUME IInv, Call \/ NodeRestart \/ StartVerifier PROVE IInv'
  <1>1. CASE Call
    <2>1. /\ chain' = Append(chain, [kind |-> "call", refersTo |-> NoAddress])
          /\ UNCHANGED <<phase, made, deploymentJson, env, backend, runs, restarts, sameNode, saved>>
      BY <1>1 DEF Call, Send
    <2>2. /\ IsSeq(chain')
          /\ \A addresses : Deployed(addresses) => Deployed(addresses)'
          /\ \A a : IsWorkingRegistry(a) => IsWorkingRegistry(a)'
      BY <2>1, GrowingKeeps, GrowingDeployed DEF IInv, Typed
    <2> QED
      BY <2>1, <2>2 DEF IInv, Typed, ScriptsKnow, FileTells, SavedIsExported
  <1>2. CASE NodeRestart
    <2>1. /\ chain' = <<>> /\ \A s \in Scripts : ~sameNode'[s]
          /\ DOMAIN sameNode' = Scripts /\ <<>> \in Seq({})
          /\ UNCHANGED <<phase, made, deploymentJson, env, backend, runs, saved>>
      BY <1>2 DEF NodeRestart
    <2>2. ~sameNode'[deployer]
      BY <2>1 DEF Scripts
    <2> QED
      BY <2>1, <2>2 DEF IInv, Typed, IsSeq, ScriptsKnow, FileTells, SavedIsExported
  <1>3. CASE StartVerifier
    <2>1. UNCHANGED <<chain, phase, made, deploymentJson, env, sameNode, saved>>
      BY <1>3 DEF StartVerifier
    <2> QED
      BY <2>1 DEF IInv, Typed, ScriptsKnow, FileTells, SavedIsExported, Deployed,
                  IsWorkingRegistry, IsContract
  <1> QED
    BY <1>1, <1>2, <1>3

LEMMA NextIInv == ASSUME IInv, [Next]_vars PROVE IInv'
  <1>1. deployer \in Scripts /\ "deploy" \in Scripts
    BY DEF Scripts
  <1>2. ASSUME NEW s \in Scripts, Start(s) PROVE IInv'
    <2>1. /\ phase' = [phase EXCEPT ![s] = "deploying"]
          /\ sameNode' = [sameNode EXCEPT ![s] = TRUE]
          /\ made' = [made EXCEPT ![s] = <<>>]
          /\ saved' = (saved /\ s = "deploy")
          /\ saved' => deploymentJson' = deploymentJson
          /\ UNCHANGED <<chain, env>>
      BY <1>2 DEF Start
    <2>2. /\ DOMAIN phase' = Scripts /\ DOMAIN sameNode' = Scripts
          /\ \A r \in Scripts \ {s} : sameNode'[r] = sameNode[r] /\ phase'[r] = phase[r]
      BY <2>1 DEF IInv, Typed
    <2>3. saved' => saved /\ deployer \in Scripts \ {s}
      BY <1>1, <2>1
    <2> QED
      BY <2>1, <2>2, <2>3, ForgetIInv
  <1>3. ASSUME NEW s \in Scripts, Ends(s),
               UNCHANGED <<chain, deploymentJson, env, sameNode, saved>>
        PROVE  IInv'
    <2>1. DOMAIN phase' = Scripts /\ (phase'[deployer] = "done" => phase[deployer] = "done")
      BY <1>1, <1>3 DEF Ends, IInv, Typed
    <2>2. DOMAIN sameNode' = Scripts /\ made' = [made EXCEPT ![s] = <<>>]
      BY <1>3 DEF Ends, IInv, Typed
    <2> QED
      BY <1>3, <2>1, <2>2, ForgetIInv
  <1>4. ASSUME NEW s \in Scripts, ScriptFails(s) PROVE IInv'
    BY <1>3, <1>4 DEF ScriptFails
  <1>5. CASE FinishDeploy
    BY <1>1, <1>3, <1>5 DEF FinishDeploy
  <1>6. CASE Seed
    <2>1. CASE UNCHANGED chain
      BY <1>1, <1>3, <1>6, <2>1 DEF Seed
    <2>2. CASE Send("call", NoAddress)
      <3> DEFINE tx == [kind |-> "call", refersTo |-> NoAddress]
      <3>1. /\ chain' = Append(chain, tx) /\ Ends(deployer)
            /\ UNCHANGED <<deploymentJson, env, backend, runs, restarts, sameNode, saved>>
        BY <1>6, <2>2 DEF Seed, Send
      <3>2. /\ IsSeq(chain')
            /\ \A addresses : Deployed(addresses) => Deployed(addresses)'
        BY <3>1, GrowingKeeps, GrowingDeployed DEF IInv, Typed
      <3>3. /\ made'[deployer] = <<>> /\ <<>> \in Seq(Nat) /\ Len(<<>>) = 0
            /\ made' \in [Scripts -> Seq(Nat)]
            /\ \A r \in Scripts \ {deployer} : made'[r] = made[r]
            /\ phase'[deployer] = "exporting" /\ DOMAIN phase' = Scripts
        BY <1>1, <3>1 DEF Ends, IInv, Typed
      <3>4. Typed'
        BY <3>1, <3>2, <3>3 DEF IInv, Typed
      <3>5. ScriptsKnow'
        <4> SUFFICES ASSUME NEW r \in Scripts, sameNode[r] PROVE Deployed(made[r])'
          BY <3>1 DEF ScriptsKnow
        <4>1. CASE r = deployer
          BY <3>3, <4>1 DEF Deployed
        <4>2. CASE r # deployer
          <5>1. PICK old : old = made[r]
            OBVIOUS
          <5>2. Deployed(old)' /\ made'[r] = old
            BY <3>2, <3>3, <4>2, <5>1 DEF IInv, ScriptsKnow
          <5> QED
            BY <5>2 DEF Deployed
        <4> QED
          BY <4>1, <4>2
      <3>6. FileTells' /\ SavedIsExported'
        BY <3>1, <3>2, <3>3 DEF IInv, FileTells, SavedIsExported
      <3> QED
        BY <3>4, <3>5, <3>6 DEF IInv
    <2> QED
      BY <1>6, <2>1, <2>2 DEF Seed
  <1>7. CASE Kill
    <2>1. /\ phase' = [phase EXCEPT ![deployer] = "idle"]
          /\ made' = [made EXCEPT ![deployer] = <<>>]
          /\ UNCHANGED <<chain, deploymentJson, env, sameNode, saved>>
      BY <1>7 DEF Kill
    <2>2. DOMAIN phase' = Scripts /\ phase'[deployer] # "done" /\ DOMAIN sameNode' = Scripts
      BY <1>1, <2>1 DEF IInv, Typed
    <2> QED
      BY <1>1, <2>1, <2>2, ForgetIInv
  <1>8. CASE UNCHANGED vars
    <2>1. UNCHANGED <<chain, phase, made, deploymentJson, env, sameNode, saved>>
      BY <1>8 DEF vars
    <2> QED
      BY <2>1 DEF IInv, Typed, ScriptsKnow, FileTells, SavedIsExported, Deployed,
                  IsWorkingRegistry, IsContract
  <1> QED
    BY <1>2, <1>4, <1>5, <1>6, <1>7, <1>8, DeployNextIInv, FileIInv, ChainIInv DEF Next

-----------------------------------------------------------------------------

\* Whatever fails, restarts or interferes: a deployer that has written its
\* deployment.json (deploy-and-seed.ts) on the node that still runs exports
\* (docker-compose.yml) a FactRegistry that works.
THEOREM ExportsWhatItSaved == Spec => []SavedIsExported
  <1>1. Init => IInv
    BY InitIInv
  <1>2. IInv /\ [Next]_vars => IInv'
    BY NextIInv
  <1>3. IInv => SavedIsExported
    BY DEF IInv
  <1> QED
    BY <1>1, <1>2, <1>3, PTL DEF Spec

\* A backend whose address came from an undisturbed deployment finds a working
\* FactRegistry after any undisturbed deployment on the node that then runs.
THEOREM RedeployedAtSameAddress == Spec => []AddressSurvivesRestart
  <1>1. Init => IInv
    BY InitIInv
  <1>2. IInv /\ [Next]_vars => IInv'
    BY NextIInv
  <1>3. IInv => AddressSurvivesRestart
    <2> SUFFICES ASSUME IInv, NEW s \in Scripts, made[s] = Undisturbed, sameNode[s],
                        backend = AddressOf(deployer, Undisturbed, "FactRegistry")
                 PROVE  IsWorkingRegistry(backend)
      BY DEF AddressSurvivesRestart
    <2>1. Deployed(Undisturbed)
      BY DEF IInv, ScriptsKnow
    <2>2. Undisturbed \in Seq(Nat) /\ Len(Undisturbed) = 4
      BY DEF Undisturbed
    <2> QED
      BY <2>1, <2>2, DeployedWorks
  <1> QED
    BY <1>1, <1>2, <1>3, PTL DEF Spec

=============================================================================
