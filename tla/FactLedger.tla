----------------------------- MODULE FactLedger -----------------------------
(***************************************************************************)
(* What FactRegistry promises to a verifier, without storage slots, proofs *)
(* or fact keys: a ledger of verified facts that only grows, in which a    *)
(* nullifier is spent by one entry and entries are in the order of their   *)
(* verification times.  FactRegistryProofs shows that the contract         *)
(* implements it.                                                          *)
(***************************************************************************)
EXTENDS Integers, Sequences

CONSTANT Recordable      \* the facts that may ever be recorded

VARIABLE ledger          \* the facts recorded so far, oldest first

Unspent(nullifier) ==
    \A i \in DOMAIN ledger : ledger[i].nullifier # nullifier

NotBackdated(time) ==
    \A i \in DOMAIN ledger : ledger[i].verifiedAt <= time

Init == ledger = <<>>

Record(fact) ==
    /\ Unspent(fact.nullifier)
    /\ NotBackdated(fact.verifiedAt)
    /\ ledger' = Append(ledger, fact)

Next == \E fact \in Recordable : Record(fact)

Spec == Init /\ [][Next]_ledger

=============================================================================
