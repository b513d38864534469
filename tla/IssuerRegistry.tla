--------------------------- MODULE IssuerRegistry ---------------------------
(***************************************************************************)
(* The IssuerRegistry contract (blockchain/contracts/IssuerRegistry.sol).  *)
(* A call that fails a require reverts and is a stuttering step.  log is   *)
(* the contract's event log, in the order of emission.                     *)
(***************************************************************************)
EXTENDS Integers, Sequences

CONSTANTS
    IssuerIds,         \* issuerIdHash values
    PubkeyHashes,      \* pubkeyHash values
    Addresses,         \* accounts that may send a transaction
    Deployer,          \* the account that ran the constructor
    Zero,              \* the zero word
    MaxTimestamp,      \* bound on block.timestamp
    MaxEvents          \* bound on the length of the log

ASSUME IssuerRegistryAssumption ==
    /\ Deployer \in Addresses
    /\ MaxTimestamp \in Nat \ {0}
    /\ MaxEvents \in Nat

VARIABLES
    owner,             \* set once, in the constructor
    issuers,           \* mapping(bytes32 => IssuerInfo)
    timestamp,         \* block.timestamp
    log                \* events emitted

vars == <<owner, issuers, timestamp, log>>

Timestamps == 1..MaxTimestamp

NoInfo == [pubkeyHash |-> Zero, active |-> FALSE, addedAt |-> 0]

IssuerInfos ==
    [pubkeyHash : PubkeyHashes, active : BOOLEAN, addedAt : Timestamps]

IssuerAdded(id, pk) == [event |-> "IssuerAdded", issuerIdHash |-> id, pubkeyHash |-> pk]
IssuerDeactivated(id) == [event |-> "IssuerDeactivated", issuerIdHash |-> id]

Events ==
    {IssuerAdded(id, pk) : id \in IssuerIds, pk \in PubkeyHashes}
    \cup {IssuerDeactivated(id) : id \in IssuerIds}

-----------------------------------------------------------------------------

\* The constructor.
Init ==
    /\ owner = Deployer
    /\ issuers = [id \in IssuerIds |-> NoInfo]
    /\ timestamp = 1
    /\ log = <<>>

\* The modifier both operations carry.
OnlyOwner(sender) == sender = owner

Emit(event) ==
    /\ Len(log) < MaxEvents
    /\ log' = Append(log, event)

\* Mutants of AddIssuer: a key rotated while its issuer is active, and a
\* struct without its date.
AddIssuerRotates(sender, id, pk) ==
    /\ OnlyOwner(sender)
    /\ issuers' = [issuers EXCEPT ![id] =
                      [pubkeyHash |-> pk, active |-> TRUE, addedAt |-> timestamp]]
    /\ Emit(IssuerAdded(id, pk))
    /\ UNCHANGED <<owner, timestamp>>

AddIssuerUndated(sender, id, pk) ==
    /\ OnlyOwner(sender)
    /\ ~issuers[id].active
    /\ issuers' = [issuers EXCEPT ![id].pubkeyHash = pk, ![id].active = TRUE]
    /\ Emit(IssuerAdded(id, pk))
    /\ UNCHANGED <<owner, timestamp>>

AddIssuer(sender, id, pk) ==
    /\ OnlyOwner(sender)
    /\ ~issuers[id].active
    /\ issuers' = [issuers EXCEPT ![id] =
                      [pubkeyHash |-> pk, active |-> TRUE, addedAt |-> timestamp]]
    /\ Emit(IssuerAdded(id, pk))
    /\ UNCHANGED <<owner, timestamp>>

\* Mutant of DeactivateIssuer: the struct is deleted.
DeactivateDeletes(sender, id) ==
    /\ OnlyOwner(sender)
    /\ issuers[id].active
    /\ issuers' = [issuers EXCEPT ![id] = NoInfo]
    /\ Emit(IssuerDeactivated(id))
    /\ UNCHANGED <<owner, timestamp>>

DeactivateIssuer(sender, id) ==
    /\ OnlyOwner(sender)
    /\ issuers[id].active
    /\ issuers' = [issuers EXCEPT ![id].active = FALSE]
    /\ Emit(IssuerDeactivated(id))
    /\ UNCHANGED <<owner, timestamp>>

\* The transactions of a block share a timestamp; the next block's is later.
NextBlock ==
    /\ \E t \in Timestamps : t > timestamp /\ timestamp' = t
    /\ UNCHANGED <<owner, issuers, log>>

Next ==
    \/ \E sender \in Addresses, id \in IssuerIds, pk \in PubkeyHashes :
          AddIssuer(sender, id, pk)
    \/ \E sender \in Addresses, id \in IssuerIds : DeactivateIssuer(sender, id)
    \/ NextBlock

Spec == Init /\ [][Next]_vars

-----------------------------------------------------------------------------

\* The view functions.
IsActive(id) == issuers[id].active
GetIssuer(id) == issuers[id]

-----------------------------------------------------------------------------

\* Every slot holds a whole IssuerInfo or is unwritten; the log holds events.
TypeOK ==
    /\ owner \in Addresses
    /\ issuers \in [IssuerIds -> IssuerInfos \cup {NoInfo}]
    /\ timestamp \in Timestamps
    /\ log \in Seq(Events)

\* Entry i is the last event of the issuer, or its last IssuerAdded event.
LastEventOf(id, i) ==
    /\ log[i].issuerIdHash = id
    /\ \A j \in DOMAIN log : j > i => log[j].issuerIdHash # id

LastAddedOf(id, i) ==
    /\ log[i].issuerIdHash = id /\ log[i].event = "IssuerAdded"
    /\ \A j \in DOMAIN log : j > i =>
          ~(log[j].issuerIdHash = id /\ log[j].event = "IssuerAdded")

\* Whoever replays the events knows the registry: an issuer is active exactly
\* when its last event is IssuerAdded, and its stored key, which deactivation
\* leaves in place, is the one of its last IssuerAdded event.
EventsExplainStorage ==
    \A id \in IssuerIds :
        /\ IsActive(id) <=>
             \E i \in DOMAIN log : LastEventOf(id, i) /\ log[i].event = "IssuerAdded"
        /\ \/ /\ GetIssuer(id) = NoInfo
              /\ \A i \in DOMAIN log : log[i].issuerIdHash # id
           \/ \E i \in DOMAIN log :
                LastAddedOf(id, i) /\ GetIssuer(id).pubkeyHash = log[i].pubkeyHash

\* The events of one issuer alternate: two of a kind are never without one of
\* the other kind between them, and the first is IssuerAdded.
EventsAlternate ==
    /\ \A i, j \in DOMAIN log :
         /\ i < j
         /\ log[i].issuerIdHash = log[j].issuerIdHash
         /\ log[i].event = log[j].event
         => \E k \in (i + 1)..(j - 1) :
               log[k].issuerIdHash = log[i].issuerIdHash /\ log[k].event # log[i].event
    /\ \A j \in DOMAIN log : log[j].event = "IssuerDeactivated" =>
         \E i \in 1..(j - 1) :
            log[i].issuerIdHash = log[j].issuerIdHash /\ log[i].event = "IssuerAdded"

\* The pairs the registry vouches for now.
ActivePairs == {<<id, issuers[id].pubkeyHash>> : id \in {i \in IssuerIds : IsActive(i)}}

\* The contract implements the set of trusted issuers: one key per issuer,
\* and no key replaced while its issuer is active.
Trusted == INSTANCE TrustedIssuers
              WITH Issuers <- IssuerIds, Keys <- PubkeyHashes, trusted <- ActivePairs
ImplementsTrustedIssuers == Trusted!Spec

=============================================================================
