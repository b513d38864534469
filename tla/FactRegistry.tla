---------------------------- MODULE FactRegistry ----------------------------
(***************************************************************************)
(* The FactRegistry contract (blockchain/contracts/FactRegistry.sol).      *)
(*                                                                         *)
(* A call of submitVerifiedFact is a record of its nine arguments; Calls   *)
(* is any set of them: the contract does not compare the typed arguments   *)
(* with publicInputs, so neither does this module.  A call that fails a    *)
(* require reverts, which leaves the storage as it was, so it is a         *)
(* stuttering step here (the nonce it uses up is the node's affair).       *)
(* bytes32 values are opaque, keccak256 of the packed key fields is        *)
(* injective on them (the fields have fixed width), and Zero stands for    *)
(* the zero word of an unwritten slot.                                     *)
(*                                                                         *)
(* accepted is a history variable that no program reads: the VerifiedFacts *)
(* in the order in which the contract stored them.  What a reader of the   *)
(* chain sees of it is eventLog, whose entries carry far less.             *)
(***************************************************************************)
EXTENDS Integers, Sequences, FiniteSets

CONSTANTS
    Calls,             \* argument records of submitVerifiedFact
    Addresses,         \* accounts that may send a transaction
    Zero,              \* the zero word
    Verify(_, _),      \* INoirVerifier.verify(proof, publicInputs)
    MaxTimestamp       \* bound on block.timestamp

ASSUME FactRegistryAssumption ==
    /\ MaxTimestamp \in Nat \ {0}
    /\ \A c \in Calls : c.validUntil \in Nat
    /\ \A c \in Calls : Verify(c.proof, c.publicInputs) \in BOOLEAN

VARIABLES
    facts,             \* mapping(bytes32 => VerifiedFact)
    usedNullifiers,    \* mapping(bytes32 => bool)
    timestamp,         \* block.timestamp
    accepted           \* history: facts stored, in order

vars == <<facts, usedNullifiers, timestamp, accepted>>

-----------------------------------------------------------------------------

FactKey(verifierIdHash, subjectTag, factTypeHash) ==
    <<verifierIdHash, subjectTag, factTypeHash>>

KeyOf(c) == FactKey(c.verifierIdHash, c.subjectTag, c.factTypeHash)

FactKeys == {KeyOf(c) : c \in Calls}
Nullifiers == {c.nullifier : c \in Calls}
Timestamps == 1..MaxTimestamp

EmptyFact ==
    [verifierIdHash |-> Zero, subjectTag |-> Zero, factTypeHash |-> Zero,
     issuerPolicyRoot |-> Zero, schemaHash |-> Zero, nullifier |-> Zero,
     verifiedAt |-> 0, validUntil |-> 0, submitter |-> Zero, exists |-> FALSE]

\* Mutants of NewFact: a struct without its flag, and one dated by the client.
NewFactUnflagged(c, sender, time) ==
    [verifierIdHash |-> c.verifierIdHash, subjectTag |-> c.subjectTag,
     factTypeHash |-> c.factTypeHash, issuerPolicyRoot |-> c.issuerPolicyRoot,
     schemaHash |-> c.schemaHash, nullifier |-> c.nullifier,
     verifiedAt |-> time, validUntil |-> c.validUntil,
     submitter |-> sender, exists |-> FALSE]

NewFactDatedByClient(c, sender, time) ==
    [NewFactUnflagged(c, sender, time) EXCEPT !.verifiedAt = c.validUntil, !.exists = TRUE]

NewFact(c, sender, time) ==
    [verifierIdHash |-> c.verifierIdHash, subjectTag |-> c.subjectTag,
     factTypeHash |-> c.factTypeHash, issuerPolicyRoot |-> c.issuerPolicyRoot,
     schemaHash |-> c.schemaHash, nullifier |-> c.nullifier,
     verifiedAt |-> time, validUntil |-> c.validUntil,
     submitter |-> sender, exists |-> TRUE]

VerifiedFacts ==
    [verifierIdHash : {c.verifierIdHash : c \in Calls},
     subjectTag : {c.subjectTag : c \in Calls},
     factTypeHash : {c.factTypeHash : c \in Calls},
     issuerPolicyRoot : {c.issuerPolicyRoot : c \in Calls},
     schemaHash : {c.schemaHash : c \in Calls},
     nullifier : Nullifiers, verifiedAt : Timestamps,
     validUntil : {c.validUntil : c \in Calls},
     submitter : Addresses, exists : {TRUE}]

\* The event emitted for a fact: its key and four fields, but neither its
\* nullifier nor its validUntil.
FactVerified(fact) ==
    [factKey |-> KeyOf(fact), subjectTag |-> fact.subjectTag,
     verifierIdHash |-> fact.verifierIdHash, factTypeHash |-> fact.factTypeHash,
     submitter |-> fact.submitter]

\* The events of the contract, one at the end of each accepted call.
eventLog == [i \in DOMAIN accepted |-> FactVerified(accepted[i])]

-----------------------------------------------------------------------------

Init ==
    /\ facts = [k \in FactKeys |-> EmptyFact]
    /\ usedNullifiers = [n \in Nullifiers |-> FALSE]
    /\ timestamp = 1
    /\ accepted = <<>>

\* Mutants of Accepts: the nullifier is not looked up; an old package is refused.
AcceptsReplay(c) == Verify(c.proof, c.publicInputs)

AcceptsUnexpired(c) ==
    /\ Verify(c.proof, c.publicInputs)
    /\ ~usedNullifiers[c.nullifier]
    /\ timestamp <= c.validUntil

\* The two requires: a proof the verifier accepts, a nullifier not yet used.
Accepts(c) ==
    /\ Verify(c.proof, c.publicInputs)
    /\ ~usedNullifiers[c.nullifier]

\* Mutant of SubmitVerifiedFact: the first fact of a key is never replaced.
SubmitKeepsFirst(sender, c) ==
    /\ Accepts(c)
    /\ facts' = [facts EXCEPT ![KeyOf(c)] =
                    IF @.exists THEN @ ELSE NewFact(c, sender, timestamp)]
    /\ usedNullifiers' = [usedNullifiers EXCEPT ![c.nullifier] = TRUE]
    /\ accepted' = Append(accepted, NewFact(c, sender, timestamp))
    /\ UNCHANGED timestamp

SubmitVerifiedFact(sender, c) ==
    /\ Accepts(c)
    /\ facts' = [facts EXCEPT ![KeyOf(c)] = NewFact(c, sender, timestamp)]
    /\ usedNullifiers' = [usedNullifiers EXCEPT ![c.nullifier] = TRUE]
    /\ accepted' = Append(accepted, NewFact(c, sender, timestamp))
    /\ UNCHANGED timestamp

\* The transactions of a block share a timestamp; the next block's is later.
NextBlock ==
    /\ \E t \in Timestamps : t > timestamp /\ timestamp' = t
    /\ UNCHANGED <<facts, usedNullifiers, accepted>>

Next ==
    \/ \E sender \in Addresses, c \in Calls : SubmitVerifiedFact(sender, c)
    \/ NextBlock

Spec == Init /\ [][Next]_vars

-----------------------------------------------------------------------------

\* The view functions; a key never written reads as the empty struct.
GetFact(key) == IF key \in FactKeys THEN facts[key] ELSE EmptyFact

\* Mutant of IsFactValid: the comparison the wrong way round.
IsFactValidReversed(key) ==
    LET fact == GetFact(key)
    IN  fact.exists /\ (fact.validUntil = 0 \/ fact.validUntil <= timestamp)

IsFactValid(key) ==
    LET fact == GetFact(key)
    IN  /\ fact.exists
        /\ fact.validUntil = 0 \/ timestamp <= fact.validUntil

-----------------------------------------------------------------------------

\* Every slot holds a whole VerifiedFact or is unwritten, and the clock and
\* the log have their types.
TypeOK ==
    /\ facts \in [FactKeys -> VerifiedFacts \cup {EmptyFact}]
    /\ usedNullifiers \in [Nullifiers -> BOOLEAN]
    /\ timestamp \in Timestamps
    /\ accepted \in Seq(VerifiedFacts)

\* A nullifier is spent at most once, whoever submits and however many
\* packages carry it: no two stored facts ever had the same nullifier.
NullifierSpentOnce ==
    \A i, j \in DOMAIN accepted :
        accepted[i].nullifier = accepted[j].nullifier => i = j

LastEventOf(k, i) ==
    /\ eventLog[i].factKey = k
    /\ \A j \in DOMAIN eventLog : j > i => eventLog[j].factKey # k

\* What a reader of the events alone may conclude: a key has a fact exactly if
\* an event names it, and then the stored fact's parties and submitter are
\* those of the last such event; and as many nullifiers are spent as there are
\* events.  Which ones, and until when a fact is valid, the events do not tell.
EventsTellFacts ==
    /\ \A k \in FactKeys :
         facts[k].exists <=> \E i \in DOMAIN eventLog : LastEventOf(k, i)
    /\ \A k \in FactKeys, i \in DOMAIN eventLog :
         LastEventOf(k, i) => FactVerified(facts[k]) = eventLog[i]
    /\ Cardinality({n \in Nullifiers : usedNullifiers[n]}) = Len(eventLog)

\* A missing or expired fact becomes valid (isFactValid) only by a submission
\* of that very step whose nullifier argument was unused; time passing, or an
\* unchanged call repeated, never revives it.  That the proof was made for this
\* nullifier is not said: the contract takes the argument as it comes, so an
\* earlier proof sent with another nullifier argument does revive a fact.
RevivedOnlyByUnusedNullifier ==
    [][\A k \in FactKeys :
         ~IsFactValid(k) /\ IsFactValid(k)' =>
            /\ ~usedNullifiers[facts'[k].nullifier]
            /\ facts'[k].verifiedAt = timestamp]_vars

\* The contract implements the ledger of verified facts.
Ledger == INSTANCE FactLedger WITH ledger <- accepted, Recordable <- VerifiedFacts
ImplementsLedger == Ledger!Spec

=============================================================================
