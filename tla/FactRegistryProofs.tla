------------------------- MODULE FactRegistryProofs -------------------------
(***************************************************************************)
(* What FactRegistry guarantees for every set of calls, every set of       *)
(* accounts and every verifier, proved from its inductive invariant.       *)
(***************************************************************************)
EXTENDS FactRegistry, FiniteSetTheorems, TLAPS

\* The log only holds facts verified by now, so that appending the fact of
\* this moment keeps it in the order of the verification times.
LogInThePast == \A i \in DOMAIN accepted : accepted[i].verifiedAt <= timestamp

\* facts[k] is fact i of the history, and no later one was stored under k.
LatestAt(k, i) ==
    /\ KeyOf(accepted[i]) = k
    /\ facts[k] = accepted[i]
    /\ \A j \in DOMAIN accepted : j > i => KeyOf(accepted[j]) # k

\* A key holds the last fact stored under it, or is unwritten; the used
\* nullifiers are those of the history.
StorageMatchesHistory ==
    /\ \A k \in FactKeys :
         \/ /\ facts[k] = EmptyFact
            /\ \A i \in DOMAIN accepted : KeyOf(accepted[i]) # k
         \/ \E i \in DOMAIN accepted : LatestAt(k, i)
    /\ \A n \in Nullifiers :
         usedNullifiers[n] <=> \E i \in DOMAIN accepted : accepted[i].nullifier = n

\* One nullifier is spent by each entry.
Spent == {n \in Nullifiers : usedNullifiers[n]}
SpentOnePerEntry == IsFiniteSet(Spent) /\ Cardinality(Spent) = Len(accepted)

\* The inductive invariant.  NullifierSpentOnce alone is not inductive: it
\* needs to know that usedNullifiers covers the log (StorageMatchesHistory).
IInv ==
    /\ TypeOK
    /\ StorageMatchesHistory
    /\ SpentOnePerEntry
    /\ NullifierSpentOnce
    /\ LogInThePast

-----------------------------------------------------------------------------

\* The fact a call stores is a VerifiedFact, filed under the call's own key.
LEMMA NewFactType ==
    ASSUME NEW sender \in Addresses, NEW c \in Calls, NEW t \in Timestamps
    PROVE  /\ NewFact(c, sender, t) \in VerifiedFacts
           /\ NewFact(c, sender, t).nullifier = c.nullifier
           /\ NewFact(c, sender, t).verifiedAt = t
           /\ KeyOf(NewFact(c, sender, t)) = KeyOf(c)
           /\ c.nullifier \in Nullifiers
           /\ KeyOf(c) \in FactKeys
BY DEF NewFact, VerifiedFacts, KeyOf, FactKey, Nullifiers, FactKeys

\* What a submission does to the log, entry by entry.
LEMMA SubmitAppends ==
    ASSUME TypeOK, NEW sender \in Addresses, NEW c \in Calls,
           SubmitVerifiedFact(sender, c)
    PROVE  LET n == Len(accepted)
           IN  /\ n \in Nat
               /\ DOMAIN accepted = 1..n
               /\ Len(accepted') = n + 1
               /\ DOMAIN accepted' = 1..(n + 1)
               /\ \A i \in 1..n : accepted'[i] = accepted[i]
               /\ accepted'[n + 1] = NewFact(c, sender, timestamp)
               /\ accepted' \in Seq(VerifiedFacts)
<1>1. NewFact(c, sender, timestamp) \in VerifiedFacts
  BY NewFactType DEF TypeOK
<1>2. /\ accepted \in Seq(VerifiedFacts)
      /\ accepted' = Append(accepted, NewFact(c, sender, timestamp))
  BY DEF TypeOK, SubmitVerifiedFact
<1> HIDE DEF VerifiedFacts, NewFact
<1>3. QED  BY <1>1, <1>2

LEMMA TypeInit == Init => TypeOK
BY FactRegistryAssumption DEF Init, TypeOK, Timestamps, FactRegistryAssumption

LEMMA TypeStep == TypeOK /\ [Next]_vars => TypeOK'
<1> SUFFICES ASSUME TypeOK, [Next]_vars PROVE TypeOK'  OBVIOUS
<1>1. ASSUME NEW sender \in Addresses, NEW c \in Calls,
             SubmitVerifiedFact(sender, c)
      PROVE  TypeOK'
  <2>1. accepted' \in Seq(VerifiedFacts)
    BY <1>1, SubmitAppends
  <2>2. /\ NewFact(c, sender, timestamp) \in VerifiedFacts
        /\ c.nullifier \in Nullifiers
        /\ KeyOf(c) \in FactKeys
    BY NewFactType DEF TypeOK
  <2>3. QED  BY <1>1, <2>1, <2>2 DEF SubmitVerifiedFact, TypeOK
<1>2. CASE NextBlock
  BY <1>2 DEF NextBlock, TypeOK
<1>3. CASE UNCHANGED vars
  BY <1>3 DEF vars, TypeOK
<1>4. QED  BY <1>1, <1>2, <1>3 DEF Next

-----------------------------------------------------------------------------

\* The storage is what the log says it is, after a submission.
LEMMA SubmitMatchesHistory ==
    ASSUME TypeOK, StorageMatchesHistory,
           NEW sender \in Addresses, NEW c \in Calls,
           SubmitVerifiedFact(sender, c)
    PROVE  StorageMatchesHistory'
<1> DEFINE new == NewFact(c, sender, timestamp)
<1>1. /\ new.nullifier = c.nullifier
      /\ KeyOf(new) = KeyOf(c)
      /\ c.nullifier \in Nullifiers
      /\ KeyOf(c) \in FactKeys
  BY NewFactType DEF TypeOK
<1>2. PICK n \in Nat :
      /\ DOMAIN accepted = 1..n
      /\ DOMAIN accepted' = 1..(n + 1)
      /\ \A i \in 1..n : accepted'[i] = accepted[i]
      /\ accepted'[n + 1] = new
  BY SubmitAppends
<1>3. /\ facts \in [FactKeys -> VerifiedFacts \cup {EmptyFact}]
      /\ facts' = [facts EXCEPT ![KeyOf(c)] = new]
      /\ usedNullifiers \in [Nullifiers -> BOOLEAN]
      /\ usedNullifiers' = [usedNullifiers EXCEPT ![c.nullifier] = TRUE]
  BY DEF TypeOK, SubmitVerifiedFact
<1> HIDE DEF new
<1>4. ASSUME NEW k \in FactKeys
      PROVE  \/ /\ facts'[k] = EmptyFact
                /\ \A i \in DOMAIN accepted' : KeyOf(accepted'[i]) # k
             \/ \E i \in DOMAIN accepted' : LatestAt(k, i)'
  <2>1. CASE k = KeyOf(c)
    <3>1. n + 1 \in DOMAIN accepted'
      BY <1>2
    <3>2. /\ KeyOf(accepted'[n + 1]) = k
          /\ facts'[k] = accepted'[n + 1]
      BY <1>1, <1>2, <1>3, <2>1
    <3>3. \A j \in DOMAIN accepted' : j > n + 1 => KeyOf(accepted'[j]) # k
      BY <1>2
    <3>4. LatestAt(k, n + 1)'
      BY <3>2, <3>3 DEF LatestAt, KeyOf
    <3>5. QED  BY <3>1, <3>4
  <2>2. CASE k # KeyOf(c) /\ facts[k] = EmptyFact
                          /\ \A i \in DOMAIN accepted : KeyOf(accepted[i]) # k
    <3>1. facts'[k] = EmptyFact
      BY <1>3, <2>2
    <3>2. ASSUME NEW i \in DOMAIN accepted'
          PROVE  KeyOf(accepted'[i]) # k
      <4>1. CASE i = n + 1  BY <1>1, <1>2, <2>2, <4>1
      <4>2. CASE i \in 1..n  BY <1>2, <2>2, <4>2
      <4>3. QED  BY <1>2, <4>1, <4>2
    <3>3. QED  BY <3>1, <3>2
  <2>3. ASSUME k # KeyOf(c), NEW i \in DOMAIN accepted, LatestAt(k, i)
        PROVE  \E l \in DOMAIN accepted' : LatestAt(k, l)'
    <3>1. i \in DOMAIN accepted' /\ accepted'[i] = accepted[i]
      BY <1>2
    <3>2. KeyOf(accepted'[i]) = k /\ facts'[k] = accepted'[i]
      BY <1>3, <2>3, <3>1 DEF LatestAt
    <3>3. ASSUME NEW j \in DOMAIN accepted', j > i
          PROVE  KeyOf(accepted'[j]) # k
      <4>1. CASE j = n + 1  BY <1>1, <1>2, <2>3, <4>1
      <4>2. CASE j \in 1..n  BY <1>2, <2>3, <3>3, <4>2 DEF LatestAt
      <4>3. QED  BY <1>2, <4>1, <4>2
    <3>4. LatestAt(k, i)'
      BY <3>2, <3>3 DEF LatestAt, KeyOf
    <3>5. QED  BY <3>1, <3>4
  <2>4. QED  BY <2>1, <2>2, <2>3 DEF StorageMatchesHistory
<1>5. ASSUME NEW m \in Nullifiers
      PROVE  usedNullifiers'[m] <=>
                \E i \in DOMAIN accepted' : accepted'[i].nullifier = m
  <2>1. CASE m = c.nullifier
    <3>1. usedNullifiers'[m]
      BY <1>3, <2>1
    <3>2. n + 1 \in DOMAIN accepted' /\ accepted'[n + 1].nullifier = m
      BY <1>1, <1>2, <2>1
    <3>3. QED  BY <3>1, <3>2
  <2>2. CASE m # c.nullifier
    <3>1. usedNullifiers'[m] <=> usedNullifiers[m]
      BY <1>3, <2>2
    <3>2. ASSUME NEW i \in DOMAIN accepted', accepted'[i].nullifier = m
          PROVE  i \in DOMAIN accepted /\ accepted[i].nullifier = m
      BY <1>1, <1>2, <2>2, <3>2
    <3>3. ASSUME NEW i \in DOMAIN accepted, accepted[i].nullifier = m
          PROVE  i \in DOMAIN accepted' /\ accepted'[i].nullifier = m
      BY <1>2, <3>3
    <3>4. QED  BY <3>1, <3>2, <3>3 DEF StorageMatchesHistory
  <2>3. QED  BY <2>1, <2>2
<1>6. QED  BY <1>4, <1>5 DEF StorageMatchesHistory, LatestAt, KeyOf

\* A submission spends a nullifier that no earlier entry of the log carries.
LEMMA SubmitUnspent ==
    ASSUME TypeOK, StorageMatchesHistory,
           NEW sender \in Addresses, NEW c \in Calls,
           SubmitVerifiedFact(sender, c)
    PROVE  \A i \in DOMAIN accepted : accepted[i].nullifier # c.nullifier
<1>1. c.nullifier \in Nullifiers /\ ~usedNullifiers[c.nullifier]
  BY DEF SubmitVerifiedFact, Accepts, Nullifiers
<1>2. QED  BY <1>1 DEF StorageMatchesHistory

\* So one more nullifier is spent after it.
LEMMA SubmitSpendsOne ==
    ASSUME TypeOK, SpentOnePerEntry,
           NEW sender \in Addresses, NEW c \in Calls,
           SubmitVerifiedFact(sender, c)
    PROVE  SpentOnePerEntry'
<1>1. /\ c.nullifier \in Nullifiers
      /\ ~usedNullifiers[c.nullifier]
      /\ usedNullifiers \in [Nullifiers -> BOOLEAN]
      /\ usedNullifiers' = [usedNullifiers EXCEPT ![c.nullifier] = TRUE]
  BY DEF SubmitVerifiedFact, Accepts, Nullifiers, TypeOK
<1>2. Spent' = Spent \cup {c.nullifier} /\ c.nullifier \notin Spent
  BY <1>1 DEF Spent
<1>3. IsFiniteSet(Spent) /\ Cardinality(Spent) = Len(accepted)
  BY DEF SpentOnePerEntry
<1>4. /\ IsFiniteSet(Spent \cup {c.nullifier})
      /\ Cardinality(Spent \cup {c.nullifier}) = Cardinality(Spent) + 1
  BY <1>2, <1>3, FS_AddElement
<1>5. Len(accepted') = Len(accepted) + 1
  BY SubmitAppends
<1>6. QED  BY <1>2, <1>3, <1>4, <1>5 DEF SpentOnePerEntry

LEMMA InvInit == Init => IInv
<1> SUFFICES ASSUME Init PROVE IInv  OBVIOUS
<1>1. TypeOK  BY TypeInit
<1>2. DOMAIN accepted = {}  BY DEF Init
<1>3. StorageMatchesHistory  BY <1>2 DEF Init, StorageMatchesHistory
<1>4. NullifierSpentOnce /\ LogInThePast
  BY <1>2 DEF NullifierSpentOnce, LogInThePast
<1>5. Spent = {} /\ Len(accepted) = 0
  BY DEF Init, Spent
<1>6. SpentOnePerEntry
  BY <1>5, FS_EmptySet DEF SpentOnePerEntry
<1>7. QED  BY <1>1, <1>3, <1>4, <1>6 DEF IInv

LEMMA InvStep == IInv /\ [Next]_vars => IInv'
<1> SUFFICES ASSUME IInv, [Next]_vars PROVE IInv'  OBVIOUS
<1>1. /\ TypeOK /\ StorageMatchesHistory /\ SpentOnePerEntry
      /\ NullifierSpentOnce /\ LogInThePast
  BY DEF IInv
<1>2. TypeOK'  BY <1>1, TypeStep
<1>3. ASSUME NEW sender \in Addresses, NEW c \in Calls,
             SubmitVerifiedFact(sender, c)
      PROVE  IInv'
  <2> DEFINE n == Len(accepted)
             new == NewFact(c, sender, timestamp)
  <2>1. StorageMatchesHistory'  BY <1>1, <1>3, SubmitMatchesHistory
  <2>2. /\ n \in Nat
        /\ DOMAIN accepted = 1..n
        /\ DOMAIN accepted' = 1..(n + 1)
        /\ \A i \in 1..n : accepted'[i] = accepted[i]
        /\ accepted'[n + 1] = new
    BY <1>1, <1>3, SubmitAppends
  <2>3. /\ new.nullifier = c.nullifier
        /\ new.verifiedAt = timestamp
    BY <1>1, NewFactType DEF TypeOK
  <2>4. \A i \in 1..n : accepted[i].nullifier # c.nullifier
    BY <1>1, <1>3, <2>2, SubmitUnspent
  <2>5. timestamp' = timestamp /\ timestamp \in Nat
    BY <1>1, <1>3 DEF SubmitVerifiedFact, TypeOK, Timestamps
  <2> HIDE DEF n, new
  <2>6. NullifierSpentOnce'
    <3> SUFFICES ASSUME NEW i \in 1..(n + 1), NEW j \in 1..(n + 1),
                        accepted'[i].nullifier = accepted'[j].nullifier
                 PROVE  i = j
      BY <2>2 DEF NullifierSpentOnce
    <3>1. CASE i \in 1..n /\ j \in 1..n
      BY <1>1, <2>2, <3>1 DEF NullifierSpentOnce
    <3>2. CASE i = n + 1 \/ j = n + 1
      BY <2>2, <2>3, <2>4, <3>2
    <3>3. QED  BY <2>2, <3>1, <3>2
  <2>7. LogInThePast'
    <3> SUFFICES ASSUME NEW i \in 1..(n + 1)
                 PROVE  accepted'[i].verifiedAt <= timestamp'
      BY <2>2 DEF LogInThePast
    <3>1. CASE i \in 1..n
      BY <1>1, <2>2, <2>5, <3>1 DEF LogInThePast
    <3>2. CASE i = n + 1
      BY <2>2, <2>3, <2>5, <3>2
    <3>3. QED  BY <2>2, <3>1, <3>2
  <2>8. SpentOnePerEntry'  BY <1>1, <1>3, SubmitSpendsOne
  <2>9. QED  BY <1>2, <2>1, <2>6, <2>7, <2>8 DEF IInv
<1>4. CASE NextBlock
  <2>1. /\ timestamp' > timestamp /\ timestamp \in Nat /\ timestamp' \in Nat
        /\ UNCHANGED <<facts, usedNullifiers, accepted>>
    BY <1>1, <1>4 DEF NextBlock, TypeOK, Timestamps
  <2>2. StorageMatchesHistory' /\ NullifierSpentOnce' /\ SpentOnePerEntry'
    BY <1>1, <2>1
       DEF StorageMatchesHistory, LatestAt, NullifierSpentOnce, SpentOnePerEntry, Spent
  <2>3. LogInThePast'
    <3> SUFFICES ASSUME NEW i \in DOMAIN accepted
                 PROVE  accepted[i].verifiedAt <= timestamp'
      BY <2>1 DEF LogInThePast
    <3>1. accepted[i].verifiedAt <= timestamp
      BY <1>1 DEF LogInThePast
    <3>2. accepted[i].verifiedAt \in Nat
      <4>1. accepted[i] \in VerifiedFacts
        BY <1>1 DEF TypeOK
      <4>2. QED  BY <4>1 DEF VerifiedFacts, Timestamps
    <3>3. QED  BY <2>1, <3>1, <3>2
  <2>4. QED  BY <1>2, <2>2, <2>3 DEF IInv
<1>5. CASE UNCHANGED vars
  BY <1>1, <1>2, <1>5
     DEF vars, IInv, StorageMatchesHistory, LatestAt, SpentOnePerEntry, Spent,
         NullifierSpentOnce, LogInThePast
<1>6. QED  BY <1>3, <1>4, <1>5 DEF Next

-----------------------------------------------------------------------------

\* Every reachable state satisfies the inductive invariant.
THEOREM Invariance == Spec => []IInv
BY InvInit, InvStep, PTL DEF Spec

\* The contract's storage, clock and log keep their types.
THEOREM TypeCorrect == Spec => []TypeOK
<1>1. IInv => TypeOK  BY DEF IInv
<1>2. QED  BY <1>1, Invariance, PTL

\* However many packages carry a nullifier, one fact at most is stored for it.
THEOREM SpentOnce == Spec => []NullifierSpentOnce
<1>1. IInv => NullifierSpentOnce  BY DEF IInv
<1>2. QED  BY <1>1, Invariance, PTL

\* The FactVerified events always tell which keys have a fact, of whom, by whom
\* submitted, and how many nullifiers are spent.
THEOREM EventsTell == Spec => []EventsTellFacts
<1>1. IInv => EventsTellFacts
  <2> SUFFICES ASSUME IInv PROVE EventsTellFacts  OBVIOUS
  <2>1. /\ TypeOK /\ StorageMatchesHistory /\ SpentOnePerEntry
    BY DEF IInv
  <2>2. PICK n \in Nat : Len(accepted) = n /\ DOMAIN accepted = 1..n
    BY <2>1 DEF TypeOK
  <2>3. /\ DOMAIN eventLog = DOMAIN accepted
        /\ Len(eventLog) = n
        /\ \A i \in DOMAIN accepted : /\ eventLog[i] = FactVerified(accepted[i])
                                     /\ eventLog[i].factKey = KeyOf(accepted[i])
    BY <2>2 DEF eventLog, FactVerified
  <2>4. Cardinality({m \in Nullifiers : usedNullifiers[m]}) = Len(eventLog)
    BY <2>1, <2>2, <2>3 DEF SpentOnePerEntry, Spent
  <2>5. ASSUME NEW k \in FactKeys
        PROVE  /\ facts[k].exists <=> \E i \in DOMAIN eventLog : LastEventOf(k, i)
               /\ \A i \in DOMAIN eventLog :
                    LastEventOf(k, i) => FactVerified(facts[k]) = eventLog[i]
    <3>1. CASE facts[k] = EmptyFact /\ \A i \in DOMAIN accepted : KeyOf(accepted[i]) # k
      <4>1. ~facts[k].exists
        BY <3>1 DEF EmptyFact
      <4>2. QED  BY <2>3, <3>1, <4>1 DEF LastEventOf
    <3>2. ASSUME NEW l \in DOMAIN accepted, LatestAt(k, l)
          PROVE  /\ facts[k].exists /\ LastEventOf(k, l)
                 /\ \A i \in DOMAIN eventLog :
                      LastEventOf(k, i) => FactVerified(facts[k]) = eventLog[i]
      <4>1. facts[k].exists
        <5>1. accepted[l] \in VerifiedFacts
          BY <2>1 DEF TypeOK
        <5>2. QED  BY <3>2, <5>1 DEF LatestAt, VerifiedFacts
      <4>2. LastEventOf(k, l)
        BY <2>3, <3>2 DEF LastEventOf, LatestAt
      <4>3. ASSUME NEW i \in DOMAIN eventLog, LastEventOf(k, i)
            PROVE  FactVerified(facts[k]) = eventLog[i]
        <5>1. i = l
          BY <2>2, <2>3, <4>2, <4>3 DEF LastEventOf
        <5>2. QED  BY <2>3, <3>2, <5>1 DEF LatestAt
      <4>4. QED  BY <4>1, <4>2, <4>3
    <3>3. QED  BY <2>1, <2>3, <3>1, <3>2 DEF StorageMatchesHistory
  <2>6. QED  BY <2>4, <2>5 DEF EventsTellFacts
<1>2. QED  BY <1>1, Invariance, PTL

\* Only a submission with an unused nullifier makes an invalid fact valid.
THEOREM RevivalNeedsUnusedNullifier == Spec => RevivedOnlyByUnusedNullifier
<1>1. IInv /\ [Next]_vars =>
        [\A k \in FactKeys :
            ~IsFactValid(k) /\ IsFactValid(k)' =>
               /\ ~usedNullifiers[facts'[k].nullifier]
               /\ facts'[k].verifiedAt = timestamp]_vars
  <2> SUFFICES ASSUME IInv, Next, NEW k \in FactKeys,
                      ~IsFactValid(k), IsFactValid(k)'
               PROVE  /\ ~usedNullifiers[facts'[k].nullifier]
                      /\ facts'[k].verifiedAt = timestamp
    OBVIOUS
  <2>1. TypeOK  BY DEF IInv
  <2>2. ASSUME NEW sender \in Addresses, NEW c \in Calls,
               SubmitVerifiedFact(sender, c)
        PROVE  /\ ~usedNullifiers[facts'[k].nullifier]
               /\ facts'[k].verifiedAt = timestamp
    <3>1. CASE k = KeyOf(c)
      <4>1. facts'[k] = NewFact(c, sender, timestamp)
        BY <2>1, <2>2, <3>1 DEF SubmitVerifiedFact, TypeOK
      <4>2. facts'[k].nullifier = c.nullifier /\ facts'[k].verifiedAt = timestamp
        BY <2>1, <4>1, NewFactType DEF TypeOK
      <4>3. QED  BY <2>2, <4>2 DEF SubmitVerifiedFact, Accepts
    <3>2. CASE k # KeyOf(c)
      <4>1. facts'[k] = facts[k] /\ timestamp' = timestamp
        BY <2>1, <2>2, <3>2 DEF SubmitVerifiedFact, TypeOK
      <4>2. QED  BY <4>1 DEF IsFactValid, GetFact
    <3>3. QED  BY <3>1, <3>2
  <2>3. CASE NextBlock
    <3>1. /\ facts' = facts
          /\ timestamp \in Nat /\ timestamp' \in Nat /\ timestamp < timestamp'
      BY <2>1, <2>3 DEF NextBlock, TypeOK, Timestamps
    <3>2. facts[k].validUntil \in Nat
      <4>1. facts[k] \in VerifiedFacts \cup {EmptyFact}
        BY <2>1 DEF TypeOK
      <4>2. CASE facts[k] = EmptyFact  BY <4>2 DEF EmptyFact
      <4>3. CASE facts[k] \in VerifiedFacts
        <5>1. facts[k].validUntil \in {c.validUntil : c \in Calls}
          BY <4>3 DEF VerifiedFacts
        <5>2. QED  BY <5>1, FactRegistryAssumption DEF FactRegistryAssumption
      <4>4. QED  BY <4>1, <4>2, <4>3
    <3>3. QED  BY <3>1, <3>2 DEF IsFactValid, GetFact
  <2>4. QED  BY <2>2, <2>3 DEF Next
<1>2. QED  BY <1>1, Invariance, PTL DEF Spec, RevivedOnlyByUnusedNullifier

\* The contract implements the append-only ledger, where a nullifier is spent
\* once and entries are in the order of their verification times.
THEOREM Refinement == Spec => ImplementsLedger
<1>1. Init => Ledger!Init
  BY DEF Init, Ledger!Init
<1>2. IInv /\ [Next]_vars => [Ledger!Next]_accepted
  <2> SUFFICES ASSUME IInv, [Next]_vars PROVE [Ledger!Next]_accepted  OBVIOUS
  <2>1. ASSUME NEW sender \in Addresses, NEW c \in Calls,
               SubmitVerifiedFact(sender, c)
        PROVE  Ledger!Next
    <3> DEFINE new == NewFact(c, sender, timestamp)
    <3>1. /\ new \in VerifiedFacts
          /\ new.nullifier = c.nullifier
          /\ new.verifiedAt = timestamp
      BY NewFactType DEF IInv, TypeOK
    <3>2. accepted' = Append(accepted, new)
      BY <2>1 DEF SubmitVerifiedFact
    <3> HIDE DEF new
    <3>3. Ledger!Unspent(new.nullifier)
      BY <2>1, <3>1, SubmitUnspent DEF IInv, Ledger!Unspent
    <3>4. Ledger!NotBackdated(new.verifiedAt)
      BY <3>1 DEF IInv, LogInThePast, Ledger!NotBackdated
    <3>5. QED  BY <3>1, <3>2, <3>3, <3>4 DEF Ledger!Next, Ledger!Record
  <2>2. CASE NextBlock  BY <2>2 DEF NextBlock
  <2>3. CASE UNCHANGED vars  BY <2>3 DEF vars
  <2>4. QED  BY <2>1, <2>2, <2>3 DEF Next
<1>3. QED  BY <1>1, <1>2, Invariance, PTL DEF Spec, ImplementsLedger, Ledger!Spec

=============================================================================
