------------------------ MODULE IssuerRegistryProofs ------------------------
(***************************************************************************)
(* The event log of IssuerRegistry explains its storage, its events        *)
(* alternate, and it implements the set of trusted issuers: for every set  *)
(* of issuers, keys and accounts.                                          *)
(***************************************************************************)
EXTENDS IssuerRegistry, TLAPS

\* An issuer without events is unwritten; the last event of any other tells
\* whether it is active.
LastEventTells ==
    \A id \in IssuerIds :
        \/ /\ issuers[id] = NoInfo
           /\ \A i \in DOMAIN log : log[i].issuerIdHash # id
        \/ \E i \in DOMAIN log :
              /\ LastEventOf(id, i)
              /\ issuers[id].active <=> log[i].event = "IssuerAdded"

\* The stored key is that of the last IssuerAdded event.
LastAddedTells ==
    \A id \in IssuerIds :
        \/ /\ issuers[id] = NoInfo
           /\ \A i \in DOMAIN log : log[i].issuerIdHash # id
        \/ \E i \in DOMAIN log :
              LastAddedOf(id, i) /\ issuers[id].pubkeyHash = log[i].pubkeyHash

IInv == TypeOK /\ LastEventTells /\ LastAddedTells /\ EventsAlternate

-----------------------------------------------------------------------------

LEMMA EventFields ==
    ASSUME NEW id \in IssuerIds, NEW pk \in PubkeyHashes
    PROVE  /\ IssuerAdded(id, pk) \in Events
           /\ IssuerAdded(id, pk).event = "IssuerAdded"
           /\ IssuerAdded(id, pk).issuerIdHash = id
           /\ IssuerAdded(id, pk).pubkeyHash = pk
           /\ IssuerDeactivated(id) \in Events
           /\ IssuerDeactivated(id).event = "IssuerDeactivated"
           /\ IssuerDeactivated(id).issuerIdHash = id
BY DEF IssuerAdded, IssuerDeactivated, Events

\* What Emit does to the log, entry by entry.
LEMMA EmitAppends ==
    ASSUME log \in Seq(Events), NEW event \in Events, Emit(event)
    PROVE  \E n \in Nat :
             /\ DOMAIN log = 1..n
             /\ DOMAIN log' = 1..(n + 1)
             /\ \A i \in 1..n : log'[i] = log[i]
             /\ log'[n + 1] = event
             /\ log' \in Seq(Events)
<1>1. log' = Append(log, event)  BY DEF Emit
<1>2. Len(log) \in Nat /\ DOMAIN log = 1..Len(log)  OBVIOUS
<1> HIDE DEF Events
<1>3. QED  BY <1>1, <1>2

LEMMA InvInit == Init => IInv
<1> SUFFICES ASSUME Init PROVE IInv  OBVIOUS
<1>1. TypeOK
  BY IssuerRegistryAssumption DEF Init, TypeOK, Timestamps, IssuerRegistryAssumption
<1>2. DOMAIN log = {} /\ \A id \in IssuerIds : issuers[id] = NoInfo
  BY DEF Init
<1>3. QED  BY <1>1, <1>2 DEF IInv, LastEventTells, LastAddedTells, EventsAlternate

\* Appending the opposite of an issuer's last event keeps its events apart.
LEMMA AlternationKept ==
    ASSUME EventsAlternate, NEW n \in Nat, DOMAIN log = 1..n,
           DOMAIN log' = 1..(n + 1), \A i \in 1..n : log'[i] = log[i],
           NEW id, log'[n + 1].issuerIdHash = id,
           \/ /\ \A i \in 1..n : log[i].issuerIdHash # id
              /\ log'[n + 1].event # "IssuerDeactivated"
           \/ \E l \in 1..n :
                /\ LastEventOf(id, l)
                /\ log[l].event # log'[n + 1].event
                /\ log'[n + 1].event = "IssuerDeactivated" =>
                      log[l].event = "IssuerAdded"
    PROVE  EventsAlternate'
<1>1. ASSUME NEW i \in 1..(n + 1), NEW j \in 1..(n + 1), i < j,
             log'[i].issuerIdHash = log'[j].issuerIdHash,
             log'[i].event = log'[j].event
      PROVE  \E k \in (i + 1)..(j - 1) :
                log'[k].issuerIdHash = log'[i].issuerIdHash
                /\ log'[k].event # log'[i].event
  <2>1. i \in 1..n  BY <1>1
  <2>2. CASE j \in 1..n
    <3>1. PICK k \in (i + 1)..(j - 1) :
             log[k].issuerIdHash = log[i].issuerIdHash /\ log[k].event # log[i].event
      BY <1>1, <2>1, <2>2 DEF EventsAlternate
    <3>2. k \in 1..n  BY <2>1, <2>2
    <3>3. QED  BY <2>1, <3>1, <3>2
  <2>3. CASE j = n + 1
    <3>1. log[i].issuerIdHash = id  BY <1>1, <2>1, <2>3
    <3>2. PICK l \in 1..n : LastEventOf(id, l) /\ log[l].event # log'[n + 1].event
      BY <2>1, <3>1
    <3>3. log[l].issuerIdHash = id /\ ~(i > l)
      BY <2>1, <3>1, <3>2 DEF LastEventOf
    <3>4. i # l  BY <1>1, <2>1, <2>3, <3>2
    <3>5. l \in (i + 1)..(j - 1)  BY <2>1, <2>3, <3>3, <3>4
    <3>6. QED  BY <1>1, <2>1, <2>3, <3>1, <3>2, <3>3, <3>5
  <2>4. QED  BY <2>2, <2>3
<1>2. ASSUME NEW j \in 1..(n + 1), log'[j].event = "IssuerDeactivated"
      PROVE  \E i \in 1..(j - 1) :
                log'[i].issuerIdHash = log'[j].issuerIdHash
                /\ log'[i].event = "IssuerAdded"
  <2>1. CASE j \in 1..n
    <3>1. PICK i \in 1..(j - 1) :
             log[i].issuerIdHash = log[j].issuerIdHash /\ log[i].event = "IssuerAdded"
      BY <1>2, <2>1 DEF EventsAlternate
    <3>2. i \in 1..n  BY <2>1
    <3>3. QED  BY <2>1, <3>1, <3>2
  <2>2. CASE j = n + 1
    <3>1. PICK l \in 1..n : LastEventOf(id, l) /\ log[l].event = "IssuerAdded"
      BY <1>2, <2>2
    <3>2. log[l].issuerIdHash = id  BY <3>1 DEF LastEventOf
    <3>3. QED  BY <2>2, <3>1, <3>2
  <2>3. QED  BY <2>1, <2>2
<1>3. QED  BY <1>1, <1>2 DEF EventsAlternate

\* The last event of every issuer, and its last IssuerAdded event, after an
\* event of one of them.
LEMMA LastEventKept ==
    ASSUME NEW n \in Nat, DOMAIN log = 1..n, DOMAIN log' = 1..(n + 1),
           \A i \in 1..n : log'[i] = log[i],
           NEW id, log'[n + 1].issuerIdHash = id
    PROVE  /\ LastEventOf(id, n + 1)'
           /\ \A other : other # id =>
                \A i \in 1..n : /\ LastEventOf(other, i) => LastEventOf(other, i)'
                                /\ LastAddedOf(other, i) => LastAddedOf(other, i)'
           /\ log'[n + 1].event = "IssuerAdded" => LastAddedOf(id, n + 1)'
           /\ log'[n + 1].event # "IssuerAdded" =>
                \A i \in 1..n : LastAddedOf(id, i) => LastAddedOf(id, i)'
BY DEF LastEventOf, LastAddedOf

LEMMA InvAdd ==
    ASSUME IInv, NEW sender \in Addresses, NEW id \in IssuerIds,
           NEW pk \in PubkeyHashes, AddIssuer(sender, id, pk)
    PROVE  IInv'
<1> DEFINE event == IssuerAdded(id, pk)
           info == [pubkeyHash |-> pk, active |-> TRUE, addedAt |-> timestamp]
<1>1. /\ event \in Events /\ event.event = "IssuerAdded"
      /\ event.issuerIdHash = id /\ event.pubkeyHash = pk
  BY EventFields
<1>2. PICK n \in Nat :
        /\ DOMAIN log = 1..n /\ DOMAIN log' = 1..(n + 1)
        /\ \A i \in 1..n : log'[i] = log[i]
        /\ log'[n + 1] = event /\ log' \in Seq(Events)
  BY <1>1, EmitAppends DEF IInv, TypeOK, AddIssuer
<1>3. /\ ~issuers[id].active
      /\ issuers \in [IssuerIds -> IssuerInfos \cup {NoInfo}]
      /\ issuers' = [issuers EXCEPT ![id] = info]
      /\ owner' = owner /\ timestamp' = timestamp /\ info \in IssuerInfos
  BY DEF IInv, TypeOK, AddIssuer, IssuerInfos
<1> HIDE DEF event
<1>4. TypeOK'  BY <1>2, <1>3 DEF IInv, TypeOK
<1>5. LastEventOf(id, n + 1)' /\ LastAddedOf(id, n + 1)'
  BY <1>1, <1>2, LastEventKept
<1>6. n + 1 \in DOMAIN log' /\ DOMAIN log \subseteq DOMAIN log'
  BY <1>2
<1>7. issuers'[id].active /\ issuers'[id].pubkeyHash = pk
  BY <1>3
<1>8. ASSUME NEW o \in IssuerIds, o # id
      PROVE  issuers'[o] = issuers[o]
  BY <1>3, <1>8
<1>9. LastEventTells'
  <2> SUFFICES ASSUME NEW o \in IssuerIds
               PROVE  \/ /\ issuers'[o] = NoInfo
                         /\ \A i \in DOMAIN log' : log'[i].issuerIdHash # o
                      \/ \E i \in DOMAIN log' :
                            /\ LastEventOf(o, i)'
                            /\ issuers'[o].active <=> log'[i].event = "IssuerAdded"
    BY DEF LastEventTells, LastEventOf, NoInfo
  <2>1. CASE o = id  BY <1>1, <1>2, <1>5, <1>6, <1>7, <2>1
  <2>2. CASE o # id /\ issuers[o] = NoInfo
                    /\ \A i \in DOMAIN log : log[i].issuerIdHash # o
    BY <1>1, <1>2, <1>8, <2>2
  <2>3. ASSUME o # id, NEW i \in DOMAIN log, LastEventOf(o, i),
               issuers[o].active <=> log[i].event = "IssuerAdded"
        PROVE  \E l \in DOMAIN log' :
                  /\ LastEventOf(o, l)'
                  /\ issuers'[o].active <=> log'[l].event = "IssuerAdded"
    <3>1. LastEventOf(o, i)'  BY <1>1, <1>2, <2>3, LastEventKept
    <3>2. QED  BY <1>2, <1>6, <1>8, <2>3, <3>1
  <2>4. QED  BY <2>1, <2>2, <2>3 DEF IInv, LastEventTells
<1>10. LastAddedTells'
  <2> SUFFICES ASSUME NEW o \in IssuerIds
               PROVE  \/ /\ issuers'[o] = NoInfo
                         /\ \A i \in DOMAIN log' : log'[i].issuerIdHash # o
                      \/ \E i \in DOMAIN log' :
                            /\ LastAddedOf(o, i)'
                            /\ issuers'[o].pubkeyHash = log'[i].pubkeyHash
    BY DEF LastAddedTells, LastAddedOf, NoInfo
  <2>1. CASE o = id  BY <1>1, <1>2, <1>5, <1>6, <1>7, <2>1
  <2>2. CASE o # id /\ issuers[o] = NoInfo
                    /\ \A i \in DOMAIN log : log[i].issuerIdHash # o
    BY <1>1, <1>2, <1>8, <2>2
  <2>3. ASSUME o # id, NEW i \in DOMAIN log, LastAddedOf(o, i),
               issuers[o].pubkeyHash = log[i].pubkeyHash
        PROVE  \E l \in DOMAIN log' :
                  LastAddedOf(o, l)' /\ issuers'[o].pubkeyHash = log'[l].pubkeyHash
    <3>1. LastAddedOf(o, i)'  BY <1>1, <1>2, <2>3, LastEventKept
    <3>2. QED  BY <1>2, <1>6, <1>8, <2>3, <3>1
  <2>4. QED  BY <2>1, <2>2, <2>3 DEF IInv, LastAddedTells
<1>11. EventsAlternate'
  <2>1. \/ \A i \in 1..n : log[i].issuerIdHash # id
        \/ \E l \in 1..n : LastEventOf(id, l) /\ log[l].event # "IssuerAdded"
    BY <1>2, <1>3 DEF IInv, LastEventTells
  <2>2. QED  BY <1>1, <1>2, <2>1, AlternationKept DEF IInv
<1>12. QED  BY <1>4, <1>9, <1>10, <1>11 DEF IInv

LEMMA InvDeactivate ==
    ASSUME IInv, NEW sender \in Addresses, NEW id \in IssuerIds,
           DeactivateIssuer(sender, id)
    PROVE  IInv'
<1> DEFINE event == IssuerDeactivated(id)
<1>0. event \in Events /\ event.event = "IssuerDeactivated" /\ event.issuerIdHash = id
  BY DEF IssuerDeactivated, Events
<1>1. event.event # "IssuerAdded"  BY <1>0
<1>2. PICK n \in Nat :
        /\ DOMAIN log = 1..n /\ DOMAIN log' = 1..(n + 1)
        /\ \A i \in 1..n : log'[i] = log[i]
        /\ log'[n + 1] = event /\ log' \in Seq(Events)
  BY <1>0, EmitAppends DEF IInv, TypeOK, DeactivateIssuer
<1>3. /\ issuers[id].active
      /\ issuers \in [IssuerIds -> IssuerInfos \cup {NoInfo}]
      /\ issuers' = [issuers EXCEPT ![id].active = FALSE]
      /\ owner' = owner /\ timestamp' = timestamp
  BY DEF IInv, TypeOK, DeactivateIssuer
<1>4. issuers[id] # NoInfo /\ issuers[id] \in IssuerInfos
  BY <1>3 DEF NoInfo
<1>5. /\ issuers'[id] \in IssuerInfos /\ ~issuers'[id].active
      /\ issuers'[id].pubkeyHash = issuers[id].pubkeyHash
      /\ \A o \in IssuerIds : o # id => issuers'[o] = issuers[o]
  BY <1>3, <1>4 DEF IssuerInfos
<1> HIDE DEF event
<1>6. TypeOK'  BY <1>2, <1>3, <1>5 DEF IInv, TypeOK
<1>7. n + 1 \in DOMAIN log' /\ DOMAIN log \subseteq DOMAIN log'
  BY <1>2
<1>8. LastEventOf(id, n + 1)'
  BY <1>0, <1>2, LastEventKept
<1>9. LastEventTells'
  <2> SUFFICES ASSUME NEW o \in IssuerIds
               PROVE  \/ /\ issuers'[o] = NoInfo
                         /\ \A i \in DOMAIN log' : log'[i].issuerIdHash # o
                      \/ \E i \in DOMAIN log' :
                            /\ LastEventOf(o, i)'
                            /\ issuers'[o].active <=> log'[i].event = "IssuerAdded"
    BY DEF LastEventTells, LastEventOf, NoInfo
  <2>1. CASE o = id  BY <1>1, <1>2, <1>5, <1>7, <1>8, <2>1
  <2>2. CASE o # id /\ issuers[o] = NoInfo
                    /\ \A i \in DOMAIN log : log[i].issuerIdHash # o
    BY <1>0, <1>2, <1>5, <2>2
  <2>3. ASSUME o # id, NEW i \in DOMAIN log, LastEventOf(o, i),
               issuers[o].active <=> log[i].event = "IssuerAdded"
        PROVE  \E l \in DOMAIN log' :
                  /\ LastEventOf(o, l)'
                  /\ issuers'[o].active <=> log'[l].event = "IssuerAdded"
    <3>1. LastEventOf(o, i)'  BY <1>0, <1>2, <2>3, LastEventKept
    <3>2. QED  BY <1>2, <1>5, <1>7, <2>3, <3>1
  <2>4. QED  BY <2>1, <2>2, <2>3 DEF IInv, LastEventTells
<1>10. LastAddedTells'
  <2> SUFFICES ASSUME NEW o \in IssuerIds
               PROVE  \/ /\ issuers'[o] = NoInfo
                         /\ \A i \in DOMAIN log' : log'[i].issuerIdHash # o
                      \/ \E i \in DOMAIN log' :
                            /\ LastAddedOf(o, i)'
                            /\ issuers'[o].pubkeyHash = log'[i].pubkeyHash
    BY DEF LastAddedTells, LastAddedOf, NoInfo
  <2>1. CASE o # id /\ issuers[o] = NoInfo
                    /\ \A i \in DOMAIN log : log[i].issuerIdHash # o
    BY <1>0, <1>2, <1>5, <2>1
  <2>2. ASSUME NEW i \in DOMAIN log, LastAddedOf(o, i),
               issuers[o].pubkeyHash = log[i].pubkeyHash
        PROVE  \E l \in DOMAIN log' :
                  LastAddedOf(o, l)' /\ issuers'[o].pubkeyHash = log'[l].pubkeyHash
    <3>1. LastAddedOf(o, i)'
      <4>1. log'[n + 1].issuerIdHash = id /\ log'[n + 1].event # "IssuerAdded"
        BY <1>0, <1>1, <1>2
      <4>2. CASE o = id  BY <1>2, <2>2, <4>1, <4>2, LastEventKept
      <4>3. CASE o # id  BY <1>2, <2>2, <4>1, <4>3, LastEventKept
      <4>4. QED  BY <4>2, <4>3
    <3>2. QED  BY <1>2, <1>5, <1>7, <2>2, <3>1
  <2>3. CASE o = id /\ issuers[o] = NoInfo
    BY <1>4, <2>3
  <2>4. QED  BY <2>1, <2>2, <2>3 DEF IInv, LastAddedTells
<1>11. EventsAlternate'
  <2>1. \E l \in 1..n : LastEventOf(id, l) /\ log[l].event = "IssuerAdded"
    BY <1>2, <1>3, <1>4 DEF IInv, LastEventTells
  <2>2. QED  BY <1>0, <1>2, <2>1, AlternationKept DEF IInv
<1>12. QED  BY <1>6, <1>9, <1>10, <1>11 DEF IInv

LEMMA InvStep == IInv /\ [Next]_vars => IInv'
<1>1. ASSUME IInv, NextBlock \/ UNCHANGED vars PROVE IInv'
  <2>1. UNCHANGED <<owner, issuers, log>> /\ timestamp' \in Timestamps
    BY <1>1 DEF NextBlock, vars, IInv, TypeOK
  <2>2. TypeOK'  BY <1>1, <2>1 DEF IInv, TypeOK
  <2>3. LastEventTells' /\ LastAddedTells'
    BY <1>1, <2>1
       DEF IInv, LastEventTells, LastAddedTells, LastEventOf, LastAddedOf
  <2>4. EventsAlternate'
    BY <1>1, <2>1 DEF IInv, EventsAlternate
  <2>5. QED  BY <2>2, <2>3, <2>4 DEF IInv
<1>2. QED  BY <1>1, InvAdd, InvDeactivate DEF Next

-----------------------------------------------------------------------------

\* Every reachable state satisfies the inductive invariant.
THEOREM Invariance == Spec => []IInv
BY InvInit, InvStep, PTL DEF Spec

\* The registry's storage, clock and log keep their types.
THEOREM TypeCorrect == Spec => []TypeOK
<1>1. IInv => TypeOK  BY DEF IInv
<1>2. QED  BY <1>1, Invariance, PTL

\* Replaying the registry's events always yields its storage.
THEOREM LogExplainsStorage == Spec => []EventsExplainStorage
<1>1. IInv => EventsExplainStorage
  <2> SUFFICES ASSUME IInv, NEW id \in IssuerIds
               PROVE  /\ issuers[id].active <=>
                           \E i \in DOMAIN log :
                              LastEventOf(id, i) /\ log[i].event = "IssuerAdded"
                      /\ \/ /\ issuers[id] = NoInfo
                            /\ \A i \in DOMAIN log : log[i].issuerIdHash # id
                         \/ \E i \in DOMAIN log :
                              /\ LastAddedOf(id, i)
                              /\ issuers[id].pubkeyHash = log[i].pubkeyHash
    BY DEF EventsExplainStorage, IsActive, GetIssuer
  <2>1. Len(log) \in Nat /\ DOMAIN log = 1..Len(log)
    BY DEF IInv, TypeOK
  <2>2. ASSUME NEW i \in DOMAIN log, NEW j \in DOMAIN log,
               LastEventOf(id, i), LastEventOf(id, j)
        PROVE  i = j
    BY <2>1, <2>2 DEF LastEventOf
  <2>3. CASE issuers[id] = NoInfo /\ \A i \in DOMAIN log : log[i].issuerIdHash # id
    BY <2>3 DEF NoInfo, LastEventOf
  <2>4. ASSUME NEW i \in DOMAIN log, LastEventOf(id, i),
               issuers[id].active <=> log[i].event = "IssuerAdded"
        PROVE  issuers[id].active <=>
                  \E j \in DOMAIN log : LastEventOf(id, j) /\ log[j].event = "IssuerAdded"
    BY <2>2, <2>4
  <2>5. QED  BY <2>3, <2>4 DEF IInv, LastEventTells, LastAddedTells
<1>2. QED  BY <1>1, Invariance, PTL

\* The events of an issuer alternate, starting with IssuerAdded.
THEOREM Alternation == Spec => []EventsAlternate
<1>1. IInv => EventsAlternate  BY DEF IInv
<1>2. QED  BY <1>1, Invariance, PTL

\* The registry implements the set of trusted issuers: one key per issuer, and
\* no key replaced while its issuer is active.
THEOREM Refinement == Spec => ImplementsTrustedIssuers
<1>1. Init => Trusted!Init
  BY DEF Init, Trusted!Init, ActivePairs, IsActive, NoInfo
<1>2. IInv /\ [Next]_vars => [Trusted!Next]_ActivePairs
  <2> SUFFICES ASSUME IInv, [Next]_vars PROVE [Trusted!Next]_ActivePairs  OBVIOUS
  <2>1. issuers \in [IssuerIds -> IssuerInfos \cup {NoInfo}]
    BY DEF IInv, TypeOK
  <2>2. ASSUME NEW sender \in Addresses, NEW id \in IssuerIds,
               NEW pk \in PubkeyHashes, AddIssuer(sender, id, pk)
        PROVE  Trusted!Next
    <3>1. /\ ~issuers[id].active
          /\ issuers'[id].active /\ issuers'[id].pubkeyHash = pk
          /\ \A o \in IssuerIds : o # id => issuers'[o] = issuers[o]
      BY <2>1, <2>2 DEF AddIssuer
    <3>2. \A k \in PubkeyHashes : <<id, k>> \notin ActivePairs
      BY <3>1 DEF ActivePairs, IsActive
    <3>3. ActivePairs' = ActivePairs \cup {<<id, pk>>}
      BY <3>1 DEF ActivePairs, IsActive
    <3>4. QED  BY <3>2, <3>3 DEF Trusted!Next, Trusted!Trust
  <2>3. ASSUME NEW sender \in Addresses, NEW id \in IssuerIds,
               DeactivateIssuer(sender, id)
        PROVE  Trusted!Next
    <3> DEFINE pk == issuers[id].pubkeyHash
    <3>1. /\ issuers[id].active /\ ~issuers'[id].active
          /\ \A o \in IssuerIds : o # id => issuers'[o] = issuers[o]
      BY <2>1, <2>3 DEF DeactivateIssuer, IssuerInfos, NoInfo
    <3>2. pk \in PubkeyHashes
      BY <2>1, <3>1 DEF IssuerInfos, NoInfo
    <3>3. <<id, pk>> \in ActivePairs
      BY <3>1 DEF ActivePairs, IsActive
    <3>4. ActivePairs' = ActivePairs \ {<<id, pk>>}
      BY <3>1 DEF ActivePairs, IsActive
    <3>5. QED  BY <3>2, <3>3, <3>4 DEF Trusted!Next, Trusted!Revoke
  <2>4. CASE NextBlock \/ UNCHANGED vars
    BY <2>4 DEF NextBlock, vars, ActivePairs, IsActive
  <2>5. QED  BY <2>2, <2>3, <2>4 DEF Next
<1>3. QED  BY <1>1, <1>2, Invariance, PTL
           DEF Spec, ImplementsTrustedIssuers, Trusted!Spec

=============================================================================
