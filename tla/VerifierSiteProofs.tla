-------------------------- MODULE VerifierSiteProofs --------------------------
(***************************************************************************)
(* What the page of the verifier's site shows, for every text typed into   *)
(* it, every configuration and every word size.                            *)
(*                                                                         *)
(* The invariant follows a lookup from the button to the card: the one     *)
(* lookup under way is for the form that was last sent, and the fact it    *)
(* has read was stored under that form's key at some moment since.  For    *)
(* the expiry it follows the two clocks.                                   *)
(***************************************************************************)
EXTENDS VerifierSite, SequenceTheorems, TLAPS

Text == Seq(0..Other)
Form == [Fields -> Text]

Fact == [verifierIdHash : {c.verifierIdHash : c \in Calls},
         subjectTag : {c.subjectTag : c \in Calls},
         factTypeHash : {c.factTypeHash : c \in Calls},
         issuerPolicyRoot : {c.issuerPolicyRoot : c \in Calls},
         schemaHash : {c.schemaHash : c \in Calls},
         nullifier : {c.nullifier : c \in Calls},
         verifiedAt : Nat, validUntil : Nat, submitter : Addresses, exists : {TRUE}]
     \cup {Registry!EmptyFact}

FactKinds == {"missing", "valid", "expired"}

Card == [kind : FactKinds \cup {"none", "error"}, fact : Fact, block : Nat]

LookupRecord == [form : Form, stage : {"sent", "read", "answered", "lost"},
                 fact : Fact, block : Nat, card : Card]

PageTyped ==
    /\ cfg \in Configs
    /\ form \in Form
    /\ status.id \in Text
    /\ asked.form \in Form
    /\ card \in Card
    /\ lookups \subseteq LookupRecord

\* The log, and the storage it explains.
StorageTyped ==
    /\ accepted \in Seq(Fact)
    /\ asked.since \in 0..Len(accepted)
    /\ timestamp \in Nat
    /\ facts \in [Registry!FactKeys -> Fact]
    /\ \A i \in 1..Len(accepted) : Registry!KeyOf(accepted[i]) \in Registry!FactKeys
    /\ \A k \in Registry!FactKeys : FactAfter(Len(accepted), k, facts[k])

\* fact was stored, at some moment since the button was pressed, under the key
\* that the backend makes of the form.
Seen(fact) ==
    \E id \in IdsAsked : \E n \in asked.since..Len(accepted) :
        FactAfter(n, Registry!FactKey(HexToBytes32(id),
                                      HexToBytes32(asked.form["subjectTag"]),
                                      HexToBytes32(asked.form["factTypeHash"])), fact)

\* What a card of a fact says.
Says(shown) ==
    shown.kind \in FactKinds =>
        /\ shown.fact.exists <=> shown.kind # "missing"
        /\ Seen(shown.fact)

FollowsLookup(l) ==
    /\ l.form = asked.form
    /\ l.stage = "read" => Seen(l.fact)
    /\ l.stage = "answered" => Says(l.card)

OneLookup ==
    /\ OneAtATime
    /\ \A l \in lookups : FollowsLookup(l)
    /\ lookups = {} => Says(card)

ClocksAgree ==
    /\ now \in Nat
    /\ timestamp <= now + Ahead
    /\ \A l \in lookups : l.stage = "read" => l.block <= now + Ahead

\* VerifiedWasValid for any card.
InTime(shown) ==
    shown.kind = "valid" =>
        /\ shown.fact.exists
        /\ shown.fact.validUntil = 0 \/ shown.block <= shown.fact.validUntil + Ahead

CardsInTime ==
    /\ InTime(card)
    /\ \A l \in lookups : l.stage = "answered" => InTime(l.card)

IInv == PageTyped /\ StorageTyped /\ OneLookup /\ ClocksAgree /\ CardsInTime

-----------------------------------------------------------------------------

LEMMA EmptyIsFact ==
  /\ Registry!EmptyFact \in Fact
  /\ Registry!EmptyFact.exists = FALSE
  /\ \A kind \in {"none", "error"} : NoFactCard(kind) \in Card /\ NoFactCard(kind).kind = kind
  BY DEF Fact, Card, NoFactCard, Registry!EmptyFact

LEMMA FactsDated == \A fact \in Fact : fact.validUntil \in Nat
  <1> SUFFICES ASSUME NEW fact \in Fact PROVE fact.validUntil \in Nat
    OBVIOUS
  <1>1. CASE fact = Registry!EmptyFact
    BY <1>1 DEF Registry!EmptyFact
  <1>2. CASE fact # Registry!EmptyFact
    BY <1>2 DEF Fact
  <1> QED
    BY <1>1, <1>2

LEMMA InitIInv == Init => IInv
  <1> SUFFICES ASSUME Init PROVE IInv
    OBVIOUS
  <1>1. form \in Form /\ asked.form \in Form /\ status.id \in Text
    BY DEF Init, Form, Text
  <1>2. PageTyped
    BY <1>1, EmptyIsFact DEF Init, PageTyped
  <1>3. StorageTyped
    <2>1. /\ accepted = << >> /\ timestamp = 1 /\ asked.since = 0
          /\ facts = [k \in Registry!FactKeys |-> Registry!EmptyFact]
      BY DEF Init, Registry!Init
    <2>2. \A k \in Registry!FactKeys : FactAfter(Len(accepted), k, facts[k])
      BY <2>1 DEF FactAfter
    <2> QED
      BY <2>1, <2>2, EmptyIsFact DEF StorageTyped
  <1>4. OneLookup
    BY EmptyIsFact DEF Init, OneLookup, OneAtATime, Says, FactKinds
  <1>5. ClocksAgree /\ CardsInTime
    BY EmptyIsFact, VerifierSiteAssumption
       DEF Init, Registry!Init, ClocksAgree, CardsInTime, InTime
  <1> QED
    BY <1>2, <1>3, <1>4, <1>5 DEF IInv

-----------------------------------------------------------------------------

\* What was stored after n submissions is not changed by a later one.
LEMMA PastStays ==
  ASSUME accepted \in Seq(Fact), NEW new \in Fact, accepted' = Append(accepted, new),
         NEW n \in 0..Len(accepted), NEW k, NEW fact, FactAfter(n, k, fact)
  PROVE  FactAfter(n, k, fact)'
  <1>1. \A i \in 1..n : accepted'[i] = accepted[i]
    OBVIOUS
  <1>2. \A i \in 1..n : \A j \in (i + 1)..n : j \in 1..n
    OBVIOUS
  <1> QED
    BY <1>1, <1>2 DEF FactAfter, Registry!KeyOf

LEMMA SeenStays ==
  ASSUME accepted \in Seq(Fact), NEW new \in Fact, accepted' = Append(accepted, new),
         UNCHANGED asked, asked.since \in 0..Len(accepted), NEW fact, Seen(fact)
  PROVE  Seen(fact)'
  <1>1. PICK id \in IdsAsked, n \in asked.since..Len(accepted) :
           FactAfter(n, Registry!FactKey(HexToBytes32(id),
                                      HexToBytes32(asked.form["subjectTag"]),
                                      HexToBytes32(asked.form["factTypeHash"])), fact)
    BY DEF Seen
  <1> DEFINE k == Registry!FactKey(HexToBytes32(id), HexToBytes32(asked.form["subjectTag"]),
                                   HexToBytes32(asked.form["factTypeHash"]))
  <1>2. n \in 0..Len(accepted) /\ n \in asked.since..Len(accepted')
    OBVIOUS
  <1>3. FactAfter(n, k, fact)'
    <2> HIDE DEF k
    <2>1. PICK key : key = k
      OBVIOUS
    <2>2. FactAfter(n, key, fact)
      BY <1>1, <2>1 DEF k
    <2>3. FactAfter(n, key, fact)'
      BY <1>2, <2>2, PastStays
    <2>4. k' = k
      BY DEF k
    <2> QED
      BY <2>1, <2>3, <2>4 DEF FactAfter
  <1>4. IdsAsked' = IdsAsked
    BY DEF IdsAsked
  <1> QED
    BY <1>2, <1>3, <1>4 DEF Seen

\* A submission: the log grows, and the storage follows it.
LEMMA SubmissionStorage ==
  ASSUME StorageTyped, UNCHANGED asked, NEW sender \in Addresses, NEW c \in Calls,
         Registry!SubmitVerifiedFact(sender, c)
  PROVE  /\ StorageTyped'
         /\ \E new \in Fact : accepted' = Append(accepted, new)
  <1> DEFINE new == Registry!NewFact(c, sender, timestamp)
             L == Len(accepted)
             key == Registry!KeyOf(c)
  <1>1. /\ accepted' = Append(accepted, new) /\ timestamp' = timestamp
        /\ facts' = [facts EXCEPT ![key] = new]
    BY DEF Registry!SubmitVerifiedFact
  <1>2. new \in Fact
    BY VerifierSiteAssumption DEF Registry!NewFact, Fact, StorageTyped
  <1>3. Registry!KeyOf(new) = key /\ key \in Registry!FactKeys
    BY DEF Registry!NewFact, Registry!KeyOf, Registry!FactKeys
  <1> HIDE DEF new, key
  <1>4. /\ accepted' \in Seq(Fact) /\ Len(accepted') = L + 1 /\ L \in Nat
        /\ \A i \in 1..L : accepted'[i] = accepted[i]
        /\ accepted'[L + 1] = new
    BY <1>1, <1>2 DEF StorageTyped
  <1>5. \A i \in 1..(L + 1) : i \in 1..L \/ i = L + 1
    BY <1>4
  <1>6. \A i \in 1..Len(accepted') : Registry!KeyOf(accepted'[i]) \in Registry!FactKeys
    BY <1>3, <1>4, <1>5 DEF StorageTyped
  <1> DEFINE After(n, k, fact) ==
               \/ fact = Registry!EmptyFact
                  /\ \A i \in 1..n : Registry!KeyOf(accepted'[i]) # k
               \/ \E i \in 1..n : /\ Registry!KeyOf(accepted'[i]) = k /\ fact = accepted'[i]
                                  /\ \A j \in (i + 1)..n : Registry!KeyOf(accepted'[j]) # k
  <1>7. ASSUME NEW k \in Registry!FactKeys PROVE After(L + 1, k, facts'[k])
    <2>1. CASE k = key
      <3>1. facts'[k] = new
        BY <1>1, <1>3, <2>1 DEF StorageTyped
      <3>2. L + 1 \in 1..(L + 1) /\ (L + 2)..(L + 1) = {} /\ (L + 1) + 1 = L + 2
        BY <1>4
      <3>3. Registry!KeyOf(accepted'[L + 1]) = k
        BY <1>3, <1>4, <2>1
      <3> QED
        BY <1>4, <3>1, <3>2, <3>3
    <2>2. CASE k # key
      <3>1. facts'[k] = facts[k]
        BY <1>1, <2>2 DEF StorageTyped
      <3>2. FactAfter(L, k, facts[k])
        BY DEF StorageTyped
      <3>3. Registry!KeyOf(accepted'[L + 1]) # k
        BY <1>3, <1>4, <2>2
      <3>4. CASE facts[k] = Registry!EmptyFact /\ \A i \in 1..L : Registry!KeyOf(accepted[i]) # k
        BY <1>4, <1>5, <3>1, <3>3, <3>4
      <3>5. ASSUME NEW i \in 1..L, Registry!KeyOf(accepted[i]) = k, facts[k] = accepted[i],
                   \A j \in (i + 1)..L : Registry!KeyOf(accepted[j]) # k
            PROVE  After(L + 1, k, facts'[k])
        <4>1. i \in 1..(L + 1) /\ accepted'[i] = accepted[i]
          BY <1>4
        <4>2. \A j \in (i + 1)..(L + 1) : Registry!KeyOf(accepted'[j]) # k
          <5> SUFFICES ASSUME NEW j \in (i + 1)..(L + 1)
                       PROVE  Registry!KeyOf(accepted'[j]) # k
            OBVIOUS
          <5>1. (j \in (i + 1)..L /\ j \in 1..L) \/ j = L + 1
            BY <1>4
          <5> QED
            BY <1>4, <3>3, <3>5, <5>1
        <4> QED
          BY <3>1, <3>5, <4>1, <4>2
      <3> QED
        BY <3>2, <3>4, <3>5 DEF FactAfter
    <2> QED
      BY <2>1, <2>2
  <1>8. asked'.since \in 0..Len(accepted') /\ timestamp' \in Nat
    BY <1>1, <1>4 DEF StorageTyped
  <1>9. facts' \in [Registry!FactKeys -> Fact]
    BY <1>1, <1>2, <1>3 DEF StorageTyped
  <1>10. \A k \in Registry!FactKeys : FactAfter(Len(accepted), k, facts[k])'
    BY <1>4, <1>7 DEF FactAfter, Registry!FactKeys, Registry!KeyOf
  <1>11. StorageTyped'
    BY <1>4, <1>6, <1>8, <1>9, <1>10 DEF StorageTyped, Registry!FactKeys, Registry!KeyOf
  <1> QED
    BY <1>1, <1>2, <1>11

-----------------------------------------------------------------------------

\* Where neither the log nor the question changes, nor does what was seen.
LEMMA SeenIdle ==
  ASSUME UNCHANGED <<accepted, asked>>
  PROVE  /\ \A fact : Seen(fact)' <=> Seen(fact)
         /\ \A shown : Says(shown)' <=> Says(shown)
         /\ \A l : FollowsLookup(l)' <=> FollowsLookup(l)
  <1>1. \A fact : Seen(fact)' <=> Seen(fact)
    BY DEF Seen, FactAfter, IdsAsked
  <1> QED
    BY <1>1 DEF Says, FollowsLookup, FactKinds

LEMMA StorageIdle ==
  ASSUME StorageTyped, UNCHANGED <<registryVars, asked>>
  PROVE  StorageTyped'
  BY DEF StorageTyped, registryVars, FactAfter

\* The lookup under way becomes m.
LEMMA BecomesIInv ==
  ASSUME IInv, NEW l \in lookups, NEW m \in LookupRecord, Becomes(l, m),
         FollowsLookup(m),
         m.stage = "read" => m.block <= now + Ahead,
         m.stage = "answered" => InTime(m.card)
  PROVE  IInv'
  <1>1. lookups' = {m}
    BY DEF Becomes, IInv, OneLookup, OneAtATime
  <1>2. PageTyped'
    BY <1>1 DEF Becomes, backendVars, IInv, PageTyped
  <1>3. StorageTyped'
    BY StorageIdle DEF Becomes, IInv
  <1>4. OneLookup'
    <2>1. FollowsLookup(m)'
      BY SeenIdle DEF Becomes, registryVars
    <2>2. disabled /\ disabled' = disabled
      BY DEF Becomes, IInv, OneLookup, OneAtATime
    <2> QED
      BY <1>1, <2>1, <2>2 DEF OneLookup, OneAtATime
  <1>5. ClocksAgree'
    BY <1>1 DEF Becomes, registryVars, backendVars, IInv, ClocksAgree
  <1>6. CardsInTime'
    BY <1>1 DEF Becomes, IInv, CardsInTime, InTime
  <1> QED
    BY <1>2, <1>3, <1>4, <1>5, <1>6 DEF IInv

\* The lookup under way ends with a card.
LEMMA ShowIInv ==
  ASSUME IInv, NEW l \in lookups, NEW shown \in Card, Show(l, shown),
         Says(shown), InTime(shown)
  PROVE  IInv'
  <1>1. lookups' = {} /\ card' = shown /\ disabled' = FALSE
    BY DEF Show, IInv, OneLookup, OneAtATime
  <1>2. PageTyped'
    BY <1>1 DEF Show, backendVars, IInv, PageTyped
  <1>3. StorageTyped'
    BY StorageIdle DEF Show, IInv
  <1>4. OneLookup'
    <2>1. Says(shown)'
      BY SeenIdle DEF Show, registryVars
    <2> QED
      BY <1>1, <2>1 DEF OneLookup, OneAtATime, Says
  <1>5. ClocksAgree'
    BY <1>1 DEF Show, registryVars, backendVars, IInv, ClocksAgree
  <1>6. CardsInTime'
    BY <1>1 DEF CardsInTime, InTime
  <1> QED
    BY <1>2, <1>3, <1>4, <1>5, <1>6 DEF IInv

\* What getFact returns now, under the key the backend makes of the form.
LEMMA ReadIsSeen ==
  ASSUME IInv
  PROVE  LET fact == Registry!GetFact(KeyRead(WithDefault(asked.form)))
         IN  fact \in Fact /\ Seen(fact)
  <1> DEFINE f == WithDefault(asked.form)
             key == KeyRead(f)
             fact == Registry!GetFact(key)
  <1>1. /\ f["subjectTag"] = asked.form["subjectTag"]
        /\ f["factTypeHash"] = asked.form["factTypeHash"]
        /\ f["verifierIdHash"] \in IdsAsked
    BY DEF IInv, PageTyped, Form, Fields, WithDefault, IdsAsked
  <1>2. key = Registry!FactKey(HexToBytes32(f["verifierIdHash"]),
                               HexToBytes32(asked.form["subjectTag"]),
                               HexToBytes32(asked.form["factTypeHash"]))
    BY <1>1 DEF KeyRead
  <1> HIDE DEF f, key
  <1>3. Len(accepted) \in asked.since..Len(accepted)
    BY DEF IInv, StorageTyped
  <1>4. fact \in Fact /\ FactAfter(Len(accepted), key, fact)
    <2>1. CASE key \in Registry!FactKeys
      BY <2>1 DEF Registry!GetFact, IInv, StorageTyped
    <2>2. CASE key \notin Registry!FactKeys
      <3>1. \A i \in 1..Len(accepted) : Registry!KeyOf(accepted[i]) # key
        BY <2>2 DEF IInv, StorageTyped
      <3> QED
        BY <2>2, <3>1, EmptyIsFact DEF Registry!GetFact, FactAfter
    <2> QED
      BY <2>1, <2>2
  <1>5. Seen(fact)
    BY <1>1, <1>2, <1>3, <1>4 DEF Seen
  <1> QED
    BY <1>4, <1>5 DEF f, key

\* The steps of the backend's handler.
LEMMA ServeIInv ==
  ASSUME IInv, NEW l \in lookups, Refuse(l) \/ ReadFact(l) \/ Judge(l)
  PROVE  IInv'
  <1>1. l \in LookupRecord /\ FollowsLookup(l)
    BY DEF IInv, PageTyped, OneLookup, OneAtATime
  <1>2. CASE Refuse(l)
    <2> DEFINE m == [l EXCEPT !.stage = "answered", !.card = NoFactCard("error")]
    <2>1. m \in LookupRecord /\ m.stage = "answered" /\ m.form = l.form
          /\ m.card = NoFactCard("error")
      BY <1>1, EmptyIsFact DEF LookupRecord
    <2>2. Becomes(l, m)
      BY <1>2 DEF Refuse
    <2> HIDE DEF m
    <2>3. FollowsLookup(m) /\ InTime(m.card)
      BY <1>1, <2>1, EmptyIsFact DEF FollowsLookup, Says, InTime, FactKinds
    <2> QED
      BY <2>1, <2>2, <2>3, BecomesIInv
  <1>3. CASE ReadFact(l)
    <2> DEFINE fact_ == Registry!GetFact(KeyRead(WithDefault(l.form)))
               m == [l EXCEPT !.stage = "read", !.fact = fact_, !.block = timestamp]
    <2>1. fact_ \in Fact /\ Seen(fact_)
      BY <1>1, ReadIsSeen DEF FollowsLookup
    <2>2. Becomes(l, m)
      BY <1>3 DEF ReadFact
    <2> HIDE DEF fact_
    <2>3. m \in LookupRecord /\ m.stage = "read" /\ m.form = l.form
          /\ m.fact = fact_ /\ m.block = timestamp
      BY <1>1, <2>1 DEF LookupRecord, IInv, StorageTyped
    <2> HIDE DEF m
    <2>4. FollowsLookup(m) /\ m.block <= now + Ahead
      BY <1>1, <2>1, <2>3 DEF FollowsLookup, IInv, ClocksAgree
    <2> QED
      BY <2>2, <2>3, <2>4, BecomesIInv
  <1>4. CASE Judge(l)
    <2> DEFINE shown == FactCard(l.fact, l.block)
               m == [l EXCEPT !.stage = "answered", !.card = shown]
    <2>1. l.stage = "read" /\ Becomes(l, m)
      BY <1>4 DEF Judge
    <2>2. l.fact \in Fact /\ l.block \in Nat
      BY <1>1 DEF LookupRecord
    <2>3. /\ shown \in Card /\ shown.fact = l.fact /\ shown.block = l.block
          /\ shown.kind = IF ~l.fact.exists THEN "missing"
                          ELSE IF IsValid(l.fact) THEN "valid" ELSE "expired"
      BY <2>2 DEF FactCard, Card, FactKinds
    <2> HIDE DEF shown
    <2>4. m \in LookupRecord /\ m.stage = "answered" /\ m.form = l.form /\ m.card = shown
      BY <1>1, <2>3 DEF LookupRecord
    <2> HIDE DEF m
    <2>5. Says(shown)
      <3>1. Seen(l.fact)
        BY <1>1, <2>1 DEF FollowsLookup
      <3>2. l.fact.exists <=> shown.kind # "missing"
        BY <2>3
      <3> QED
        BY <2>3, <3>1, <3>2 DEF Says
    <2>6. InTime(shown)
      <3> SUFFICES ASSUME shown.kind = "valid" PROVE InTime(shown)
        BY DEF InTime
      <3>1. l.fact.exists /\ IsValid(l.fact)
        BY <2>3
      <3>2. l.fact.validUntil \in Nat
        BY <2>2, FactsDated
      <3>3. l.fact.validUntil = 0 \/ now <= l.fact.validUntil
        BY <3>1 DEF IsValid
      <3>4. l.block <= now + Ahead /\ now \in Nat /\ Ahead \in Nat
        BY <2>1, VerifierSiteAssumption DEF IInv, ClocksAgree
      <3>5. l.fact.validUntil = 0 \/ l.block <= l.fact.validUntil + Ahead
        BY <2>2, <3>2, <3>3, <3>4
      <3> QED
        BY <2>3, <3>1, <3>5 DEF InTime
    <2>7. FollowsLookup(m)
      BY <1>1, <2>4, <2>5 DEF FollowsLookup
    <2> QED
      BY <2>1, <2>4, <2>6, <2>7, BecomesIInv
  <1> QED
    BY <1>2, <1>3, <1>4

\* The handler of the form and of its answer.
LEMMA HandlerIInv ==
  ASSUME IInv, Submit \/ Finish \/ (\E l \in lookups : FetchFails(l))
  PROVE  IInv'
  <1>1. CASE Submit
    <2>1. lookups = {}
      BY <1>1 DEF Submit, IInv, OneLookup, OneAtATime
    <2>2. Lookup \in LookupRecord /\ Lookup.stage = "sent" /\ Lookup.form = form
      BY EmptyIsFact DEF Lookup, LookupRecord, IInv, PageTyped
    <2>3. /\ lookups' = {Lookup} /\ disabled' /\ asked'.form = form
          /\ asked'.since = Len(accepted) /\ UNCHANGED <<registryVars, backendVars, form, status, card>>
      BY <1>1, <2>1 DEF Submit
    <2> DEFINE m == Lookup
    <2>4. PICK made : made = m
      OBVIOUS
    <2> HIDE DEF m
    <2>5. PageTyped'
      BY <2>2, <2>3 DEF IInv, PageTyped, backendVars
    <2>6. StorageTyped'
      BY <2>3 DEF IInv, StorageTyped, registryVars, FactAfter
    <2>7. OneLookup'
      <3>1. lookups' = {made} /\ made.form = asked'.form /\ made.stage = "sent"
        BY <2>2, <2>3, <2>4 DEF m
      <3> QED
        BY <2>3, <3>1 DEF OneLookup, OneAtATime, FollowsLookup
    <2>8. ClocksAgree' /\ CardsInTime'
      BY <2>2, <2>3 DEF IInv, ClocksAgree, CardsInTime, InTime, registryVars, backendVars
    <2> QED
      BY <2>5, <2>6, <2>7, <2>8 DEF IInv
  <1>2. ASSUME NEW l \in lookups, FetchFails(l) PROVE IInv'
    <2>1. Show(l, NoFactCard("error"))
      BY <1>2 DEF FetchFails
    <2>2. Says(NoFactCard("error")) /\ InTime(NoFactCard("error"))
      BY EmptyIsFact DEF Says, InTime, FactKinds
    <2> QED
      BY <2>1, <2>2, EmptyIsFact, ShowIInv
  <1>3. ASSUME NEW l \in lookups, Deliver(l) PROVE IInv'
    <2>1. l.stage = "answered" /\ Show(l, l.card)
      BY <1>3 DEF Deliver
    <2>2. l.card \in Card /\ Says(l.card) /\ InTime(l.card)
      BY <2>1 DEF IInv, PageTyped, LookupRecord, OneLookup, OneAtATime, FollowsLookup, CardsInTime
    <2> QED
      BY <2>1, <2>2, ShowIInv
  <1> QED
    BY <1>1, <1>2, <1>3 DEF Finish

\* The steps of the page that leave the lookup alone.
LEMMA PageIInv ==
  ASSUME IInv, HandleConfig \/ ConfigArrives \/ StatusFails \/ Type
  PROVE  IInv'
  <1>1. form' \in Form /\ status'.id \in Text
    <2>1. CASE HandleConfig
      BY <2>1, VerifierSiteAssumption DEF HandleConfig, IInv, PageTyped, Text
    <2>2. CASE ConfigArrives
      BY <2>2 DEF ConfigArrives, IInv, PageTyped, Form, Fields, Text
    <2>3. CASE StatusFails
      BY <2>3 DEF StatusFails, IInv, PageTyped, Text
    <2>4. CASE Type
      BY <2>4, VerifierSiteAssumption DEF Type, IInv, PageTyped, Form, Text
    <2> QED
      BY <2>1, <2>2, <2>3, <2>4
  <1>2. UNCHANGED <<registryVars, backendVars, disabled, card, lookups, asked>>
    BY DEF HandleConfig, ConfigArrives, StatusFails, Type
  <1>3. PageTyped'
    BY <1>1, <1>2 DEF IInv, PageTyped, backendVars
  <1>4. StorageTyped'
    BY <1>2, StorageIdle DEF IInv
  <1>5. OneLookup'
    BY <1>2, SeenIdle DEF IInv, OneLookup, OneAtATime, registryVars
  <1>6. ClocksAgree' /\ CardsInTime'
    BY <1>2 DEF IInv, ClocksAgree, CardsInTime, InTime, registryVars, backendVars
  <1> QED
    BY <1>3, <1>4, <1>5, <1>6 DEF IInv

\* A reload drops the lookup, a restart of the backend loses what it has read.
LEMMA RestartIInv == ASSUME IInv, Reload \/ Restart PROVE IInv'
  <1>1. CASE Reload
    <2>1. /\ lookups' = {} /\ card' = NoFactCard("none") /\ asked'.since = 0
          /\ disabled' = FALSE
          /\ asked'.form = [d \in Fields |-> <<>>] /\ status'.id = <<>>
          /\ form' \in {form, [d \in Fields |-> <<>>]}
          /\ UNCHANGED <<registryVars, backendVars>>
      BY <1>1 DEF Reload
    <2>2. [d \in Fields |-> <<>>] \in Form /\ <<>> \in Text
      BY DEF Form, Text
    <2>3. PageTyped'
      BY <2>1, <2>2, EmptyIsFact DEF IInv, PageTyped, backendVars
    <2>4. StorageTyped'
      BY <2>1 DEF IInv, StorageTyped, registryVars, FactAfter
    <2>5. OneLookup'
      BY <2>1, EmptyIsFact DEF OneLookup, OneAtATime, Says, FactKinds
    <2>6. ClocksAgree' /\ CardsInTime'
      BY <2>1, EmptyIsFact DEF IInv, ClocksAgree, CardsInTime, InTime, registryVars, backendVars
    <2> QED
      BY <2>3, <2>4, <2>5, <2>6 DEF IInv
  <1>2. CASE Restart
    <2>1. /\ cfg' \in Configs
          /\ UNCHANGED <<registryVars, now, form, status, disabled, card, asked>>
      BY <1>2 DEF Restart
    <2>2. ASSUME NEW m \in lookups'
          PROVE  /\ m \in LookupRecord
                 /\ m.stage # "read"
                 /\ m.form = asked.form
                 /\ m.stage = "answered" => Says(m.card) /\ InTime(m.card)
      <3>1. PICK l \in lookups :
               m = IF l.stage = "read" THEN [l EXCEPT !.stage = "lost"] ELSE l
        BY <1>2 DEF Restart
      <3>2. l \in LookupRecord /\ FollowsLookup(l) /\ (l.stage = "answered" => InTime(l.card))
        BY DEF IInv, PageTyped, OneLookup, OneAtATime, CardsInTime
      <3> QED
        BY <3>1, <3>2 DEF LookupRecord, FollowsLookup
    <2>3. /\ \A l, m \in lookups' : l = m
          /\ lookups' = {} <=> lookups = {}
      <3>1. lookups' = {IF l.stage = "read" THEN [l EXCEPT !.stage = "lost"] ELSE l : l \in lookups}
        BY <1>2 DEF Restart
      <3> QED
        BY <3>1 DEF IInv, OneLookup, OneAtATime
    <2>4. PageTyped'
      BY <2>1, <2>2 DEF IInv, PageTyped
    <2>5. StorageTyped'
      BY <2>1, StorageIdle DEF IInv
    <2>6. OneLookup'
      <3>1. \A m \in lookups' : FollowsLookup(m)'
        BY <2>1, <2>2, SeenIdle DEF FollowsLookup, registryVars
      <3>2. lookups' = {} => Says(card)'
        BY <2>1, <2>3, SeenIdle DEF IInv, OneLookup, OneAtATime, registryVars
      <3> QED
        BY <2>1, <2>3, <3>1, <3>2 DEF IInv, OneLookup, OneAtATime
    <2>7. ClocksAgree' /\ CardsInTime'
      BY <2>1, <2>2 DEF IInv, ClocksAgree, CardsInTime, InTime, registryVars
    <2> QED
      BY <2>4, <2>5, <2>6, <2>7 DEF IInv
  <1> QED
    BY <1>1, <1>2

\* The chain and the clock.
LEMMA EnvironmentIInv == ASSUME IInv, Submission \/ NextBlock \/ Tick PROVE IInv'
  <1>1. UNCHANGED <<cfg, form, status, disabled, card, lookups, asked>>
    BY DEF Submission, NextBlock, Tick, backendVars
  <1>2. PageTyped'
    BY <1>1 DEF IInv, PageTyped
  <1>3. CASE Submission
    <2>1. PICK sender \in Addresses, c \in Calls : Registry!SubmitVerifiedFact(sender, c)
      BY <1>3 DEF Submission
    <2>2. StorageTyped'
      BY <1>1, <2>1, SubmissionStorage DEF IInv
    <2>3. PICK new \in Fact : accepted' = Append(accepted, new)
      BY <1>1, <2>1, SubmissionStorage DEF IInv
    <2>4. \A fact : Seen(fact) => Seen(fact)'
      BY <1>1, <2>3, SeenStays DEF IInv, StorageTyped
    <2>5. /\ \A shown : Says(shown) => Says(shown)'
          /\ \A l : FollowsLookup(l) => FollowsLookup(l)'
      BY <1>1, <2>4 DEF Says, FollowsLookup, FactKinds
    <2>6. OneLookup'
      BY <1>1, <2>5 DEF IInv, OneLookup, OneAtATime
    <2>7. timestamp' = timestamp /\ now' = now
      BY <1>3, <2>1 DEF Submission, Registry!SubmitVerifiedFact, backendVars
    <2>8. ClocksAgree' /\ CardsInTime'
      BY <1>1, <2>7 DEF IInv, ClocksAgree, CardsInTime, InTime
    <2> QED
      BY <1>2, <2>2, <2>6, <2>8 DEF IInv
  <1>4. CASE NextBlock \/ Tick
    <2>1. UNCHANGED <<facts, accepted>>
      BY <1>4 DEF NextBlock, Tick, Registry!NextBlock, registryVars
    <2>2. /\ timestamp' \in Nat /\ now' \in Nat /\ now <= now'
          /\ timestamp' <= now' + Ahead
      <3>1. CASE NextBlock
        BY <3>1, VerifierSiteAssumption
           DEF NextBlock, Registry!NextBlock, Registry!Timestamps, backendVars, IInv, ClocksAgree
      <3>2. CASE Tick
        BY <3>2, VerifierSiteAssumption
           DEF Tick, registryVars, IInv, ClocksAgree, StorageTyped
      <3> QED
        BY <1>4, <3>1, <3>2
    <2>3. StorageTyped'
      BY <1>1, <2>1, <2>2 DEF IInv, StorageTyped, FactAfter
    <2>4. OneLookup'
      BY <1>1, <2>1, SeenIdle DEF IInv, OneLookup, OneAtATime
    <2>5. \A l \in lookups : l.block \in Nat
      BY DEF IInv, PageTyped, LookupRecord
    <2>6. ClocksAgree' /\ CardsInTime'
      <3>1. ASSUME NEW l \in lookups, l.stage = "read" PROVE l.block <= now' + Ahead
        <4>1. l.block <= now + Ahead /\ now \in Nat /\ Ahead \in Nat
          BY <3>1, VerifierSiteAssumption DEF IInv, ClocksAgree
        <4> QED
          BY <2>2, <2>5, <4>1
      <3> QED
        BY <1>1, <2>2, <3>1 DEF IInv, ClocksAgree, CardsInTime, InTime
    <2> QED
      BY <1>2, <2>3, <2>4, <2>6 DEF IInv
  <1> QED
    BY <1>3, <1>4

LEMMA NextIInv == ASSUME IInv, [Next]_vars PROVE IInv'
  <1>1. CASE UNCHANGED vars
    <2>1. PageTyped' /\ ClocksAgree' /\ CardsInTime'
      BY <1>1 DEF vars, registryVars, backendVars, IInv, PageTyped, ClocksAgree, CardsInTime, InTime
    <2>2. StorageTyped'
      BY <1>1, StorageIdle DEF vars, IInv
    <2>3. OneLookup'
      BY <1>1, SeenIdle DEF vars, registryVars, IInv, OneLookup, OneAtATime
    <2> QED
      BY <2>1, <2>2, <2>3 DEF IInv
  <1>2. CASE Next
    BY <1>2, ServeIInv, HandlerIInv, PageIInv, RestartIInv, EnvironmentIInv DEF Next, Serve
  <1> QED
    BY <1>1, <1>2

-----------------------------------------------------------------------------

LEMMA RestOfSeq ==
  ASSUME NEW S, NEW s \in Seq(S), Len(s) >= 2
  PROVE  SubSeq(s, 3, Len(s)) \in Seq(S)
  <1>1. Len(s) \in Int /\ 3 \in Int
    OBVIOUS
  <1>2. \A i \in 3..Len(s) : s[i] \in S
    <2>1. \A i \in 1..Len(s) : s[i] \in S
      OBVIOUS
    <2> QED
      BY <1>1, <2>1, SMT
  <1> QED
    BY <1>1, <1>2, SubSeqProperties

\* A text that fits in a word is read as the word it denotes.
LEMMA FittingText ==
  ASSUME NEW text \in Text, Fits(text)
  PROVE  HexToBytes32(text) = Meant(text)
  <1>1. TrimPrefix(text) \in Seq(0..Other)
    <2>1. text \in Seq(0..Other) /\ Len(text) \in Nat
      BY DEF Text
    <2>2. CASE Len(text) >= 2
      BY <2>1, <2>2, RestOfSeq DEF TrimPrefix
    <2>3. CASE ~(Len(text) >= 2)
      BY <2>1, <2>3 DEF TrimPrefix
    <2> QED
      BY <2>2, <2>3
  <1>2. Len(TrimPrefix(text)) \in Nat /\ Width \in Nat
    BY <1>1, VerifierSiteAssumption
  <1> QED
    BY <1>2 DEF HexToBytes32, Meant, Fits

LEMMA IInvShown == ASSUME IInv PROVE ShownWasTrue
  <1> SUFFICES ASSUME lookups = {}, card.kind \in FactKinds,
                      \A id \in IdsAsked : Fits(id),
                      Fits(asked.form["subjectTag"]), Fits(asked.form["factTypeHash"])
               PROVE  /\ card.fact.exists <=> card.kind # "missing"
                      /\ \E id \in IdsAsked : \E n \in asked.since..Len(accepted) :
                           FactAfter(n, Registry!FactKey(Meant(id),
                                                         Meant(asked.form["subjectTag"]),
                                                         Meant(asked.form["factTypeHash"])),
                                     card.fact)
    BY DEF ShownWasTrue, FactKinds
  <1>1. Says(card)
    BY DEF IInv, OneLookup, OneAtATime
  <1>2. /\ asked.form["subjectTag"] \in Text /\ asked.form["factTypeHash"] \in Text
        /\ \A id \in IdsAsked : id \in Text
    BY VerifierSiteAssumption DEF IInv, PageTyped, Form, Fields, IdsAsked, Text
  <1>3. /\ HexToBytes32(asked.form["subjectTag"]) = Meant(asked.form["subjectTag"])
        /\ HexToBytes32(asked.form["factTypeHash"]) = Meant(asked.form["factTypeHash"])
        /\ \A id \in IdsAsked : HexToBytes32(id) = Meant(id)
    BY <1>2, FittingText
  <1> QED
    BY <1>1, <1>3 DEF Says, Seen

\* For all texts that fit in a word, and all configurations: when no lookup is
\* under way, the card (app.js) shows what the contract stored, under the key
\* the form meant when it was sent, at some moment since.
THEOREM CardsAreTrue == Spec => []ShownWasTrue
  <1>1. Init => IInv
    BY InitIInv
  <1>2. IInv /\ [Next]_vars => IInv'
    BY NextIInv
  <1>3. IInv => ShownWasTrue
    BY IInvShown
  <1> QED
    BY <1>1, <1>2, <1>3, PTL DEF Spec

\* However long the backend (verifier.go) takes to judge, and whatever the
\* difference of the clocks: FACT VERIFIED was right about the block read.
THEOREM VerifiedInTime == Spec => []VerifiedWasValid
  <1>1. Init => IInv
    BY InitIInv
  <1>2. IInv /\ [Next]_vars => IInv'
    BY NextIInv
  <1>3. IInv => VerifiedWasValid
    BY DEF IInv, CardsInTime, InTime, VerifiedWasValid
  <1> QED
    BY <1>1, <1>2, <1>3, PTL DEF Spec

\* The handler of the form (app.js) waits for one lookup at a time, and disables
\* the button exactly while it does.
THEOREM AsksOneAtATime == Spec => []OneAtATime
  <1>1. Init => IInv
    BY InitIInv
  <1>2. IInv /\ [Next]_vars => IInv'
    BY NextIInv
  <1>3. IInv => OneAtATime
    BY DEF IInv, OneLookup
  <1> QED
    BY <1>1, <1>2, <1>3, PTL DEF Spec

=============================================================================
