----------------------------- MODULE VerifierSite -----------------------------
(***************************************************************************)
(* The verifier's site: the backend (site/backend), the page it serves     *)
(* (site/frontend/app.js, in one browser tab) and the FactRegistry         *)
(* contract that the backend reads through the node.                       *)
(*                                                                         *)
(* A text is the sequence of its characters: the hex digits 0 to 15, X for *)
(* the x of the prefix 0x, and Other for any character that is neither.  A *)
(* field of the form holds its trimmed text; <<>> is a field of spaces,    *)
(* which the attribute "required" lets through.  Words of the contract are *)
(* numbers of Width bytes (32 in the code).                                *)
(*                                                                         *)
(* A lookup is a request of /api/lookup on its way: sent, then read (the   *)
(* backend has the contract's answer), then answered, or lost.             *)
(***************************************************************************)
EXTENDS Integers, Sequences, SequencesExt

CONSTANTS
    Calls, Addresses, Zero, Verify(_, _), MaxTimestamp,   \* of FactRegistry
    Width,             \* bytes of a word
    Texts,             \* what is typed into each field of the form
    Configs,           \* configurations a backend may be started with
    Ahead              \* how far a block may be dated ahead of the backend's clock

VARIABLES
    facts, usedNullifiers, timestamp, accepted,           \* of FactRegistry
    cfg, now,                          \* of the backend: configuration, clock
    form, status, disabled, card,      \* of the page; disabled is the button's
    lookups,
    asked              \* history: the last lookup, and the length of the log then

registryVars == <<facts, usedNullifiers, timestamp, accepted>>
backendVars == <<cfg, now>>
vars == <<registryVars, backendVars, form, status, disabled, card, lookups, asked>>

Registry == INSTANCE FactRegistry

Fields == {"verifierIdHash", "subjectTag", "factTypeHash"}
X == 16                \* the character x
Other == 17            \* any character but x and the hex digits

ASSUME VerifierSiteAssumption ==
    /\ MaxTimestamp \in Nat \ {0}
    /\ Width \in Nat \ {0}
    /\ Ahead \in Nat
    /\ \A d \in Fields : \A text \in Texts[d] : text \in Seq(0..Other)
    /\ \A c \in Configs : c.verifierIdHash \in Seq(0..Other)
    /\ \A c \in Calls : c.validUntil \in Nat

-----------------------------------------------------------------------------
(* verifier.go                                                             *)

Number(digits) == FoldLeft(LAMBDA n, d : 16 * n + d, 0, digits)

TrimPrefix(text) ==
    IF Len(text) >= 2 /\ SubSeq(text, 1, 2) = <<0, X>> THEN SubSeq(text, 3, Len(text)) ELSE text

\* What hex.DecodeString takes: whole bytes of digits.
IsHex(text) ==
    LET h == TrimPrefix(text)
    IN  Len(h) % 2 = 0 /\ \A i \in DOMAIN h : h[i] \in 0..15

\* Mutant of HexToBytes32: copied to the start of the word.
HexToBytes32Left(text) ==
    LET h == TrimPrefix(text)
    IN  Number([i \in 1..(2 * Width) |-> IF i <= Len(h) THEN h[i] ELSE 0])

\* The bytes beyond the word are cut off; fewer are aligned to the right.
HexToBytes32(text) ==
    LET h == TrimPrefix(text)
    IN  Number(IF Len(h) > 2 * Width THEN SubSeq(h, 1, 2 * Width) ELSE h)

KeyRead(f) == Registry!FactKey(HexToBytes32(f["verifierIdHash"]),
                               HexToBytes32(f["subjectTag"]),
                               HexToBytes32(f["factTypeHash"]))

\* Mutant of IsValid: the comparison the wrong way round.
IsValidReversed(fact) ==
    /\ fact.exists
    /\ fact.validUntil = 0 \/ now >= fact.validUntil

IsValid(fact) ==
    /\ fact.exists
    /\ fact.validUntil = 0 \/ now <= fact.validUntil

-----------------------------------------------------------------------------
(* The cards of the page; block is history, the block the fact was read at. *)

NoFactCard(kind) == [kind |-> kind, fact |-> Registry!EmptyFact, block |-> 0]

FactCard(fact, block) ==
    [kind |-> IF ~fact.exists THEN "missing" ELSE IF IsValid(fact) THEN "valid" ELSE "expired",
     fact |-> fact, block |-> block]

Init ==
    /\ Registry!Init
    /\ cfg \in Configs
    /\ now = 1
    /\ form = [d \in Fields |-> <<>>]
    /\ status = [stage |-> "sent", id |-> <<>>]
    /\ disabled = FALSE
    /\ card = NoFactCard("none")
    /\ lookups = {}
    /\ asked = [form |-> form, since |-> 0]

-----------------------------------------------------------------------------
(* main.go: the handlers                                                   *)

\* The backend's own verifier id stands in for a blank one.
WithDefault(f) ==
    IF f["verifierIdHash"] = <<>> THEN [f EXCEPT !["verifierIdHash"] = cfg.verifierIdHash] ELSE f

\* A required field is blank, there is no address of a contract, a text does
\* not parse, or no contract answers at the address.
Refuses(f) ==
    \/ f["subjectTag"] = <<>> \/ f["factTypeHash"] = <<>>
    \/ cfg.factRegistry # "deployed"
    \/ \E d \in Fields : ~IsHex(WithDefault(f)[d])

HandleConfig ==
    /\ status.stage = "sent"
    /\ status' = [stage |-> "answered", id |-> cfg.verifierIdHash]
    /\ UNCHANGED <<registryVars, backendVars, form, disabled, card, lookups, asked>>

Becomes(l, m) ==
    /\ lookups' = (lookups \ {l}) \cup {m}
    /\ UNCHANGED <<registryVars, backendVars, form, status, disabled, card, asked>>

\* The handler answers with an error; also when the node does not answer.
Refuse(l) ==
    /\ l.stage = "sent"
    /\ Becomes(l, [l EXCEPT !.stage = "answered", !.card = NoFactCard("error")])

ReadFact(l) ==
    /\ l.stage = "sent"
    /\ ~Refuses(l.form)
    /\ Becomes(l, [l EXCEPT !.stage = "read",
                            !.fact = Registry!GetFact(KeyRead(WithDefault(l.form))),
                            !.block = timestamp])

\* Expiry is judged when the contract's answer is back, by the clock of then.
Judge(l) ==
    /\ l.stage = "read"
    /\ Becomes(l, [l EXCEPT !.stage = "answered", !.card = FactCard(l.fact, l.block)])

\* Requests that the old backend had taken in are lost with it.
Restart ==
    /\ cfg' \in Configs
    /\ lookups' = {IF l.stage = "read" THEN [l EXCEPT !.stage = "lost"] ELSE l : l \in lookups}
    /\ UNCHANGED <<registryVars, now, form, status, disabled, card, asked>>

-----------------------------------------------------------------------------
(* app.js                                                                  *)

\* The tab is loaded again; the browser may keep what was typed.
Reload ==
    /\ form' \in {form, [d \in Fields |-> <<>>]}
    /\ status' = [stage |-> "sent", id |-> <<>>]
    /\ disabled' = FALSE
    /\ card' = NoFactCard("none")
    /\ lookups' = {}
    /\ asked' = [form |-> [d \in Fields |-> <<>>], since |-> 0]
    /\ UNCHANGED <<registryVars, backendVars>>

\* The end of loadStatus: the backend's verifier id, if it has one, is written
\* over whatever the field holds.
ConfigArrives ==
    /\ status.stage = "answered"
    /\ form' = IF status.id = <<>> THEN form ELSE [form EXCEPT !["verifierIdHash"] = status.id]
    /\ status' = [stage |-> "done", id |-> <<>>]
    /\ UNCHANGED <<registryVars, backendVars, disabled, card, lookups, asked>>

StatusFails ==
    /\ status.stage # "done"
    /\ status' = [stage |-> "done", id |-> <<>>]
    /\ UNCHANGED <<registryVars, backendVars, form, disabled, card, lookups, asked>>

Type ==
    /\ \E d \in Fields : \E text \in Texts[d] : form' = [form EXCEPT ![d] = text]
    /\ UNCHANGED <<registryVars, backendVars, status, disabled, card, lookups, asked>>

Lookup ==
    [form |-> form, stage |-> "sent", fact |-> Registry!EmptyFact, block |-> 0,
     card |-> NoFactCard("none")]

\* Mutant of Submit: the button stays enabled.
SubmitEnabled ==
    /\ ~disabled
    /\ lookups' = lookups \cup {Lookup}
    /\ asked' = [form |-> form, since |-> Len(accepted)]
    /\ UNCHANGED <<registryVars, backendVars, form, status, disabled, card>>

Submit ==
    /\ ~disabled
    /\ disabled' = TRUE
    /\ lookups' = lookups \cup {Lookup}
    /\ asked' = [form |-> form, since |-> Len(accepted)]
    /\ UNCHANGED <<registryVars, backendVars, form, status, card>>

Show(l, shown) ==
    /\ lookups' = lookups \ {l}
    /\ card' = shown
    /\ disabled' = FALSE
    /\ UNCHANGED <<registryVars, backendVars, form, status, asked>>

Deliver(l) == l.stage = "answered" /\ Show(l, l.card)

\* Mutant of FetchFails: the button is enabled at the end of the try block.
FetchFailsDisabled(l) ==
    /\ lookups' = lookups \ {l}
    /\ card' = NoFactCard("error")
    /\ UNCHANGED <<registryVars, backendVars, form, status, disabled, asked>>

\* The request or its answer is lost; the handler's catch and finally.
FetchFails(l) == Show(l, NoFactCard("error"))

-----------------------------------------------------------------------------

Submission ==
    /\ \E sender \in Addresses, c \in Calls : Registry!SubmitVerifiedFact(sender, c)
    /\ UNCHANGED <<backendVars, form, status, disabled, card, lookups, asked>>

\* The next block, dated by the node's clock.
NextBlock ==
    /\ Registry!NextBlock
    /\ timestamp' <= now + Ahead
    /\ UNCHANGED <<backendVars, form, status, disabled, card, lookups, asked>>

Tick ==
    /\ now < MaxTimestamp
    /\ now' = now + 1
    /\ UNCHANGED <<registryVars, cfg, form, status, disabled, card, lookups, asked>>

Serve == \E l \in lookups : Refuse(l) \/ ReadFact(l) \/ Judge(l)
Finish == \E l \in lookups : Deliver(l) \/ (l.stage = "lost" /\ FetchFails(l))

Next ==
    \/ HandleConfig \/ Serve \/ Restart
    \/ Reload \/ ConfigArrives \/ StatusFails \/ Type \/ Submit \/ Finish
    \/ \E l \in lookups : FetchFails(l)
    \/ Submission \/ NextBlock \/ Tick

Spec == Init /\ [][Next]_vars

\* The backend runs, its calls of the node return, and the browser settles
\* every fetch whose answer came or whose connection broke.
FairSpec == Spec /\ WF_vars(Serve) /\ WF_vars(Finish)

-----------------------------------------------------------------------------

\* The word a text denotes, if it fits: what the user of the page means.
Meant(text) == Number(TrimPrefix(text))
Fits(text) == Len(TrimPrefix(text)) <= 2 * Width

\* fact was what getFact(key) returned after n submissions.
FactAfter(n, key, fact) ==
    LET Stored(i) == Registry!KeyOf(accepted[i]) = key
    IN  \/ fact = Registry!EmptyFact /\ \A i \in 1..n : ~Stored(i)
        \/ \E i \in 1..n : /\ Stored(i) /\ fact = accepted[i]
                           /\ \A j \in (i + 1)..n : ~Stored(j)

\* The ids a lookup may mean: the one of the form, or a backend's own.
IdsAsked ==
    IF asked.form["verifierIdHash"] = <<>>
    THEN {c.verifierIdHash : c \in Configs} ELSE {asked.form["verifierIdHash"]}

\* When no lookup is under way, a card that is not an error shows what the
\* contract stored, under the key that the form meant when the button was last
\* pressed, at some moment since then: typing, a late configuration, a reload,
\* a restart of the backend or a newer fact in between never makes the card
\* that of another key or of an older moment.  Longer texts are cut off.
ShownWasTrue ==
    /\ lookups = {}
    /\ card.kind \in {"missing", "valid", "expired"}
    /\ \A id \in IdsAsked : Fits(id)
    /\ Fits(asked.form["subjectTag"]) /\ Fits(asked.form["factTypeHash"])
    => /\ card.fact.exists <=> card.kind # "missing"
       /\ \E id \in IdsAsked : \E n \in asked.since..Len(accepted) :
            FactAfter(n, Registry!FactKey(Meant(id), Meant(asked.form["subjectTag"]),
                                          Meant(asked.form["factTypeHash"])), card.fact)

\* FACT VERIFIED is shown only for a fact that the contract's isFactValid
\* accepted in the block it was read at, up to the difference of the clocks,
\* although the backend never asks the contract and judges later.
VerifiedWasValid ==
    card.kind = "valid" =>
        /\ card.fact.exists
        /\ card.fact.validUntil = 0 \/ card.block <= card.fact.validUntil + Ahead

\* The button is disabled exactly while a lookup is under way, and never are two:
\* no answer overtakes another's, and no end of the handler, no reload and no
\* restart of the backend leaves the button disabled with nothing to wait for.
OneAtATime ==
    /\ disabled <=> lookups # {}
    /\ \A l, m \in lookups : l = m

\* The button does not stay disabled: whatever is refused, restarted or lost,
\* the handler comes to its end.
LookupEnds == disabled ~> ~disabled

=============================================================================
