--------------------------- MODULE TrustedIssuers ---------------------------
(***************************************************************************)
(* What IssuerRegistry promises to whoever builds an issuer policy from    *)
(* it: a set of trusted <<issuer, key>> pairs with one key per issuer, in  *)
(* which a key is replaced only by revoking it first.                      *)
(***************************************************************************)
CONSTANTS Issuers, Keys

VARIABLE trusted      \* the <<issuer, key>> pairs trusted now

Init == trusted = {}

Trust(issuer, key) ==
    /\ \A k \in Keys : <<issuer, k>> \notin trusted
    /\ trusted' = trusted \cup {<<issuer, key>>}

Revoke(issuer, key) ==
    /\ <<issuer, key>> \in trusted
    /\ trusted' = trusted \ {<<issuer, key>>}

Next == \E issuer \in Issuers, key \in Keys : Trust(issuer, key) \/ Revoke(issuer, key)

Spec == Init /\ [][Next]_trusted

=============================================================================
