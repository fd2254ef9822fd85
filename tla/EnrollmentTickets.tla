------------------------- MODULE EnrollmentTickets -------------------------
(***************************************************************************)
(* What an administrator is promised about enrolment tokens, with          *)
(* sessions, locks, expiry and counters left out: a token is issued once,  *)
(* admits at most one host, and never admits again once it was used or     *)
(* voided (revoked, expired, burnt, or its node removed).                  *)
(***************************************************************************)
CONSTANT Tok      \* one-time tokens

VARIABLE ticket   \* [Tok -> Phases]

Phases == {"unissued", "open", "spent", "void"}

Init == ticket = [t \in Tok |-> "unissued"]

Spend(t) ==
    /\ ticket[t] = "open"
    /\ ticket' = [ticket EXCEPT ![t] = "spent"]

\* One transaction may void several tokens.
Void(toks) ==
    /\ \A t \in toks : ticket[t] = "open"
    /\ ticket' = [t \in Tok |-> IF t \in toks THEN "void" ELSE ticket[t]]

\* Issuing voids elapsed invitations in the same transaction (perhaps none).
Issue(toks, t) ==
    /\ \A u \in toks : ticket[u] = "open"
    /\ ticket[t] = "unissued"
    /\ ticket' = [u \in Tok |-> IF u = t THEN "open"
                                ELSE IF u \in toks THEN "void" ELSE ticket[u]]

Next ==
    \/ \E t \in Tok : Spend(t)
    \/ \E toks \in SUBSET Tok : Void(toks)
    \/ \E toks \in SUBSET Tok, t \in Tok : Issue(toks, t)

Spec == Init /\ [][Next]_ticket
=============================================================================
