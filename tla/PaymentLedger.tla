----------------------------- MODULE PaymentLedger -----------------------------
(***************************************************************************)
(* What the payment service promises about money, without messages, jobs,  *)
(* caches or crashes: a payment is opened for an order that was announced, *)
(* charged through its link only, and its verdict agrees with what the     *)
(* provider did.  The one exception is open: of a payment the provider was *)
(* asked about too early, a failure may be said that is none.              *)
(***************************************************************************)
CONSTANTS
    Orders,        \* orders that may be announced
    Refs,          \* references of payments
    None           \* no order

VARIABLES
    ordered,       \* orders announced so far
    link,          \* the order the link of a reference has been sent for
    charge,        \* what the provider did with a reference
    verdict,       \* what the service has on record about it
    early          \* references the provider was asked about before their charge

ledgerVars == << ordered, link, charge, verdict, early >>

Init ==
    /\ ordered = {}
    /\ link = [r \in Refs |-> None]
    /\ charge = [r \in Refs |-> "open"]
    /\ verdict = [r \in Refs |-> "PENDING"]
    /\ early = {}

Order(m) ==
    /\ ordered' = ordered \cup {m}
    /\ UNCHANGED << link, charge, verdict, early >>

SendLink(r, m) ==
    /\ m \in ordered
    /\ link[r] = None
    /\ link' = [link EXCEPT ![r] = m]
    /\ UNCHANGED << ordered, charge, verdict, early >>

Charge(r) ==
    /\ link[r] # None
    /\ charge[r] = "open"
    /\ charge' = [charge EXCEPT ![r] = "success"]
    /\ UNCHANGED << ordered, link, verdict, early >>

Reverse(r) ==
    /\ charge[r] = "success"
    /\ charge' = [charge EXCEPT ![r] = "reversed"]
    /\ UNCHANGED << ordered, link, verdict, early >>

\* Somebody who is not the provider says that a payment has been made.
AskEarly(r) ==
    /\ charge[r] = "open"
    /\ early' = early \cup {r}
    /\ UNCHANGED << ordered, link, charge, verdict >>

\* A verdict may be late.  SUCCESS is only said of a charge and FAILED of a
\* reversed one; what was said after an early question may be wrong, until a
\* later verdict corrects it.
Settle(r, outcome) ==
    /\ outcome = "SUCCESS" =>
          /\ charge[r] # "open"
          /\ verdict[r] = "FAILED" => r \in early
    /\ outcome = "FAILED" =>
          charge[r] = "reversed" \/ (r \in early /\ verdict[r] # "SUCCESS")
    /\ verdict' = [verdict EXCEPT ![r] = outcome]
    /\ UNCHANGED << ordered, link, charge, early >>

Next ==
    \/ \E m \in Orders : Order(m)
    \/ \E r \in Refs :
           \/ \E m \in Orders : SendLink(r, m)
           \/ Charge(r)
           \/ Reverse(r)
           \/ AskEarly(r)
           \/ \E outcome \in { "SUCCESS", "FAILED" } : Settle(r, outcome)

Spec == Init /\ [][Next]_ledgerVars

===============================================================================
