------------------------------- MODULE Checkout -------------------------------
(***************************************************************************)
(* The order service and the payment service together, connected as in the *)
(* code by the one topic they share: order.created.  Neither reads a table *)
(* of the other, nothing consumes payment.confirmed and payment.failed on  *)
(* the order service's side, and each process crashes on its own.          *)
(***************************************************************************)
EXTENDS OrderService

CONSTANTS
    Refs,               \* references uuid() may return
    Deliveries,         \* deliveries of the webhook of one charge
    Strays,             \* deliveries to it whose signature does not match
    MaxPaymentCrashes,  \* bound on crashes of the payment service
    MaxErrors           \* bound on failed calls of the payment service

ASSUME PaymentBoundsAssumption == MaxPaymentCrashes \in Nat /\ MaxErrors \in Nat

VARIABLES
    consumed, consumer, paystack, payments, cache, jobs, worker, initiated,
    confirmed, failed, errors, paymentCrashes

paymentVars == << consumed, consumer, paystack, payments, cache, jobs, worker,
                  initiated, confirmed, failed, errors, paymentCrashes >>

orderVars == << catalog, orderTable, itemTable, create, request, placed,
                deleted, crashes >>

\* What order.created can carry: a committed total fits its column.
Messages == [orderId : Orders, buyerId : Users, totalAmount : 0..MaxAmount]

Payment == INSTANCE PaymentService
    WITH Orders <- Messages, MaxCrashes <- MaxPaymentCrashes,
         crashes <- paymentCrashes

ASSUME PaymentNoneAssumption ==
    None \notin Payment!Payment \cup Payment!Transaction \cup Payment!Consumption
            \cup Payment!Job \cup Payment!Work \cup Payment!Outcome
            \cup Refs \cup Messages

CheckoutInit == Init /\ Payment!Init

CheckoutNext ==
    \/ Next /\ UNCHANGED paymentVars
    \/ Payment!Service /\ UNCHANGED orderVars

CheckoutSpec == CheckoutInit /\ [][CheckoutNext]_<< vars, paymentVars >>

FairCheckoutSpec == CheckoutSpec /\ Fairness /\ Payment!Fairness

-------------------------------------------------------------------------------
(***************************************************************************)
(* Properties                                                              *)
(***************************************************************************)

\* From the concurrent fetches of createOrder to the charge at Paystack: the
\* buyer is charged for an order that was committed, and the amount is the sum
\* of the items stored with it for as long as they are stored.
ChargeMatchesItems ==
    \A r \in Refs :
        Payment!Charged(r) =>
            LET m == paystack[r].order
            IN /\ m.orderId \in placed
               /\ m.orderId \notin deleted =>
                     /\ m.buyerId = orderTable[m.orderId].buyerId
                     /\ m.totalAmount = Total(ItemsOf(m.orderId))

\* From createOrder to the buyer's e-mail: while the order service does not
\* crash, every committed order is linked to a payment, over failed calls and
\* crashes of the payment service.
PlacedOrderGetsLink ==
    \A o \in Orders :
        o \in placed ~> \E r \in initiated : paystack[r].order.orderId = o

===============================================================================
