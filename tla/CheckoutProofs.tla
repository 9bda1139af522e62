---------------------------- MODULE CheckoutProofs ----------------------------
(***************************************************************************)
(* Theorems about Checkout.  Each of the two services behaves in the       *)
(* composition as it does on its own, so everything proved of one of them  *)
(* holds for both together; from there the amount that is charged is led   *)
(* back to the items that were ordered.                                    *)
(***************************************************************************)
EXTENDS Checkout, OrderServiceProofs

\* The theorems about the payment service, for the messages of this topic.
Proved == INSTANCE PaymentServiceProofs
    WITH Orders <- Messages, MaxCrashes <- MaxPaymentCrashes,
         crashes <- paymentCrashes

-------------------------------------------------------------------------------
(***************************************************************************)
(* Payment and Proved instantiate the same definitions.                    *)
(***************************************************************************)
LEMMA SameInit == Payment!Init <=> Proved!Init
  BY DEF Payment!Init, Proved!Init, Payment!JobId, Proved!JobId

LEMMA SameConsumerStep == Payment!ConsumerStep <=> Proved!ConsumerStep
  BY DEF Payment!ConsumerStep, Proved!ConsumerStep,
         Payment!ReceiveOrder, Proved!ReceiveOrder,
         Payment!InitializeTransaction, Proved!InitializeTransaction,
         Payment!SavePayment, Proved!SavePayment,
         Payment!AnnouncePayment, Proved!AnnouncePayment,
         Payment!CommitOffset, Proved!CommitOffset,
         Payment!Consuming, Proved!Consuming, Payment!Open, Proved!Open,
         Payment!workerVars, Proved!workerVars, Payment!topicVars, Proved!topicVars,
         Payment!boundVars, Proved!boundVars

LEMMA SameWorkerStep == Payment!WorkerStep <=> Proved!WorkerStep
  BY DEF Payment!WorkerStep, Proved!WorkerStep, Payment!StartJob, Proved!StartJob,
         Payment!FindPayment, Proved!FindPayment,
         Payment!VerifyTransaction, Proved!VerifyTransaction,
         Payment!UpdatePayment, Proved!UpdatePayment,
         Payment!EmitOutcome, Proved!EmitOutcome,
         Payment!MarkProcessed, Proved!MarkProcessed,
         Payment!Working, Proved!Working, Payment!Ref, Proved!Ref,
         Payment!JobId, Proved!JobId, Payment!FinishJob, Proved!FinishJob,
         Payment!VerdictOf, Proved!VerdictOf,
         Payment!consumerVars, Proved!consumerVars, Payment!topicVars, Proved!topicVars,
         Payment!boundVars, Proved!boundVars

LEMMA SameFaults == Payment!Faults <=> Proved!Faults
  BY DEF Payment!Faults, Proved!Faults, Payment!InitializeFails, Proved!InitializeFails,
         Payment!SaveFails, Proved!SaveFails, Payment!RejectOrder, Proved!RejectOrder,
         Payment!FailAttempt, Proved!FailAttempt, Payment!Expire, Proved!Expire,
         Payment!Crash, Proved!Crash, Payment!CallFails, Proved!CallFails,
         Payment!Consuming, Proved!Consuming, Payment!Working, Proved!Working,
         Payment!Open, Proved!Open, Payment!AttemptsLeft, Proved!AttemptsLeft,
         Payment!MaxAttempts, Proved!MaxAttempts, Payment!Stalled, Proved!Stalled,
         Payment!MaxStalls, Proved!MaxStalls,
         Payment!HandleStrayWebhook, Proved!HandleStrayWebhook, Payment!Die, Proved!Die,
         Payment!JobsOfDeadWorker, Proved!JobsOfDeadWorker,
         Payment!NewJob, Proved!NewJob, Payment!Charged, Proved!Charged,
         Payment!consumerVars, Proved!consumerVars, Payment!workerVars, Proved!workerVars,
         Payment!topicVars, Proved!topicVars, Payment!boundVars, Proved!boundVars

LEMMA SameProvider == Payment!Provider <=> Proved!Provider
  BY DEF Payment!Provider, Proved!Provider, Payment!Pay, Proved!Pay,
         Payment!Reverse, Proved!Reverse, Payment!HandleWebhook, Proved!HandleWebhook,
         Payment!Charged, Proved!Charged, Payment!NewJob, Proved!NewJob,
         Payment!consumerVars, Proved!consumerVars, Payment!workerVars, Proved!workerVars,
         Payment!topicVars, Proved!topicVars, Payment!boundVars, Proved!boundVars

LEMMA SameService == Payment!Service <=> Proved!Service
  BY SameConsumerStep, SameWorkerStep, SameFaults, SameProvider
     DEF Payment!Service, Proved!Service

\* The constants of the composition meet the assumptions of the payment service.
LEMMA PaymentAssumptions ==
    /\ MaxPaymentCrashes \in Nat
    /\ MaxErrors \in Nat
    /\ EmitMayFail \in BOOLEAN
    /\ None \notin Proved!Payment \cup Proved!Transaction \cup Proved!Consumption
            \cup Proved!Job \cup Proved!Work \cup Refs \cup Messages \cup Proved!Outcome
  BY AmountsAssumption, PaymentBoundsAssumption, PaymentNoneAssumption
     DEF Payment!Payment, Proved!Payment, Payment!PaymentStatus, Proved!PaymentStatus,
         Payment!Transaction, Proved!Transaction,
         Payment!Consumption, Proved!Consumption, Payment!Job, Proved!Job,
         Payment!MaxAttempts, Proved!MaxAttempts, Payment!MaxStalls, Proved!MaxStalls,
         Payment!Work, Proved!Work, Payment!JobId, Proved!JobId,
         Payment!Outcome, Proved!Outcome

-------------------------------------------------------------------------------
\* Nothing the payment service does reaches the topic it reads from.
LEMMA TopicIsReadOnly == Proved!Service => UNCHANGED orderCreated
<1>1. Proved!ConsumerStep => UNCHANGED orderCreated
  BY DEF Proved!ConsumerStep, Proved!ReceiveOrder, Proved!InitializeTransaction,
         Proved!SavePayment, Proved!AnnouncePayment, Proved!CommitOffset
<1>2. Proved!WorkerStep => UNCHANGED orderCreated
  BY DEF Proved!WorkerStep, Proved!StartJob, Proved!FindPayment, Proved!VerifyTransaction,
         Proved!UpdatePayment, Proved!EmitOutcome, Proved!MarkProcessed,
         Proved!consumerVars
<1>3. Proved!Faults => UNCHANGED orderCreated
  BY DEF Proved!Faults, Proved!InitializeFails, Proved!SaveFails, Proved!RejectOrder,
         Proved!FailAttempt, Proved!Expire, Proved!Crash,
         Proved!HandleStrayWebhook, Proved!consumerVars
<1>4. Proved!Provider => UNCHANGED orderCreated
  BY DEF Proved!Provider, Proved!Pay, Proved!Reverse, Proved!HandleWebhook,
         Proved!consumerVars
<1> QED
  BY <1>1, <1>2, <1>3, <1>4 DEF Proved!Service

\* The order service is undisturbed: whatever the payment service does, what is
\* seen of the order service is one of its own behaviours.
THEOREM OrderServiceIsUndisturbed == CheckoutSpec => Spec
<1>1. CheckoutInit => Init
  BY DEF CheckoutInit
<1>2. [CheckoutNext]_<< vars, paymentVars >> => [Next]_vars
  BY SameService, TopicIsReadOnly DEF CheckoutNext, vars, orderVars
<1> QED
  BY <1>1, <1>2, PTL DEF CheckoutSpec, Spec

\* A step of createOrder adds at most one message to the topic, with an amount
\* that fits its column.
LEMMA TopicGrows ==
    ASSUME TypeOK, TotalsInv, [Next]_vars
    PROVE  \/ UNCHANGED orderCreated
           \/ \E m \in Messages : m \notin orderCreated /\ orderCreated' = orderCreated \cup {m}
<1>1. ASSUME NEW o \in Orders, EmitOrderCreated(o), orderCreated' # orderCreated
      PROVE  \E m \in Messages : m \notin orderCreated /\ orderCreated' = orderCreated \cup {m}
  <2> DEFINE m == [ orderId |-> o, buyerId |-> create[o].buyer,
                    totalAmount |-> create[o].totalAmount ]
  <2>1. create[o] # None /\ create[o].step = "emit" /\ create[o] \in Creation
    BY <1>1 DEF EmitOrderCreated, TypeOK
  <2>2. create[o].totalAmount \in 0..MaxAmount
    <3>1. create[o].totalAmount <= MaxAmount
      BY <2>1 DEF TotalsInv, RunningTotal
    <3> QED
      BY <2>1, <3>1, AmountsAssumption DEF Creation
  <2>3. m \in Messages
    BY <2>1, <2>2 DEF Messages, Creation
  <2>4. orderCreated' = orderCreated \cup {m}
    BY <1>1 DEF EmitOrderCreated
  <2> HIDE DEF m
  <2>5. m \notin orderCreated
    BY <1>1, <2>4
  <2> QED
    BY <2>3, <2>4, <2>5
<1>2. ASSUME NEW o \in Orders, create[o] # None, CreateStep(o)
      PROVE  EmitOrderCreated(o) \/ UNCHANGED orderCreated
  BY <1>2 DEF CreateStep, FetchLine, RejectLine, RejectTotal, Rollback, CommitOrder
<1>3. ASSUME NEW r \in Requests, NEW o \in Orders, Arrive(r, o) PROVE UNCHANGED orderCreated
  BY <1>3 DEF Arrive, CancelMyOrder, HandlePaymentConfirmed, HandleFailedPayment,
              ChangeStatus, BeginDelete
<1>4. ASSUME NEW r \in Requests, RequestStep(r) PROVE UNCHANGED orderCreated
  BY <1>4 DEF RequestStep, Reload, Update, Insert, DeleteOrder
<1> QED
  BY <1>1, <1>2, <1>3, <1>4
     DEF Next, SellerEdits, BeginCreateOrder, FailCreateOrder, Rollback, Crash, vars

\* The payment service is undisturbed: an announcement of the order service is
\* an arrival there, everything else the order service does is invisible.
LEMMA PaymentSteps ==
    TypeOK /\ TotalsInv /\ [CheckoutNext]_<< vars, paymentVars >> => [Proved!Next]_(Proved!vars)
<1> SUFFICES ASSUME TypeOK, TotalsInv, [CheckoutNext]_<< vars, paymentVars >>
             PROVE  [Proved!Next]_(Proved!vars)
  OBVIOUS
<1> USE DEF Proved!vars, Proved!consumerVars, Proved!workerVars, Proved!topicVars,
            Proved!boundVars
<1>1. ASSUME Next, UNCHANGED paymentVars PROVE [Proved!Next]_(Proved!vars)
  <2>1. CASE UNCHANGED orderCreated
    BY <1>1, <2>1 DEF paymentVars
  <2>2. ASSUME NEW m \in Messages, m \notin orderCreated,
               orderCreated' = orderCreated \cup {m}
        PROVE  Proved!OrderArrives(m)
    BY <1>1, <2>2 DEF Proved!OrderArrives, paymentVars
  <2> QED
    BY <1>1, <2>1, <2>2, TopicGrows DEF Proved!Next
<1>2. CASE Payment!Service
  BY <1>2, SameService DEF Proved!Next
<1>3. CASE UNCHANGED << vars, paymentVars >>
  BY <1>3 DEF vars, paymentVars
<1> QED
  BY <1>1, <1>2, <1>3 DEF CheckoutNext

LEMMA PaymentServiceIsUndisturbed == CheckoutSpec => Proved!Spec
<1>1. CheckoutInit => Proved!Init
  BY SameInit DEF CheckoutInit
<1> QED
  BY <1>1, PaymentSteps, OrderServiceIsUndisturbed, TypeCorrect, TotalsInvariant,
     PTL DEF CheckoutSpec, Proved!Spec

-------------------------------------------------------------------------------
\* What Paystack has a transaction for was announced on the topic.
LEMMA TransactionsFollowTheTopic == CheckoutSpec => []Proved!TransactionsAreOrdered
<1>1. Proved!Spec => []Proved!TransactionsAreOrdered
  BY Proved!OrderedInvariant, PaymentAssumptions, PTL
<1> QED
  BY <1>1, PaymentServiceIsUndisturbed, PTL

\* From the concurrent fetches of createOrder to the charge at Paystack, over
\* lost and repeated messages, failed calls and crashes of either service: who
\* is charged is the buyer of a committed order, and the amount is the sum of
\* the items stored with it for as long as they are stored.
THEOREM ChargesMatchItems == CheckoutSpec => []ChargeMatchesItems
<1>1. TypeOK /\ AnnouncementsAgree /\ TotalMatchesItems /\ Proved!TransactionsAreOrdered
      => ChargeMatchesItems
  <2> SUFFICES ASSUME TypeOK, AnnouncementsAgree, TotalMatchesItems,
                      Proved!TransactionsAreOrdered, NEW r \in Refs, Payment!Charged(r)
               PROVE  LET m == paystack[r].order
                      IN /\ m.orderId \in placed
                         /\ m.orderId \notin deleted =>
                               /\ m.buyerId = orderTable[m.orderId].buyerId
                               /\ m.totalAmount = Total(ItemsOf(m.orderId))
    BY DEF ChargeMatchesItems
  <2> DEFINE m == paystack[r].order
             o == m.orderId
  <2>1. m \in orderCreated
    BY DEF Payment!Charged, Proved!TransactionsAreOrdered
  <2> HIDE DEF m
  <2>2. o \in placed /\ Agrees(o, m.buyerId, m.totalAmount)
    BY <2>1 DEF AnnouncementsAgree
  <2>3. ASSUME o \notin deleted
        PROVE  m.buyerId = orderTable[o].buyerId /\ m.totalAmount = Total(ItemsOf(o))
    <3>1. Stored(o) /\ orderTable[o].totalAmount = Total(ItemsOf(o))
      BY <2>2, <2>3 DEF TotalMatchesItems
    <3> QED
      BY <2>2, <3>1 DEF Agrees
  <2> QED
    BY <2>2, <2>3 DEF m
<1> QED
  BY <1>1, OrderServiceIsUndisturbed, TransactionsFollowTheTopic, TypeCorrect,
     AnnouncementsInvariant, TotalsMatchItems, PTL

\* What the payment service promises, it promises of the orders of the order
\* service: the composition implements the ledger of payments.
THEOREM CheckoutKeepsTheLedger == CheckoutSpec => Payment!ImplementsLedger
<1>1. Proved!Spec => Proved!ImplementsLedger
  BY Proved!ImplementsTheLedger, PaymentAssumptions, PTL
<1>2. Proved!Ledger!Init => Payment!Ledger!Init
  BY DEF Proved!Ledger!Init, Payment!Ledger!Init,
         Proved!LinkOf, Payment!LinkOf, Proved!ChargeOf, Payment!ChargeOf,
         Proved!Charged, Payment!Charged,
         Proved!VerdictOnRecord, Payment!VerdictOnRecord,
         Proved!AskedEarly, Payment!AskedEarly, Proved!JobId, Payment!JobId,
         Proved!Ref, Payment!Ref
<1>3. [Proved!Ledger!Next]_(Proved!Ledger!ledgerVars)
      => [Payment!Ledger!Next]_(Payment!Ledger!ledgerVars)
  BY DEF Proved!Ledger!Next, Payment!Ledger!Next,
         Proved!Ledger!Order, Payment!Ledger!Order,
         Proved!Ledger!SendLink, Payment!Ledger!SendLink,
         Proved!Ledger!Charge, Payment!Ledger!Charge,
         Proved!Ledger!Reverse, Payment!Ledger!Reverse,
         Proved!Ledger!AskEarly, Payment!Ledger!AskEarly,
         Proved!Ledger!Settle, Payment!Ledger!Settle,
         Proved!Ledger!ledgerVars, Payment!Ledger!ledgerVars,
         Proved!LinkOf, Payment!LinkOf, Proved!ChargeOf, Payment!ChargeOf,
         Proved!Charged, Payment!Charged,
         Proved!VerdictOnRecord, Payment!VerdictOnRecord,
         Proved!AskedEarly, Payment!AskedEarly, Proved!JobId, Payment!JobId,
         Proved!Ref, Payment!Ref
<1> QED
  BY <1>1, <1>2, <1>3, PaymentServiceIsUndisturbed, PTL
     DEF Proved!ImplementsLedger, Payment!ImplementsLedger,
         Proved!Ledger!Spec, Payment!Ledger!Spec

===============================================================================
