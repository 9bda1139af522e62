---------------------------- MODULE PaymentService ----------------------------
(***************************************************************************)
(* The payment service (apps/payment-service): the consumer of             *)
(* order.created that opens a Paystack transaction for an order, Paystack's *)
(* webhook, the BullMQ queue of verification jobs and the worker that      *)
(* settles a payment and announces the outcome.                            *)
(*                                                                         *)
(* Kafka delivers order.created at least once: the offset is committed     *)
(* when the handler returns, so a thrown error or a crash brings the       *)
(* message back.  BullMQ runs a job again after an error (three attempts)  *)
(* and once more after its worker died.  The cache is in the memory of the *)
(* process: it is lost in a crash and its keys expire.                     *)
(*                                                                         *)
(* A payment row copies its order, buyer and amount from the message, so   *)
(* the row keeps the message itself.                                       *)
(***************************************************************************)
EXTENDS Integers, FiniteSets

CONSTANTS
    Orders,        \* messages that may arrive on order.created
    Refs,          \* references uuid() may return
    Deliveries,    \* deliveries of the charge.success webhook of one charge
    Strays,        \* deliveries of that event whose signature does not match
    MaxCrashes,    \* bound on the times the process dies
    MaxErrors,     \* bound on failed calls to Paystack, Postgres and Redis
    EmitMayFail,   \* TRUE when kafkaClient.emit may lose its message
    None           \* no row, no transaction, no job, nothing in progress

ASSUME BoundsAssumption ==
    /\ MaxCrashes \in Nat
    /\ MaxErrors \in Nat
    /\ EmitMayFail \in BOOLEAN

VARIABLES
    orderCreated,  \* topic order.created: messages sent so far
    consumed,      \* those whose offset this consumer group has committed
    consumer,      \* the handleOrderCreated in progress
    paystack,      \* Paystack: the transaction of each reference
    payments,      \* table "payment", by its unique reference
    cache,         \* in-memory cache: references with a payment:processed key
    jobs,          \* queue verify-payment: job of each delivery to the webhook
    worker,        \* the job in progress
    initiated,     \* topic payment.initiated: references announced
    confirmed,     \* topic payment.confirmed: messages sent per reference
    failed,        \* topic payment.failed: messages sent so far
    errors,        \* failed calls so far
    crashes        \* times the process has died so far

consumerVars == << orderCreated, consumed, consumer >>
workerVars == << jobs, worker >>
topicVars == << initiated, confirmed, failed >>
boundVars == << errors, crashes >>
vars == << consumerVars, paystack, payments, cache, workerVars, topicVars,
           boundVars >>

(***************************************************************************)
(* Types                                                                   *)
(***************************************************************************)
PaymentStatus == { "PENDING", "SUCCESS", "FAILED" }

Payment == [order : Orders, status : PaymentStatus]

\* open: initialised and not paid; success: charged; reversed: given back.
Transaction == [order : Orders, state : { "open", "success", "reversed" }]

Consumption == [step : { "initialize", "save", "announce", "ack" },
                order : Orders, reference : Refs]

JobId == Refs \X (Deliveries \cup Strays)

\* options of queue.add: attempts 3; BullMQ's default maxStalledCount is 1.
MaxAttempts == 3
MaxStalls == 1

\* early is history: the job was queued before its reference was charged.
Job == [state : { "waiting", "active", "completed", "failed" },
        attempts : 0..MaxAttempts, stalls : 0..MaxStalls, early : BOOLEAN]

Outcome == { "SUCCESS", "FAILED" }

\* Only a worker past the call to Paystack knows the outcome.
Work ==
    [id : JobId, step : { "find", "verify" }, outcome : {None}]
    \cup
    [id : JobId, step : { "update", "emit", "mark" }, outcome : Outcome]

PaymentFailed == [order : Orders, reference : Refs \cup {None}]

ASSUME NoneAssumption ==
    None \notin Payment \cup Transaction \cup Consumption \cup Job \cup Work \cup Refs
            \cup Orders \cup Outcome

TypeOK ==
    /\ orderCreated \subseteq Orders
    /\ consumed \subseteq Orders
    /\ consumer \in Consumption \cup {None}
    /\ paystack \in [Refs -> Transaction \cup {None}]
    /\ payments \in [Refs -> Payment \cup {None}]
    /\ cache \subseteq Refs
    /\ jobs \in [JobId -> Job \cup {None}]
    /\ worker \in Work \cup {None}
    /\ initiated \subseteq Refs
    /\ confirmed \in [Refs -> Nat]
    /\ failed \subseteq PaymentFailed
    /\ errors \in 0..MaxErrors
    /\ crashes \in 0..MaxCrashes

Init ==
    /\ orderCreated = {}
    /\ consumed = {}
    /\ consumer = None
    /\ paystack = [r \in Refs |-> None]
    /\ payments = [r \in Refs |-> None]
    /\ cache = {}
    /\ jobs = [j \in JobId |-> None]
    /\ worker = None
    /\ initiated = {}
    /\ confirmed = [r \in Refs |-> 0]
    /\ failed = {}
    /\ errors = 0
    /\ crashes = 0

\* A call to Paystack, Postgres or Redis fails.
CallFails == errors < MaxErrors /\ errors' = errors + 1 /\ UNCHANGED crashes

\* The order service announces an order.
OrderArrives(m) ==
    /\ m \notin orderCreated
    /\ orderCreated' = orderCreated \cup {m}
    /\ UNCHANGED << consumed, consumer, paystack, payments, cache, workerVars,
                    topicVars, boundVars >>

-------------------------------------------------------------------------------
(***************************************************************************)
(* handleOrderCreated                                                      *)
(***************************************************************************)
Consuming(step) == consumer # None /\ consumer.step = step

Charged(r) == paystack[r] # None /\ paystack[r].state \in { "success", "reversed" }

Reversed(r) == paystack[r] # None /\ paystack[r].state = "reversed"

\* Kafka delivers the next message; the handler draws a new reference, also
\* when it has seen the order before.
ReceiveOrder(m, r) ==
    /\ consumer = None
    /\ m \in orderCreated \ consumed
    /\ paystack[r] = None
    /\ payments[r] = None
    /\ consumer' = [step |-> "initialize", order |-> m, reference |-> r]
    /\ UNCHANGED << orderCreated, consumed, paystack, payments, cache,
                    workerVars, topicVars, boundVars >>

Open(m) == [order |-> m, state |-> "open"]

InitializeTransaction ==
    /\ Consuming("initialize")
    /\ paystack' = [paystack EXCEPT ![consumer.reference] = Open(consumer.order)]
    /\ consumer' = [consumer EXCEPT !.step = "save"]
    /\ UNCHANGED << orderCreated, consumed, payments, cache, workerVars,
                    topicVars, boundVars >>

SavePayment ==
    /\ Consuming("save")
    /\ payments' = [payments EXCEPT ![consumer.reference] =
                       [order |-> consumer.order, status |-> "PENDING"]]
    /\ consumer' = [consumer EXCEPT !.step = "announce"]
    /\ UNCHANGED << orderCreated, consumed, paystack, cache, workerVars,
                    topicVars, boundVars >>

\* Mutation: the link is announced before the row is saved.
AnnounceBeforeSaving ==
    /\ Consuming("save") \/ Consuming("announce")
    /\ initiated' = initiated \cup {consumer.reference}
    /\ consumer' = IF Consuming("save") THEN consumer ELSE [consumer EXCEPT !.step = "ack"]
    /\ UNCHANGED << orderCreated, consumed, paystack, payments, cache, workerVars,
                    confirmed, failed, boundVars >>

\* The event with the payment link.  (The key payment:ref:<reference> written
\* just before it is read by nothing and left out.)
AnnouncePayment ==
    /\ Consuming("announce")
    /\ \/ initiated' = initiated \cup {consumer.reference}
       \/ EmitMayFail /\ UNCHANGED initiated
    /\ consumer' = [consumer EXCEPT !.step = "ack"]
    /\ UNCHANGED << orderCreated, consumed, paystack, payments, cache, workerVars,
                    confirmed, failed, boundVars >>

\* The handler has returned: the offset is committed.
CommitOffset ==
    /\ Consuming("ack")
    /\ consumed' = consumed \cup {consumer.order}
    /\ consumer' = None
    /\ UNCHANGED << orderCreated, paystack, payments, cache, workerVars,
                    topicVars, boundVars >>

\* Mutation: the catch block does not throw, so the offset is committed.
RejectOrderAndReturn ==
    /\ \/ failed' = failed \cup {[order |-> consumer.order, reference |-> None]}
       \/ EmitMayFail /\ UNCHANGED failed
    /\ consumed' = consumed \cup {consumer.order}
    /\ consumer' = None
    /\ UNCHANGED << orderCreated, payments, cache, workerVars, initiated, confirmed >>

\* The catch block: announce the failure and throw.  The offset is not
\* committed, so the message comes back.
RejectOrder ==
    /\ \/ failed' = failed \cup {[order |-> consumer.order, reference |-> None]}
       \/ EmitMayFail /\ UNCHANGED failed
    /\ consumer' = None
    /\ UNCHANGED << orderCreated, consumed, payments, cache, workerVars,
                    initiated, confirmed >>

\* The call to Paystack fails, or only its answer is lost.
InitializeFails ==
    /\ Consuming("initialize")
    /\ CallFails
    /\ \/ UNCHANGED paystack
       \/ paystack' = [paystack EXCEPT ![consumer.reference] = Open(consumer.order)]
    /\ RejectOrder

SaveFails ==
    /\ Consuming("save")
    /\ CallFails
    /\ UNCHANGED paystack
    /\ RejectOrder

-------------------------------------------------------------------------------
(***************************************************************************)
(* Paystack and the webhook                                                *)
(***************************************************************************)

\* The buyer pays through the link announced for the reference.
Pay(r) ==
    /\ r \in initiated
    /\ paystack[r] # None
    /\ paystack[r].state = "open"
    /\ paystack' = [paystack EXCEPT ![r].state = "success"]
    /\ UNCHANGED << consumerVars, payments, cache, workerVars, topicVars, boundVars >>

\* The merchant gives the money back in Paystack's dashboard.
Reverse(r) ==
    /\ paystack[r] # None
    /\ paystack[r].state = "success"
    /\ paystack' = [paystack EXCEPT ![r].state = "reversed"]
    /\ UNCHANGED << consumerVars, payments, cache, workerVars, topicVars, boundVars >>

NewJob(r) == [state |-> "waiting", attempts |-> 0, stalls |-> 0, early |-> ~Charged(r)]

\* handleWebhook for a charge.success event of Paystack: one more job, whatever
\* the queue already holds for this reference.  Paystack repeats an event that
\* was not answered in time.
HandleWebhook(r, d) ==
    /\ Charged(r)
    /\ jobs[<< r, d >>] = None
    /\ jobs' = [jobs EXCEPT ![<< r, d >>] = NewJob(r)]
    /\ UNCHANGED << consumerVars, paystack, payments, cache, worker, topicVars,
                    boundVars >>

-------------------------------------------------------------------------------
(***************************************************************************)
(* The worker: verifyAndConfirmPayment                                     *)
(***************************************************************************)
Working(step) == worker # None /\ worker.step = step

Ref(j) == j[1]

\* The handler returns and the job is removed from the queue.
FinishJob(j) == [jobs EXCEPT ![j].state = "completed"]

\* Mutation: the marker is set when the job starts, to keep others out.
StartJobAndMark(j) ==
    /\ worker = None
    /\ jobs[j] # None
    /\ jobs[j].state = "waiting"
    /\ IF Ref(j) \in cache
       THEN jobs' = FinishJob(j) /\ UNCHANGED << worker, cache >>
       ELSE /\ jobs' = [jobs EXCEPT ![j].state = "active"]
            /\ worker' = [id |-> j, step |-> "find", outcome |-> None]
            /\ cache' = cache \cup {Ref(j)}
    /\ UNCHANGED << consumerVars, paystack, payments, topicVars, boundVars >>

\* The worker takes a job and looks for the marker of its reference first.
StartJob(j) ==
    /\ worker = None
    /\ jobs[j] # None
    /\ jobs[j].state = "waiting"
    /\ IF Ref(j) \in cache
       THEN jobs' = FinishJob(j) /\ UNCHANGED worker
       ELSE /\ jobs' = [jobs EXCEPT ![j].state = "active"]
            /\ worker' = [id |-> j, step |-> "find", outcome |-> None]
    /\ UNCHANGED << consumerVars, paystack, payments, cache, topicVars, boundVars >>

\* Mutation: a payment that is no longer PENDING is taken as done.
FindPendingPayment ==
    /\ Working("find")
    /\ IF payments[Ref(worker.id)] = None \/ payments[Ref(worker.id)].status # "PENDING"
       THEN jobs' = FinishJob(worker.id) /\ worker' = None
       ELSE worker' = [worker EXCEPT !.step = "verify"] /\ UNCHANGED jobs
    /\ UNCHANGED << consumerVars, paystack, payments, cache, topicVars, boundVars >>

\* No row for the reference: an error is logged and the job is done.
FindPayment ==
    /\ Working("find")
    /\ IF payments[Ref(worker.id)] = None
       THEN jobs' = FinishJob(worker.id) /\ worker' = None
       ELSE worker' = [worker EXCEPT !.step = "verify"] /\ UNCHANGED jobs
    /\ UNCHANGED << consumerVars, paystack, payments, cache, topicVars, boundVars >>

\* Paystack's answer about the transaction, as it is at this moment.
VerdictOf(transaction) == IF transaction.state = "success" THEN "SUCCESS" ELSE "FAILED"

\* Mutation: a failed call to Paystack is taken as a failed payment.
VerifyTransactionOrFail ==
    /\ Working("verify")
    /\ \E outcome \in { VerdictOf(paystack[Ref(worker.id)]), "FAILED" } :
           worker' = [worker EXCEPT !.step = "update", !.outcome = outcome]
    /\ UNCHANGED << consumerVars, paystack, payments, cache, jobs, topicVars,
                    boundVars >>

VerifyTransaction ==
    /\ Working("verify")
    /\ worker' = [worker EXCEPT !.step = "update",
                                !.outcome = VerdictOf(paystack[Ref(worker.id)])]
    /\ UNCHANGED << consumerVars, paystack, payments, cache, jobs, topicVars,
                    boundVars >>

\* UPDATE by the id found before: it does not look at the status it replaces.
UpdatePayment ==
    /\ Working("update")
    /\ payments' = [payments EXCEPT ![Ref(worker.id)].status = worker.outcome]
    /\ worker' = [worker EXCEPT !.step = "emit"]
    /\ UNCHANGED << consumerVars, paystack, cache, jobs, topicVars, boundVars >>

EmitOutcome ==
    /\ Working("emit")
    /\ LET r == Ref(worker.id)
       IN \/ /\ worker.outcome = "SUCCESS"
             /\ confirmed' = [confirmed EXCEPT ![r] = @ + 1]
             /\ UNCHANGED failed
          \/ /\ worker.outcome = "FAILED"
             /\ failed' = failed \cup {[order |-> payments[r].order, reference |-> r]}
             /\ UNCHANGED confirmed
          \/ EmitMayFail /\ UNCHANGED << confirmed, failed >>
    /\ worker' = [worker EXCEPT !.step = "mark"]
    /\ UNCHANGED << consumerVars, paystack, payments, cache, jobs, initiated,
                    boundVars >>

MarkProcessed ==
    /\ Working("mark")
    /\ cache' = cache \cup {Ref(worker.id)}
    /\ jobs' = FinishJob(worker.id)
    /\ worker' = None
    /\ UNCHANGED << consumerVars, paystack, payments, topicVars, boundVars >>

\* A call of the worker fails: the error leaves the handler, BullMQ counts
\* the attempt and puts the job back after a delay, or gives it up.
AttemptsLeft(job) == job.attempts + 1 < MaxAttempts

FailAttempt ==
    /\ Working("find") \/ Working("verify") \/ Working("update")
    /\ CallFails
    /\ LET job == jobs[worker.id]
       IN jobs' = [jobs EXCEPT ![worker.id] =
              [ job EXCEPT !.attempts = @ + 1,
                           !.state = IF AttemptsLeft(job) THEN "waiting" ELSE "failed" ]]
    /\ worker' = None
    /\ UNCHANGED << consumerVars, paystack, payments, cache, topicVars >>

-------------------------------------------------------------------------------
(***************************************************************************)
(* Cache expiry and crashes                                                *)
(***************************************************************************)

\* payment:processed expires after a day.
Expire(r) ==
    /\ r \in cache
    /\ cache' = cache \ {r}
    /\ UNCHANGED << consumerVars, paystack, payments, workerVars, topicVars, boundVars >>

\* BullMQ finds the job of a dead worker: once it goes back to the queue.
Stalled(job) ==
    IF job.stalls < MaxStalls
    THEN [job EXCEPT !.state = "waiting", !.stalls = @ + 1]
    ELSE [job EXCEPT !.state = "failed"]

\* The process dies and is started again.
Die ==
    /\ crashes < MaxCrashes
    /\ crashes' = crashes + 1
    /\ consumer' = None
    /\ worker' = None
    /\ cache' = {}

JobsOfDeadWorker ==
    IF worker = None THEN jobs ELSE [jobs EXCEPT ![worker.id] = Stalled(@)]

Crash ==
    /\ Die
    /\ jobs' = JobsOfDeadWorker
    /\ UNCHANGED << orderCreated, consumed, paystack, payments, topicVars, errors >>

\* handleWebhook for a delivery whose signature does not match.  verifySignature
\* is async and not awaited, so the check that should refuse the delivery sees
\* a promise, which is true: the job is queued like any other.  The promise is
\* rejected with nobody listening, and that ends the process.  (When it ends
\* before the job has reached Redis this is a Crash, and a reference nobody has
\* drawn gives a job that FindPayment drops.)
HandleStrayWebhook(r, s) ==
    /\ paystack[r] # None
    /\ jobs[<< r, s >>] = None
    /\ Die
    /\ jobs' = [JobsOfDeadWorker EXCEPT ![<< r, s >>] = NewJob(r)]
    /\ UNCHANGED << orderCreated, consumed, paystack, payments, topicVars, errors >>

-------------------------------------------------------------------------------
ConsumerStep ==
    \/ \E m \in Orders, r \in Refs : ReceiveOrder(m, r)
    \/ InitializeTransaction
    \/ SavePayment
    \/ AnnouncePayment
    \/ CommitOffset

WorkerStep ==
    \/ \E j \in JobId : StartJob(j)
    \/ FindPayment
    \/ VerifyTransaction
    \/ UpdatePayment
    \/ EmitOutcome
    \/ MarkProcessed

Faults ==
    \/ InitializeFails
    \/ SaveFails
    \/ FailAttempt
    \/ \E r \in cache : Expire(r)
    \/ Crash
    \/ \E r \in Refs, s \in Strays : HandleStrayWebhook(r, s)

Provider ==
    \E r \in Refs : Pay(r) \/ Reverse(r) \/ \E d \in Deliveries : HandleWebhook(r, d)

\* Everything but the arrival of new orders.
Service == ConsumerStep \/ WorkerStep \/ Faults \/ Provider

Next == Service \/ \E m \in Orders : OrderArrives(m)

Spec == Init /\ [][Next]_vars

\* kafkajs and BullMQ keep polling after every error and restart, and Paystack
\* repeats its webhook until one delivery has been answered.
FirstWebhook(r) ==
    /\ \A d \in Deliveries : jobs[<< r, d >>] = None
    /\ \E d \in Deliveries : HandleWebhook(r, d)

Fairness ==
    /\ WF_vars(ConsumerStep)
    /\ WF_vars(WorkerStep)
    /\ \A r \in Refs : WF_vars(FirstWebhook(r))

FairSpec == Spec /\ Fairness

-------------------------------------------------------------------------------
(***************************************************************************)
(* Properties                                                              *)
(***************************************************************************)

\* handleOrderCreated saves the row before it sends out the link: whenever a
\* buyer has been charged, the payment of that charge and of that order is on
\* record, so the worker never drops a charge as unknown.
ChargedHasRecord ==
    \A r \in Refs :
        Charged(r) => payments[r] # None /\ payments[r].order = paystack[r].order

\* The offset of order.created is committed last: an order whose message will
\* not come back has a payment on record, whatever failed or crashed before.
ConsumedHasPayment ==
    \A m \in consumed : \E r \in Refs : payments[r] # None /\ payments[r].order = m

AnnouncedFailure(r) == \E m \in failed : m.reference = r

\* verifyAndConfirmPayment sets the marker last, over repeated webhooks, failed
\* attempts and crashes: a marked reference, which every later job skips, has
\* its outcome stored and, where emit loses nothing, announced.
MarkedIsSettled ==
    \A r \in cache :
        /\ payments[r] # None
        /\ payments[r].status # "PENDING"
        /\ EmitMayFail \/ confirmed[r] > 0 \/ AnnouncedFailure(r)

\* Paystack was asked about the reference before it was charged: a delivery that
\* was not Paystack's had queued a job.
AskedEarly(r) == \E j \in JobId : Ref(j) = r /\ jobs[j] # None /\ jobs[j].early

FailureOf(r) ==
    (payments[r] # None /\ payments[r].status = "FAILED") \/ AnnouncedFailure(r)

SuccessOf(r) ==
    (payments[r] # None /\ payments[r].status = "SUCCESS") \/ confirmed[r] > 0

\* The worker believes Paystack and nothing else.  A payment is never a SUCCESS,
\* in the table or in an event, without a charge, whoever called the webhook;
\* and it is FAILED only because the charge was reversed or because the webhook
\* had let Paystack be asked before there was a charge.  An unreachable Paystack,
\* a repeated or stalled job, or a delivery that does not match but comes after
\* the charge never fails a payment.
OutcomeHasCause ==
    \A r \in Refs :
        /\ SuccessOf(r) => Charged(r)
        /\ FailureOf(r) => Reversed(r) \/ AskedEarly(r)

\* From Paystack's webhook to the event: a charge is eventually announced to the
\* other services as confirmed, over failed calls and crashes.  Two charges may
\* only have been announced as failed: one reversed meanwhile, and one Paystack
\* was asked about too early, whose own job then meets the marker and is skipped.
\* (Charges and announcements are never undone.)
ChargeIsAnnounced ==
    []<>(\A r \in Refs :
            Charged(r) => \/ confirmed[r] > 0
                          \/ AnnouncedFailure(r) /\ (Reversed(r) \/ AskedEarly(r)))

\* "Redis-based duplicate event protection" (README.md:340): an order whose
\* order.created message is delivered twice is charged once.
OrderChargedOnce ==
    \A r, q \in Refs :
        Charged(r) /\ Charged(q) /\ paystack[r].order = paystack[q].order => r = q

-------------------------------------------------------------------------------
(***************************************************************************)
(* Refinement: the service implements PaymentLedger                        *)
(***************************************************************************)
LinkOf(r) == IF r \in initiated THEN payments[r].order ELSE None

ChargeOf(r) == IF Charged(r) THEN paystack[r].state ELSE "open"

VerdictOnRecord(r) == IF payments[r] = None THEN "PENDING" ELSE payments[r].status

Ledger == INSTANCE PaymentLedger
    WITH ordered <- orderCreated,
         link    <- [r \in Refs |-> LinkOf(r)],
         charge  <- [r \in Refs |-> ChargeOf(r)],
         verdict <- [r \in Refs |-> VerdictOnRecord(r)],
         early   <- { r \in Refs : AskedEarly(r) }

\* handleOrderCreated, the webhook and the worker together, over redelivered
\* messages, repeated webhooks, retries, stalls and crashes: every step is one
\* of the ledger or changes nothing there.  A SUCCESS never runs ahead of its
\* charge and is taken back by a reversal only; a FAILED is final unless Paystack
\* was asked too early.
ImplementsLedger == Ledger!Spec

-------------------------------------------------------------------------------
(***************************************************************************)
(* The inductive invariants behind the safety properties                   *)
(***************************************************************************)

\* A worker works on an active job that has an attempt left and, once the row
\* has been found, on a stored payment.
WorkInv ==
    /\ worker # None =>
          /\ jobs[worker.id] # None
          /\ jobs[worker.id].state = "active"
          /\ worker.step # "find" => payments[Ref(worker.id)] # None
    /\ \A j \in JobId :
          jobs[j] # None /\ jobs[j].state \in { "waiting", "active" }
          => jobs[j].attempts < MaxAttempts

\* The row and the transaction of a reference, saved for the same order.
Recorded(r) ==
    /\ payments[r] # None
    /\ paystack[r] # None
    /\ payments[r].order = paystack[r].order

\* The link is the only way to a charge, and it goes out when the transaction
\* and the row of its reference both exist.
ChargedIsLinked == \A r \in Refs : Charged(r) => r \in initiated

LinkedIsRecorded == \A r \in initiated : Recorded(r)

StoredIsRecorded == \A r \in Refs : payments[r] # None => Recorded(r)

ConsumerInv ==
    consumer # None =>
        LET r == consumer.reference
        IN /\ consumer.step = "initialize" => paystack[r] = None
           /\ consumer.step \in { "initialize", "save" } => payments[r] = None
           /\ consumer.step = "save" =>
                 paystack[r] # None /\ paystack[r].order = consumer.order
           /\ consumer.step \in { "announce", "ack" } =>
                 Recorded(r) /\ payments[r].order = consumer.order

LinkInv == ChargedIsLinked /\ LinkedIsRecorded /\ StoredIsRecorded /\ ConsumerInv

\* A job that is not for a charge is an early one, and the outcome a worker
\* holds has its cause.
OutcomeInv ==
    /\ \A j \in JobId : jobs[j] # None => Charged(Ref(j)) \/ jobs[j].early
    /\ worker # None =>
          /\ worker.outcome = "SUCCESS" => Charged(Ref(worker.id))
          /\ worker.outcome = "FAILED" =>
                Reversed(Ref(worker.id)) \/ AskedEarly(Ref(worker.id))

\* The consumer handles an announced order, and between the worker's look at
\* Paystack and its UPDATE no other UPDATE settles the payment: it makes a
\* SUCCESS of a failed payment only if Paystack was asked too early, and fails
\* a successful one only if its charge was reversed.
LedgerInv ==
    /\ consumer # None => consumer.order \in orderCreated
    /\ worker # None /\ worker.step = "update" =>
          LET r == Ref(worker.id)
          IN /\ worker.outcome = "SUCCESS" /\ payments[r].status = "FAILED" => AskedEarly(r)
             /\ worker.outcome = "FAILED" /\ payments[r].status = "SUCCESS" => Reversed(r)

\* Every transaction opened at Paystack is for a message of the topic.
TransactionsAreOrdered ==
    \A r \in Refs : paystack[r] # None => paystack[r].order \in orderCreated

\* A reference is marked by a worker that has stored and announced its outcome.
Settled(r) == payments[r] # None /\ payments[r].status # "PENDING"

Announced(r) == EmitMayFail \/ confirmed[r] > 0 \/ AnnouncedFailure(r)

MarkInv ==
    /\ \A r \in cache : Settled(r) /\ Announced(r)
    /\ worker # None /\ worker.step \in { "emit", "mark" } => Settled(Ref(worker.id))
    /\ worker # None /\ worker.step = "mark" => Announced(Ref(worker.id))

IInv ==
    /\ TypeOK /\ WorkInv /\ LinkInv
    /\ OutcomeInv /\ OutcomeHasCause
    /\ LedgerInv /\ TransactionsAreOrdered
    /\ MarkInv

==============================================================================
