------------------------- MODULE PaymentServiceProofs -------------------------
(***************************************************************************)
(* Theorems about PaymentService, for every set of orders, references and  *)
(* webhook deliveries and any number of failed calls and crashes.          *)
(***************************************************************************)
EXTENDS PaymentService, TLAPS

USE DEF consumerVars, workerVars, topicVars, boundVars

\* What both ways to die have in common.
Death == Die /\ UNCHANGED << orderCreated, consumed, paystack, payments, topicVars, errors >>

\* BullMQ's look at a dead worker changes the state of its job and no other: the
\* job keeps its attempts.
LEMMA DeadWorkerJob ==
  ASSUME TypeOK, WorkInv, NEW j \in JobId
  PROVE  /\ JobsOfDeadWorker \in [JobId -> Job \cup {None}]
         /\ jobs[j] = None => JobsOfDeadWorker[j] = None
         /\ jobs[j] # None =>
               /\ JobsOfDeadWorker[j] # None
               /\ JobsOfDeadWorker[j].attempts = jobs[j].attempts
               /\ JobsOfDeadWorker[j].early = jobs[j].early
               /\ JobsOfDeadWorker[j].state \in { "waiting", "active" } =>
                     jobs[j].state \in { "waiting", "active" }
<1>1. CASE worker = None
  BY <1>1 DEF JobsOfDeadWorker, TypeOK
<1>2. CASE worker # None
  <2> DEFINE next == Stalled(jobs[worker.id])
  <2>1. /\ worker.id \in JobId /\ jobs[worker.id] \in Job
        /\ jobs[worker.id] # None /\ jobs[worker.id].state = "active"
    BY <1>2 DEF TypeOK, WorkInv, Work
  <2>2. next \in Job /\ next.attempts = jobs[worker.id].attempts
        /\ next.early = jobs[worker.id].early
    <3>1. jobs[worker.id].stalls \in 0..MaxStalls /\ jobs[worker.id].stalls \in Int
      BY <2>1 DEF Job, MaxStalls
    <3>2. jobs[worker.id].stalls < MaxStalls => jobs[worker.id].stalls + 1 \in 0..MaxStalls
      BY <3>1 DEF MaxStalls
    <3> QED
      BY <2>1, <3>1, <3>2 DEF Stalled, Job
  <2>3. JobsOfDeadWorker = [jobs EXCEPT ![worker.id] = next]
    BY <1>2 DEF JobsOfDeadWorker
  <2> HIDE DEF next
  <2>4. next # None
    BY <2>2, NoneAssumption
  <2>5. /\ JobsOfDeadWorker[worker.id] = next
        /\ j # worker.id => JobsOfDeadWorker[j] = jobs[j]
        /\ JobsOfDeadWorker \in [JobId -> Job \cup {None}]
    BY <2>1, <2>2, <2>3 DEF TypeOK
  <2> QED
    BY <2>1, <2>2, <2>4, <2>5
<1> QED
  BY <1>1, <1>2

LEMMA NewJobType ==
  ASSUME NEW r \in Refs
  PROVE  /\ NewJob(r) \in Job /\ NewJob(r) # None
         /\ NewJob(r).attempts < MaxAttempts
         /\ NewJob(r).state = "waiting"
         /\ NewJob(r).early = ~Charged(r)
<1>1. Charged(r) \in BOOLEAN
  BY DEF Charged
<1>2. NewJob(r) \in Job
  BY <1>1 DEF NewJob, Job, MaxAttempts, MaxStalls
<1> QED
  BY <1>2, NoneAssumption DEF NewJob, MaxAttempts

LEMMA TypeStep == TypeOK /\ WorkInv /\ [Next]_vars => (TypeOK /\ WorkInv)'
<1> USE BoundsAssumption, NoneAssumption
<1> SUFFICES ASSUME TypeOK, WorkInv, [Next]_vars PROVE (TypeOK /\ WorkInv)'
  OBVIOUS
<1> USE DEF TypeOK, WorkInv
<1>1. ASSUME NEW m \in Orders, OrderArrives(m) PROVE (TypeOK /\ WorkInv)'
  BY <1>1 DEF OrderArrives
<1>2. ASSUME NEW m \in Orders, NEW r \in Refs, ReceiveOrder(m, r)
      PROVE (TypeOK /\ WorkInv)'
  BY <1>2 DEF ReceiveOrder, Consumption
<1>3. CASE InitializeTransaction
  BY <1>3 DEF InitializeTransaction, Consuming, Consumption, Open, Transaction
<1>4. CASE SavePayment
  BY <1>4 DEF SavePayment, Consuming, Consumption, Payment, PaymentStatus
<1>5. CASE AnnouncePayment
  BY <1>5 DEF AnnouncePayment, Consuming, Consumption
<1>6. CASE CommitOffset
  BY <1>6 DEF CommitOffset, Consuming, Consumption
<1>7. CASE InitializeFails
  <2>1. consumer.order \in Orders /\ consumer.reference \in Refs
    BY <1>7 DEF InitializeFails, Consuming, Consumption
  <2>2. Open(consumer.order) \in Transaction
    BY <2>1 DEF Open, Transaction
  <2>3. [order |-> consumer.order, reference |-> None] \in PaymentFailed
    BY <2>1 DEF PaymentFailed
  <2> QED
    BY <1>7, <2>1, <2>2, <2>3 DEF InitializeFails, RejectOrder, CallFails
<1>8. CASE SaveFails
  BY <1>8 DEF SaveFails, RejectOrder, CallFails, Consuming, Consumption, PaymentFailed
<1>9. ASSUME NEW r \in Refs, Pay(r) \/ Reverse(r) PROVE (TypeOK /\ WorkInv)'
  BY <1>9 DEF Pay, Reverse, Transaction
<1>10. ASSUME NEW r \in Refs, NEW d \in Deliveries, HandleWebhook(r, d)
       PROVE (TypeOK /\ WorkInv)'
  <2>1. << r, d >> \in JobId
    BY DEF JobId
  <2>2. /\ jobs' = [jobs EXCEPT ![<< r, d >>] = NewJob(r)]
        /\ jobs[<< r, d >>] = None
        /\ UNCHANGED << consumerVars, paystack, payments, cache, worker, topicVars,
                        boundVars >>
    BY <1>10 DEF HandleWebhook
  <2>3. /\ jobs' \in [JobId -> Job \cup {None}]
        /\ jobs'[<< r, d >>] = NewJob(r)
        /\ \A j \in JobId : j # << r, d >> => jobs'[j] = jobs[j]
    BY <2>1, <2>2, NewJobType
  <2>4. TypeOK'
    BY <2>2, <2>3
  <2>5. WorkInv'
    BY <2>2, <2>3, NewJobType
  <2> QED
    BY <2>4, <2>5
<1>11. ASSUME NEW j \in JobId, StartJob(j) PROVE (TypeOK /\ WorkInv)'
  BY <1>11 DEF StartJob, FinishJob, Job, Work
<1>12. CASE FindPayment
  BY <1>12 DEF FindPayment, FinishJob, Working, Job, Work
<1>13. CASE VerifyTransaction
  BY <1>13 DEF VerifyTransaction, VerdictOf, Outcome, Working, Work
<1>14. CASE UpdatePayment
  BY <1>14 DEF UpdatePayment, Working, Work, Outcome, Payment, PaymentStatus, JobId, Ref
<1>15. CASE EmitOutcome
  <2> DEFINE r == Ref(worker.id)
  <2>1. worker \in Work /\ worker # None /\ worker.step = "emit"
    BY <1>15 DEF EmitOutcome, Working
  <2>2. worker.id \in JobId /\ worker.outcome \in Outcome /\ r \in Refs
    BY <2>1 DEF Work, JobId, Ref
  <2>3. payments[r] \in Payment
    BY <2>1, <2>2
  <2>4. /\ worker' = [worker EXCEPT !.step = "mark"]
        /\ UNCHANGED << consumerVars, paystack, payments, cache, jobs, initiated, boundVars >>
    BY <1>15 DEF EmitOutcome
  <2>5. /\ worker' \in Work /\ worker'.id = worker.id
        /\ worker'.step = "mark"
    BY <2>1, <2>4 DEF Work
  <2>6. confirmed' \in [Refs -> Nat] /\ failed' \subseteq PaymentFailed
    <3>1. [order |-> payments[r].order, reference |-> r] \in PaymentFailed
      BY <2>2, <2>3 DEF Payment, PaymentFailed
    <3>2. \/ confirmed' = [confirmed EXCEPT ![r] = @ + 1] /\ failed' = failed
          \/ /\ failed' = failed \cup {[order |-> payments[r].order, reference |-> r]}
             /\ confirmed' = confirmed
          \/ confirmed' = confirmed /\ failed' = failed
      BY <1>15 DEF EmitOutcome
    <3> QED
      BY <2>2, <3>1, <3>2
  <2>7. TypeOK'
    BY <2>4, <2>5, <2>6
  <2>8. WorkInv'
    BY <2>1, <2>4, <2>5
  <2> QED
    BY <2>7, <2>8
<1>16. CASE MarkProcessed
  BY <1>16 DEF MarkProcessed, FinishJob, Working, Work, Job, JobId, Ref
<1>17. CASE FailAttempt
  <2> DEFINE job  == jobs[worker.id]
             next == [job EXCEPT !.attempts = @ + 1,
                                 !.state = IF AttemptsLeft(job) THEN "waiting" ELSE "failed"]
  <2>1. worker # None /\ worker.id \in JobId
    BY <1>17 DEF FailAttempt, Working, Work
  <2>2. job \in Job /\ job.attempts < MaxAttempts
    BY <2>1
  <2>3. /\ next \in Job
        /\ next.state = "waiting" => next.attempts < MaxAttempts
        /\ next.state # "active"
    <3>1. job.attempts \in Int /\ job.attempts + 1 \in 0..MaxAttempts
      BY <2>2 DEF Job, MaxAttempts
    <3>2. ASSUME NEW state \in { "waiting", "failed" },
                 state = "waiting" => job.attempts + 1 < MaxAttempts,
                 NEW new, new = [job EXCEPT !.attempts = @ + 1, !.state = state]
          PROVE /\ new \in Job
                /\ new.state = "waiting" => new.attempts < MaxAttempts
                /\ new.state # "active"
      BY <2>2, <3>1, <3>2 DEF Job
    <3>3. CASE AttemptsLeft(job)
      <4>1. next = [job EXCEPT !.attempts = @ + 1, !.state = "waiting"]
        BY <3>3
      <4> QED
        BY <3>2, <3>3, <4>1 DEF AttemptsLeft
    <3>4. CASE ~AttemptsLeft(job)
      <4>1. next = [job EXCEPT !.attempts = @ + 1, !.state = "failed"]
        BY <3>4
      <4> QED
        BY <3>2, <4>1
    <3> QED
      BY <3>3, <3>4
  <2>4. jobs' = [jobs EXCEPT ![worker.id] = next]
    BY <1>17 DEF FailAttempt
  <2> HIDE DEF next
  <2>5. jobs' \in [JobId -> Job \cup {None}] /\ worker' = None
    BY <1>17, <2>1, <2>3, <2>4 DEF FailAttempt
  <2>6. errors' \in 0..MaxErrors /\ UNCHANGED crashes
    BY <1>17 DEF FailAttempt, CallFails
  <2>7. TypeOK'
    BY <1>17, <2>5, <2>6 DEF FailAttempt
  <2>8. WorkInv'
    <3>1. \A j \in JobId : j # worker.id => jobs'[j] = jobs[j]
      BY <2>4
    <3>2. jobs'[worker.id] = next
      BY <2>1, <2>4
    <3> QED
      BY <2>3, <2>5, <3>1, <3>2
  <2> QED
    BY <2>7, <2>8
<1>18. ASSUME NEW r \in cache, Expire(r) PROVE (TypeOK /\ WorkInv)'
  BY <1>18 DEF Expire
<1>19. CASE Crash
  <2>1. /\ worker' = None /\ consumer' = None /\ cache' = {}
        /\ crashes' \in 0..MaxCrashes /\ jobs' = JobsOfDeadWorker
        /\ UNCHANGED << orderCreated, consumed, paystack, payments, topicVars, errors >>
    BY <1>19 DEF Crash, Die
  <2>2. jobs' \in [JobId -> Job \cup {None}]
    <3>1. CASE JobId = {}
      BY <2>1, <3>1 DEF JobsOfDeadWorker, Work
    <3> QED
      BY <2>1, <3>1, DeadWorkerJob
  <2>3. WorkInv'
    <3>1. ASSUME NEW j \in JobId
          PROVE  jobs'[j] # None /\ jobs'[j].state \in { "waiting", "active" }
                 => jobs'[j].attempts < MaxAttempts
      BY <2>1, DeadWorkerJob
    <3> QED
      BY <2>1, <3>1
  <2> QED
    BY <2>1, <2>2, <2>3
<1>20. CASE UNCHANGED vars
  BY <1>20 DEF vars
<1>21. ASSUME NEW r \in Refs, NEW s \in Strays, HandleStrayWebhook(r, s)
       PROVE  (TypeOK /\ WorkInv)'
  <2>1. /\ worker' = None /\ consumer' = None /\ cache' = {}
        /\ crashes' \in 0..MaxCrashes
        /\ jobs' = [JobsOfDeadWorker EXCEPT ![<< r, s >>] = NewJob(r)]
        /\ UNCHANGED << orderCreated, consumed, paystack, payments, topicVars, errors >>
    BY <1>21 DEF HandleStrayWebhook, Die
  <2>2. << r, s >> \in JobId
    BY DEF JobId
  <2>3. /\ jobs' \in [JobId -> Job \cup {None}]
        /\ jobs'[<< r, s >>] = NewJob(r)
        /\ \A j \in JobId : j # << r, s >> => jobs'[j] = JobsOfDeadWorker[j]
    BY <2>1, <2>2, DeadWorkerJob, NewJobType
  <2>4. WorkInv'
    <3>1. ASSUME NEW j \in JobId
          PROVE  jobs'[j] # None /\ jobs'[j].state \in { "waiting", "active" }
                 => jobs'[j].attempts < MaxAttempts
      BY <2>3, DeadWorkerJob, NewJobType
    <3> QED
      BY <2>1, <3>1
  <2> QED
    BY <2>1, <2>3, <2>4
<1> HIDE DEF TypeOK, WorkInv
<1> QED
  BY <1>1, <1>2, <1>3, <1>4, <1>5, <1>6, <1>7, <1>8, <1>9, <1>10, <1>11, <1>12,
     <1>13, <1>14, <1>15, <1>16, <1>17, <1>18, <1>19, <1>20, <1>21
     DEF Next, Service, ConsumerStep, WorkerStep, Faults, Provider

\* Every variable keeps its type, a running job has an attempt left, and the
\* worker only updates a payment row it has found.
THEOREM TypeCorrect == Spec => [](TypeOK /\ WorkInv)
<1> USE BoundsAssumption, NoneAssumption
<1>1. Init => TypeOK /\ WorkInv
  BY DEF Init, TypeOK, WorkInv
<1> QED
  BY <1>1, TypeStep, PTL DEF Spec

\* The worker's UPDATE adds no row, removes none and leaves its order alone.
LEMMA UpdateKeepsRows ==
  ASSUME TypeOK, WorkInv, UpdatePayment
  PROVE  \A r \in Refs :
            /\ payments[r] = None => payments'[r] = None
            /\ payments[r] # None =>
                  payments'[r] # None /\ payments'[r].order = payments[r].order
<1> DEFINE ref == Ref(worker.id)
           row == [payments[ref] EXCEPT !.status = worker.outcome]
<1>1. worker \in Work /\ worker.step = "update"
  BY NoneAssumption DEF UpdatePayment, Working, TypeOK
<1>2. worker.id \in JobId /\ worker.outcome \in Outcome
  BY <1>1 DEF Work
<1>3. ref \in Refs /\ payments[ref] # None /\ payments[ref] \in Payment
  BY <1>1, <1>2 DEF UpdatePayment, Working, WorkInv, JobId, Ref, TypeOK
<1>4. row \in Payment /\ row.order = payments[ref].order
  BY <1>2, <1>3 DEF Payment, PaymentStatus, Outcome
<1>5. payments' = [payments EXCEPT ![ref] = row]
  BY DEF UpdatePayment
<1> HIDE DEF ref, row
<1>6. /\ payments'[ref] = row
      /\ \A r \in Refs : r # ref => payments'[r] = payments[r]
  BY <1>3, <1>5 DEF TypeOK
<1>7. row # None
  BY <1>4, NoneAssumption
<1> QED
  BY <1>3, <1>4, <1>6, <1>7

\* The link to a payment goes out after its row and its transaction exist,
\* and it is the only way to a charge.
THEOREM LinkInvariant == Spec => []LinkInv
<1>1. Init => LinkInv
  BY DEF Init, LinkInv, ChargedIsLinked, LinkedIsRecorded, StoredIsRecorded, ConsumerInv,
         Charged
<1>2. TypeOK /\ WorkInv /\ LinkInv /\ [Next]_vars => LinkInv'
  <2> SUFFICES ASSUME TypeOK, WorkInv, LinkInv, [Next]_vars PROVE LinkInv'
    OBVIOUS
  <2> USE NoneAssumption DEF TypeOK, LinkInv, ChargedIsLinked, LinkedIsRecorded,
         StoredIsRecorded, ConsumerInv, Recorded, Charged
  <2>1. ASSUME NEW m \in Orders, OrderArrives(m) PROVE LinkInv'
    BY <2>1 DEF OrderArrives
  <2>2. ASSUME NEW m \in Orders, NEW r \in Refs, ReceiveOrder(m, r)
        PROVE LinkInv'
    BY <2>2 DEF ReceiveOrder, Consumption
  <2>3. CASE InitializeTransaction
    <3> DEFINE ref == consumer.reference
    <3>1. /\ consumer \in Consumption /\ ref \in Refs
          /\ paystack[ref] = None /\ ~Recorded(ref) /\ ref \notin initiated
      BY <2>3 DEF InitializeTransaction, Consuming, Consumption
    <3>2. /\ \A r \in Refs : r # ref => paystack'[r] = paystack[r]
          /\ paystack'[ref] = Open(consumer.order)
          /\ Open(consumer.order) # None
      BY <2>3, <3>1 DEF InitializeTransaction, Open, Transaction, Consumption
    <3>3. (ChargedIsLinked /\ LinkedIsRecorded /\ StoredIsRecorded)'
      BY <2>3, <3>1, <3>2 DEF InitializeTransaction, Open
    <3>4. consumer' # None /\ consumer'.step = "save"
          /\ consumer'.reference = ref /\ consumer'.order = consumer.order
      BY <2>3, <3>1 DEF InitializeTransaction, Consumption
    <3>5. payments'[ref] = None
      BY <2>3, <3>1 DEF InitializeTransaction, Consuming
    <3>6. ConsumerInv'
      BY <3>2, <3>4, <3>5 DEF Open
    <3> QED
      BY <3>3, <3>6
  <2>4. CASE SavePayment
    <3> DEFINE ref == consumer.reference
               row == [order |-> consumer.order, status |-> "PENDING"]
    <3>1. /\ consumer \in Consumption /\ ref \in Refs
          /\ paystack[ref] # None /\ paystack[ref].order = consumer.order
      BY <2>4 DEF SavePayment, Consuming, Consumption
    <3>2. /\ \A r \in Refs : r # ref => payments'[r] = payments[r]
          /\ payments'[ref] = row
          /\ row # None
      BY <2>4, <3>1 DEF SavePayment, Payment, PaymentStatus, Consumption
    <3>3. Recorded(ref)' /\ payments'[ref].order = consumer.order
      BY <2>4, <3>1, <3>2 DEF SavePayment
    <3>4. (ChargedIsLinked /\ LinkedIsRecorded /\ StoredIsRecorded)'
      BY <2>4, <3>1, <3>2, <3>3 DEF SavePayment
    <3>5. consumer' # None /\ consumer'.step = "announce"
          /\ consumer'.reference = ref /\ consumer'.order = consumer.order
      BY <2>4, <3>1 DEF SavePayment, Consumption
    <3> QED
      BY <3>3, <3>4, <3>5
  <2>5. CASE AnnouncePayment
    BY <2>5 DEF AnnouncePayment, Consuming, Consumption
  <2>6. CASE CommitOffset
    BY <2>6 DEF CommitOffset
  <2>7. CASE InitializeFails
    BY <2>7 DEF InitializeFails, RejectOrder, Consuming, Consumption, Open
  <2>8. CASE SaveFails
    BY <2>8 DEF SaveFails, RejectOrder
  <2>9. ASSUME NEW r \in Refs, Pay(r) \/ Reverse(r) PROVE LinkInv'
    <3>1. /\ \A q \in Refs : q # r => paystack'[q] = paystack[q]
          /\ paystack[r] # None /\ paystack'[r] # None
          /\ paystack'[r].order = paystack[r].order
          /\ paystack[r].state = "open" \/ Charged(r)
          /\ r \in initiated \/ Charged(r)
      BY <2>9 DEF Pay, Reverse, Transaction
    <3>2. UNCHANGED << consumer, payments, initiated >>
      BY <2>9 DEF Pay, Reverse
    <3>3. \A q \in Refs : Recorded(q) => Recorded(q)'
      BY <3>1, <3>2
    <3>4. ChargedIsLinked'
      BY <3>1, <3>2
    <3>5. (LinkedIsRecorded /\ StoredIsRecorded)'
      BY <3>2, <3>3, TypeOK DEF LinkedIsRecorded
    <3>6. ConsumerInv'
      BY <3>1, <3>2, <3>3 DEF Consumption
    <3> QED
      BY <3>4, <3>5, <3>6
  <2>10. ASSUME NEW r \in Refs, NEW d \in Deliveries, HandleWebhook(r, d)
        PROVE LinkInv'
    BY <2>10 DEF HandleWebhook
  <2>11. ASSUME NEW j \in JobId, StartJob(j) PROVE LinkInv'
    BY <2>11 DEF StartJob, FinishJob
  <2>12. CASE FindPayment
    BY <2>12 DEF FindPayment, FinishJob, Working, Work
  <2>13. CASE VerifyTransaction
    BY <2>13 DEF VerifyTransaction, VerdictOf, Working, Work
  <2>14. CASE UpdatePayment
    <3>2. \A r \in Refs :
             /\ payments[r] = None => payments'[r] = None
             /\ payments[r] # None =>
                   payments'[r] # None /\ payments'[r].order = payments[r].order
      BY <2>14, UpdateKeepsRows
    <3>3. UNCHANGED << consumer, paystack, initiated >>
      BY <2>14 DEF UpdatePayment
    <3>4. \A r \in Refs : Recorded(r) => Recorded(r)'
      BY <3>2, <3>3
    <3>5. ChargedIsLinked'
      BY <3>3
    <3>6. (LinkedIsRecorded /\ StoredIsRecorded)'
      BY <3>2, <3>3, <3>4, TypeOK DEF LinkedIsRecorded
    <3>7. ConsumerInv'
      BY <3>2, <3>3, <3>4 DEF Consumption
    <3> QED
      BY <3>5, <3>6, <3>7
  <2>15. CASE EmitOutcome
    BY <2>15 DEF EmitOutcome
  <2>16. CASE MarkProcessed
    BY <2>16 DEF MarkProcessed, FinishJob, Working, Work
  <2>17. CASE FailAttempt
    BY <2>17 DEF FailAttempt, Working, Work
  <2>18. ASSUME NEW r \in cache, Expire(r) PROVE LinkInv'
    BY <2>18 DEF Expire
  <2>19. CASE Death
    BY <2>19 DEF Death, Die
  <2>20. CASE UNCHANGED vars
    BY <2>20 DEF vars
  <2> HIDE DEF TypeOK, LinkInv, ChargedIsLinked, LinkedIsRecorded,
         StoredIsRecorded, ConsumerInv, Recorded, Charged
  <2> QED
    BY <2>1, <2>2, <2>3, <2>4, <2>5, <2>6, <2>7, <2>8, <2>9, <2>10, <2>11, <2>12,
       <2>13, <2>14, <2>15, <2>16, <2>17, <2>18, <2>19, <2>20
       DEF Next, Service, ConsumerStep, WorkerStep, Faults, Provider, Crash,
           HandleStrayWebhook, Death
<1> QED
  BY <1>1, <1>2, TypeCorrect, PTL DEF Spec

\* Whoever has been charged has a payment on record: the worker never drops a
\* charge as unknown.
THEOREM ChargesAreRecorded == Spec => []ChargedHasRecord
<1>1. LinkInv => ChargedHasRecord
  BY DEF LinkInv, ChargedIsLinked, LinkedIsRecorded, ChargedHasRecord, Recorded
<1> QED
  BY <1>1, LinkInvariant, PTL

\* The consumer commits an offset only behind a stored row, and no step removes
\* a row or gives it to another order: a consumed order has a payment.
THEOREM ConsumedIsRecorded == Spec => []ConsumedHasPayment
<1> DEFINE RowsStay == \A r \in Refs : payments[r] # None =>
                           payments'[r] # None /\ payments'[r].order = payments[r].order
<1>1. Init => ConsumedHasPayment
  BY DEF Init, ConsumedHasPayment
<1>2. TypeOK /\ WorkInv /\ LinkInv /\ ConsumedHasPayment /\ [Next]_vars
      => ConsumedHasPayment'
  <2> SUFFICES ASSUME TypeOK, WorkInv, LinkInv, ConsumedHasPayment, [Next]_vars
               PROVE ConsumedHasPayment'
    OBVIOUS
  <2>1. CASE CommitOffset
    <3>1. /\ consumer.order \in Orders /\ consumer.reference \in Refs
          /\ payments[consumer.reference] # None
          /\ payments[consumer.reference].order = consumer.order
      BY <2>1 DEF CommitOffset, Consuming, Consumption, LinkInv, ConsumerInv, Recorded, TypeOK
    <3> QED
      BY <2>1, <3>1 DEF CommitOffset, ConsumedHasPayment
  <2>2. CASE SavePayment
    <3>1. RowsStay
      <4>1. consumer.reference \in Refs /\ consumer.order \in Orders
        BY <2>2 DEF SavePayment, Consuming, Consumption, TypeOK
      <4>2. payments[consumer.reference] = None
        BY <2>2, <4>1 DEF SavePayment, Consuming, LinkInv, ConsumerInv
      <4> QED
        BY <2>2, <4>1, <4>2 DEF SavePayment, TypeOK
    <3> QED
      BY <2>2, <3>1 DEF SavePayment, ConsumedHasPayment
  <2>3. CASE UpdatePayment
    <3>1. RowsStay
      BY <2>3, UpdateKeepsRows
    <3> QED
      BY <2>3, <3>1 DEF UpdatePayment, ConsumedHasPayment
  <2>4. ASSUME UNCHANGED << consumed, payments >> PROVE ConsumedHasPayment'
    BY <2>4 DEF ConsumedHasPayment
  <2>5. [Next]_vars => \/ CommitOffset \/ SavePayment \/ UpdatePayment
                      \/ UNCHANGED << consumed, payments >>
    BY DEF Next, Service, ConsumerStep, WorkerStep, Faults, Provider, OrderArrives,
           ReceiveOrder, InitializeTransaction, AnnouncePayment, InitializeFails,
           SaveFails, RejectOrder, Pay, Reverse, HandleWebhook, StartJob, FindPayment,
           VerifyTransaction, EmitOutcome, MarkProcessed, FailAttempt, Expire, Crash,
           HandleStrayWebhook, Die, vars
  <2> QED
    BY <2>1, <2>2, <2>3, <2>4, <2>5
<1> QED
  BY <1>1, <1>2, TypeCorrect, LinkInvariant, PTL DEF Spec

\* Which steps change a transaction at Paystack.
LEMMA PaystackWriters ==
  ASSUME [Next]_vars
  PROVE  \/ InitializeTransaction \/ InitializeFails
         \/ \E q \in Refs : Pay(q) \/ Reverse(q)
         \/ UNCHANGED paystack
  BY DEF Next, Service, ConsumerStep, WorkerStep, Faults, Provider, OrderArrives,
         ReceiveOrder, SavePayment, AnnouncePayment, CommitOffset, SaveFails,
         HandleWebhook, StartJob, FindPayment, VerifyTransaction, UpdatePayment,
         EmitOutcome, MarkProcessed, FailAttempt, Expire, Crash, HandleStrayWebhook,
         Die, vars

\* A charge is never undone at Paystack other than by a reversal, and a
\* reversal is final: no reference is initialised twice.
LEMMA ChargesStay ==
  ASSUME TypeOK, LinkInv, [Next]_vars, NEW r \in Refs
  PROVE  /\ Charged(r) => Charged(r)'
         /\ Reversed(r) => Reversed(r)'
<1>1. ASSUME InitializeTransaction \/ InitializeFails
      PROVE  paystack[r] # None => paystack'[r] = paystack[r]
  <2>1. consumer.reference \in Refs /\ paystack[consumer.reference] = None
    BY <1>1 DEF InitializeTransaction, InitializeFails, Consuming, Consumption,
                LinkInv, ConsumerInv, TypeOK
  <2> QED
    BY <1>1, <2>1 DEF InitializeTransaction, InitializeFails, TypeOK
<1>2. ASSUME NEW q \in Refs, Pay(q) \/ Reverse(q)
      PROVE  /\ Charged(r) => Charged(r)'
             /\ Reversed(r) => Reversed(r)'
  <2>1. /\ \A p \in Refs : p # q => paystack'[p] = paystack[p]
        /\ paystack'[q] \in Transaction
        /\ paystack'[q].state \in { "success", "reversed" }
        /\ paystack[q].state \in { "open", "success" }
    BY <1>2 DEF Pay, Reverse, Transaction, TypeOK
  <2>2. paystack'[q] # None
    BY <2>1, NoneAssumption
  <2> QED
    BY <2>1, <2>2 DEF Charged, Reversed
<1> QED
  BY <1>1, <1>2, PaystackWriters DEF Charged, Reversed

\* A job keeps the moment it was queued at, and a new one is queued by a delivery
\* to the webhook, of a charge or of one whose signature does not match.
LEMMA JobStep ==
  ASSUME TypeOK, WorkInv, [Next]_vars, NEW j \in JobId
  PROVE  /\ jobs[j] # None => jobs'[j] # None /\ jobs'[j].early = jobs[j].early
         /\ jobs[j] = None /\ jobs'[j] # None =>
               /\ jobs'[j].early = ~Charged(Ref(j))
               /\ Charged(Ref(j)) \/ \E s \in Strays : HandleStrayWebhook(Ref(j), s)
<1> DEFINE Goal == /\ jobs[j] # None => jobs'[j] # None /\ jobs'[j].early = jobs[j].early
                   /\ jobs[j] = None /\ jobs'[j] # None =>
                         /\ jobs'[j].early = ~Charged(Ref(j))
                         /\ \/ Charged(Ref(j))
                            \/ \E s \in Strays : HandleStrayWebhook(Ref(j), s)
<1> SUFFICES Goal
  OBVIOUS
<1>1. CASE UNCHANGED jobs
  BY <1>1
<1>2. ASSUME NEW i \in JobId, NEW next \in Job, jobs[i] # None,
             next.early = jobs[i].early, jobs' = [jobs EXCEPT ![i] = next]
      PROVE  Goal
  <2>1. next # None
    BY NoneAssumption
  <2> QED
    BY <1>2, <2>1 DEF TypeOK
<1>3. ASSUME NEW i \in JobId, jobs[i] # None,
             NEW state \in { "waiting", "active", "completed", "failed" },
             jobs' = [jobs EXCEPT ![i].state = state]
      PROVE  Goal
  <2>1. jobs[i] \in Job
    BY <1>3 DEF TypeOK
  <2>2. [jobs[i] EXCEPT !.state = state] \in Job
        /\ [jobs[i] EXCEPT !.state = state].early = jobs[i].early
    BY <2>1 DEF Job
  <2> QED
    BY <1>2, <1>3, <2>2
<1>4. ASSUME NEW i \in JobId, StartJob(i) PROVE Goal
  BY <1>3, <1>4 DEF StartJob, FinishJob
<1>5. worker # None => worker.id \in JobId /\ jobs[worker.id] # None
  BY DEF TypeOK, WorkInv, Work
<1>6. CASE FindPayment \/ MarkProcessed
  BY <1>1, <1>3, <1>5, <1>6 DEF FindPayment, MarkProcessed, Working, FinishJob
<1>7. CASE FailAttempt
  <2> DEFINE job  == jobs[worker.id]
             next == [job EXCEPT !.attempts = @ + 1,
                                 !.state = IF AttemptsLeft(job) THEN "waiting" ELSE "failed"]
  <2>1. worker.id \in JobId /\ job # None /\ job \in Job /\ job.attempts < MaxAttempts
    BY <1>5, <1>7 DEF FailAttempt, Working, TypeOK, WorkInv
  <2>2. job.attempts \in Int /\ job.attempts + 1 \in 0..MaxAttempts
    BY <2>1 DEF Job, MaxAttempts
  <2>3. ASSUME NEW state \in { "waiting", "failed" }
        PROVE  LET new == [job EXCEPT !.attempts = @ + 1, !.state = state]
               IN new \in Job /\ new.early = job.early
    BY <2>1, <2>2 DEF Job
  <2>4. next \in Job /\ next.early = job.early
    <3>1. CASE AttemptsLeft(job)
      BY <2>3, <3>1
    <3>2. CASE ~AttemptsLeft(job)
      BY <2>3, <3>2
    <3> QED
      BY <3>1, <3>2
  <2>5. jobs' = [jobs EXCEPT ![worker.id] = next]
    BY <1>7 DEF FailAttempt
  <2> HIDE DEF next
  <2> QED
    BY <1>2, <2>1, <2>4, <2>5
<1>8. ASSUME NEW r \in Refs, NEW d \in Deliveries, HandleWebhook(r, d) PROVE Goal
  <2>1. << r, d >> \in JobId /\ Ref(<< r, d >>) = r
    BY DEF JobId, Ref
  <2>2. /\ jobs'[<< r, d >>] = NewJob(r) /\ jobs[<< r, d >>] = None /\ Charged(r)
        /\ j # << r, d >> => jobs'[j] = jobs[j]
    BY <1>8, <2>1 DEF HandleWebhook, TypeOK
  <2> QED
    BY <2>1, <2>2, NewJobType
<1>9. CASE Crash
  BY <1>9, DeadWorkerJob DEF Crash
<1>10. ASSUME NEW r \in Refs, NEW s \in Strays, HandleStrayWebhook(r, s) PROVE Goal
  <2>1. << r, s >> \in JobId /\ Ref(<< r, s >>) = r
    BY DEF JobId, Ref
  <2>2. /\ jobs'[<< r, s >>] = NewJob(r) /\ jobs[<< r, s >>] = None
        /\ j # << r, s >> => jobs'[j] = JobsOfDeadWorker[j]
    BY <1>10, <2>1, DeadWorkerJob DEF HandleStrayWebhook
  <2>3. CASE j = << r, s >>
    BY <1>10, <2>1, <2>2, <2>3, NewJobType
  <2>4. CASE j # << r, s >>
    BY <2>2, <2>4, DeadWorkerJob
  <2> QED
    BY <2>3, <2>4
<1>11. \/ \E r \in Refs, d \in Deliveries : HandleWebhook(r, d)
       \/ \E r \in Refs, s \in Strays : HandleStrayWebhook(r, s)
       \/ \E i \in JobId : StartJob(i)
       \/ FindPayment \/ MarkProcessed \/ FailAttempt \/ Crash
       \/ UNCHANGED jobs
  BY DEF Next, Service, ConsumerStep, WorkerStep, Faults, Provider, OrderArrives,
         ReceiveOrder, InitializeTransaction, SavePayment, AnnouncePayment,
         CommitOffset, InitializeFails, SaveFails, RejectOrder, Pay, Reverse,
         VerifyTransaction, UpdatePayment, EmitOutcome, Expire, vars
<1> HIDE DEF Goal
<1> QED
  BY <1>1, <1>4, <1>6, <1>7, <1>8, <1>9, <1>10, <1>11

LEMMA EarlyStays ==
  ASSUME TypeOK, WorkInv, [Next]_vars, NEW r \in Refs, AskedEarly(r)
  PROVE  AskedEarly(r)'
  BY JobStep DEF AskedEarly

\* Only a delivery that does not match makes Paystack be asked about a reference
\* that is not charged.
LEMMA EarlyStep ==
  ASSUME TypeOK, WorkInv, [Next]_vars
  PROVE  \/ \A r \in Refs : AskedEarly(r)' <=> AskedEarly(r)
         \/ \E q \in Refs :
               /\ ~Charged(q)
               /\ \A r \in Refs : AskedEarly(r)' <=> AskedEarly(r) \/ r = q
               /\ UNCHANGED << orderCreated, paystack, payments, initiated >>
<1>1. \A r \in Refs : AskedEarly(r) => AskedEarly(r)'
  BY EarlyStays
<1>2. CASE \E q \in Refs, s \in Strays : HandleStrayWebhook(q, s) /\ ~Charged(q)
  <2>1. PICK q \in Refs, s \in Strays : HandleStrayWebhook(q, s) /\ ~Charged(q)
    BY <1>2
  <2>2. << q, s >> \in JobId /\ Ref(<< q, s >>) = q
    BY DEF JobId, Ref
  <2>3. /\ jobs'[<< q, s >>] = NewJob(q)
        /\ \A j \in JobId : j # << q, s >> => jobs'[j] = JobsOfDeadWorker[j]
    BY <2>1, <2>2, DeadWorkerJob DEF HandleStrayWebhook
  <2>4. AskedEarly(q)'
    BY <2>1, <2>2, <2>3, NewJobType DEF AskedEarly
  <2>5. ASSUME NEW r \in Refs, r # q, AskedEarly(r)' PROVE AskedEarly(r)
    <3>1. PICK j \in JobId : Ref(j) = r /\ jobs'[j] # None /\ jobs'[j].early
      BY <2>5 DEF AskedEarly
    <3>2. j # << q, s >>
      BY <2>2, <2>5, <3>1
    <3> QED
      BY <2>3, <3>1, <3>2, DeadWorkerJob DEF AskedEarly
  <2>6. UNCHANGED << orderCreated, paystack, payments, initiated >>
    BY <2>1 DEF HandleStrayWebhook
  <2> QED
    BY <1>1, <2>1, <2>4, <2>5, <2>6
<1>3. CASE ~ \E q \in Refs, s \in Strays : HandleStrayWebhook(q, s) /\ ~Charged(q)
  <2>1. ASSUME NEW r \in Refs, AskedEarly(r)' PROVE AskedEarly(r)
    <3>1. PICK j \in JobId : Ref(j) = r /\ jobs'[j] # None /\ jobs'[j].early
      BY <2>1 DEF AskedEarly
    <3>2. jobs[j] # None
      BY <1>3, <3>1, JobStep
    <3> QED
      BY <3>1, <3>2, JobStep DEF AskedEarly
  <2> QED
    BY <1>1, <2>1
<1> QED
  BY <1>2, <1>3

\* What a worker may hold as the outcome of a payment, and what it may store.
Cause(r, outcome) ==
    /\ outcome = "SUCCESS" => Charged(r)
    /\ outcome = "FAILED" => Reversed(r) \/ AskedEarly(r)

LEMMA CausesStay ==
  ASSUME TypeOK, WorkInv, LinkInv, [Next]_vars, NEW r \in Refs, NEW outcome
  PROVE  Cause(r, outcome) => Cause(r, outcome)'
  BY ChargesStay, EarlyStays DEF Cause

\* Paystack's answer has its cause: of a stored payment there is a transaction,
\* and it is open only if the job came early.
LEMMA VerdictHasCause ==
  ASSUME TypeOK, WorkInv, LinkInv, OutcomeInv, VerifyTransaction
  PROVE  LET r == Ref(worker.id)
         IN /\ worker.id \in JobId /\ r \in Refs
            /\ payments[r] # None /\ paystack[r] # None
            /\ worker'.outcome \in Outcome /\ worker'.outcome # None
            /\ worker'.outcome = "SUCCESS" <=> paystack[r].state = "success"
            /\ Cause(r, worker'.outcome)
            /\ worker' # None /\ worker'.id = worker.id /\ worker'.step = "update"
            /\ UNCHANGED << paystack, payments, jobs >>
<1> DEFINE r == Ref(worker.id)
<1>1. /\ worker \in Work /\ worker # None /\ worker.step = "verify"
      /\ worker.id \in JobId /\ r \in Refs
      /\ jobs[worker.id] # None /\ payments[r] # None
  BY DEF VerifyTransaction, Working, Work, WorkInv, JobId, Ref, TypeOK
<1>2. paystack[r] # None /\ paystack[r] \in Transaction
  BY <1>1 DEF LinkInv, StoredIsRecorded, Recorded, TypeOK
<1>3. /\ worker' = [worker EXCEPT !.step = "update", !.outcome = VerdictOf(paystack[r])]
      /\ UNCHANGED << paystack, payments, jobs >>
  BY DEF VerifyTransaction
<1>4. /\ worker'.outcome = VerdictOf(paystack[r])
      /\ worker'.id = worker.id /\ worker'.step = "update"
  BY <1>1, <1>3 DEF Work
<1>5. VerdictOf(paystack[r]) \in Outcome
  BY DEF VerdictOf, Outcome
<1>6. worker' # None
  <2>1. worker' \in Work
    BY <1>1, <1>3, <1>5 DEF Work
  <2> QED
    BY <2>1, NoneAssumption
<1>7. Charged(r) \/ AskedEarly(r)
  BY <1>1 DEF OutcomeInv, AskedEarly
<1>8. Cause(r, VerdictOf(paystack[r]))
  BY <1>2, <1>7 DEF Cause, VerdictOf, Charged, Reversed, Transaction
<1>9. VerdictOf(paystack[r]) # None
  BY <1>5, NoneAssumption
<1>10. VerdictOf(paystack[r]) = "SUCCESS" <=> paystack[r].state = "success"
  BY DEF VerdictOf
<1> QED
  BY <1>1, <1>2, <1>3, <1>4, <1>5, <1>6, <1>8, <1>9, <1>10

\* Only the worker turns an outcome into a row and an event, and it has that
\* outcome from Paystack's answer: SUCCESS of a charge, FAILED of one that has
\* been reversed for good, or of none, when the webhook let a delivery queue a
\* job before there was a charge.
THEOREM OutcomesHaveCauses == Spec => [](OutcomeInv /\ OutcomeHasCause)
<1> DEFINE Inv == OutcomeInv /\ OutcomeHasCause
<1>1. Init => Inv
  BY DEF Init, OutcomeInv, OutcomeHasCause, SuccessOf, FailureOf, AnnouncedFailure
<1>2. TypeOK /\ WorkInv /\ LinkInv /\ Inv /\ [Next]_vars => Inv'
  <2> SUFFICES ASSUME TypeOK, WorkInv, LinkInv, Inv, [Next]_vars PROVE Inv'
    OBVIOUS
  <2> DEFINE JobsAreExplained ==
                 \A j \in JobId : jobs[j] # None => Charged(Ref(j)) \/ jobs[j].early
             WorkerIsRight == worker # None => Cause(Ref(worker.id), worker.outcome)
  <2>1. \A r \in Refs : Charged(r) => Charged(r)'
    BY ChargesStay
  <2>2. \A j \in JobId : Ref(j) \in Refs
    BY DEF JobId, Ref
  <2>3. worker # None => worker \in Work /\ worker.id \in JobId /\ jobs[worker.id] # None
    BY DEF Work, WorkInv, TypeOK
  <2>4. WorkerIsRight
    BY DEF OutcomeInv, Cause
  <2>5. JobsAreExplained'
    <3> SUFFICES ASSUME NEW j \in JobId, jobs'[j] # None
                 PROVE  Charged(Ref(j))' \/ jobs'[j].early
      OBVIOUS
    <3>1. CASE jobs[j] # None
      BY <2>1, <2>2, <3>1, JobStep DEF OutcomeInv
    <3>2. CASE jobs[j] = None
      <4>1. jobs'[j].early = ~Charged(Ref(j))
        BY <3>2, JobStep
      <4> QED
        BY <2>1, <2>2, <4>1
    <3> QED
      BY <3>1, <3>2
  <2>6. WorkerIsRight'
    <3>1. CASE VerifyTransaction
      <4>1. /\ Ref(worker.id) \in Refs
            /\ Cause(Ref(worker.id), worker'.outcome) /\ worker'.id = worker.id
        BY <3>1, VerdictHasCause
      <4>2. /\ worker'.outcome = "SUCCESS" => Charged(Ref(worker.id))
            /\ worker'.outcome = "FAILED" =>
                  Reversed(Ref(worker.id)) \/ AskedEarly(Ref(worker.id))
        BY <4>1 DEF Cause
      <4>3. ASSUME NEW r \in Refs, r = Ref(worker.id)
            PROVE  /\ worker'.outcome = "SUCCESS" => Charged(r)'
                   /\ worker'.outcome = "FAILED" => Reversed(r)' \/ AskedEarly(r)'
        BY <4>2, <4>3, ChargesStay, EarlyStays
      <4> QED
        BY <4>1, <4>3 DEF Cause
    <3>2. ASSUME worker' = None PROVE WorkerIsRight'
      BY <3>2
    <3>3. ASSUME worker' # None, worker'.outcome = None PROVE WorkerIsRight'
      <4>1. "FAILED" # None /\ "SUCCESS" # None
        BY NoneAssumption DEF Outcome
      <4> QED
        BY <3>3, <4>1 DEF Cause
    <3>4. ASSUME worker # None, worker'.id = worker.id, worker'.outcome = worker.outcome
          PROVE  WorkerIsRight'
      <4>1. Ref(worker.id) \in Refs /\ Cause(Ref(worker.id), worker.outcome)
        BY <2>2, <2>3, <2>4, <3>4
      <4>2. /\ worker.outcome = "SUCCESS" => Charged(Ref(worker.id))
            /\ worker.outcome = "FAILED" =>
                  Reversed(Ref(worker.id)) \/ AskedEarly(Ref(worker.id))
        BY <4>1 DEF Cause
      <4>3. ASSUME NEW r \in Refs, r = Ref(worker.id)
            PROVE  /\ worker.outcome = "SUCCESS" => Charged(r)'
                   /\ worker.outcome = "FAILED" => Reversed(r)' \/ AskedEarly(r)'
        BY <4>2, <4>3, ChargesStay, EarlyStays
      <4> QED
        BY <3>4, <4>1, <4>3 DEF Cause
    <3>5. ASSUME UNCHANGED worker PROVE WorkerIsRight'
      BY <3>4, <3>2, <3>5
    <3>6. ASSUME NEW j \in JobId, StartJob(j) PROVE WorkerIsRight'
      <4>1. CASE UNCHANGED worker
        BY <4>1, <3>5
      <4>2. CASE worker' = [id |-> j, step |-> "find", outcome |-> None]
        BY <4>2, <3>2, <3>3
      <4> QED
        BY <3>6, <4>1, <4>2 DEF StartJob
    <3>7. CASE FindPayment \/ UpdatePayment \/ EmitOutcome
      <4>1. worker # None /\ worker \in Work
        BY <2>3, <3>7 DEF FindPayment, UpdatePayment, EmitOutcome, Working
      <4>2. \/ worker' = None
            \/ worker' = [worker EXCEPT !.step = "verify"]
            \/ worker' = [worker EXCEPT !.step = "emit"]
            \/ worker' = [worker EXCEPT !.step = "mark"]
        BY <3>7 DEF FindPayment, UpdatePayment, EmitOutcome
      <4> QED
        BY <3>2, <3>4, <4>1, <4>2 DEF Work
    <3>8. CASE MarkProcessed \/ FailAttempt \/ Death
      BY <3>2, <3>8 DEF MarkProcessed, FailAttempt, Death, Die
    <3>9. \/ \E j \in JobId : StartJob(j)
          \/ VerifyTransaction
          \/ FindPayment \/ UpdatePayment \/ EmitOutcome
          \/ MarkProcessed \/ FailAttempt \/ Death
          \/ UNCHANGED worker
      BY DEF Next, Service, ConsumerStep, WorkerStep, Faults, Provider, OrderArrives,
             ReceiveOrder, InitializeTransaction, SavePayment, AnnouncePayment,
             CommitOffset, InitializeFails, SaveFails, RejectOrder, Pay, Reverse,
             HandleWebhook, Expire, Crash, HandleStrayWebhook, Death, vars
    <3> HIDE DEF WorkerIsRight
    <3> QED
      BY <3>1, <3>5, <3>6, <3>7, <3>8, <3>9
  <2> DEFINE Right(r, outcome) ==
                 /\ outcome = "SUCCESS" => Charged(r)'
                 /\ outcome = "FAILED" => Reversed(r)' \/ AskedEarly(r)'
  <2>7. ASSUME NEW r \in Refs, NEW outcome, Cause(r, outcome) PROVE Right(r, outcome)
    BY <2>7, ChargesStay, EarlyStays DEF Cause
  <2>8. ASSUME NEW r \in Refs PROVE SuccessOf(r) => Right(r, "SUCCESS")
    BY <2>7 DEF OutcomeHasCause, Cause
  <2>9. ASSUME NEW r \in Refs PROVE FailureOf(r) => Right(r, "FAILED")
    BY <2>7 DEF OutcomeHasCause, Cause
  <2>10. ASSUME worker # None, NEW r \in Refs, r = Ref(worker.id), NEW outcome,
                outcome = worker.outcome
         PROVE  Right(r, outcome)
    <3>1. Cause(r, outcome)
      BY <2>4, <2>10
    <3> QED
      BY <2>7, <3>1
  <2> HIDE DEF Right
  <2>11. ASSUME NEW r \in Refs, payments'[r] # None, NEW status,
                status \in { "SUCCESS", "FAILED" }, payments'[r].status = status
         PROVE  Right(r, status)
    <3>1. CASE payments[r] # None /\ payments[r].status = status
      BY <2>8, <2>9, <2>11, <3>1 DEF SuccessOf, FailureOf
    <3>2. CASE SavePayment
      <4>1. consumer.reference \in Refs
        BY <3>2 DEF SavePayment, Consuming, Consumption, TypeOK
      <4>2. r # consumer.reference
        BY <2>11, <3>2, <4>1 DEF SavePayment, TypeOK
      <4> QED
        BY <2>11, <3>1, <3>2, <4>1, <4>2 DEF SavePayment, TypeOK
    <3>3. CASE UpdatePayment
      <4>1. /\ Ref(worker.id) \in Refs /\ worker # None
            /\ payments[Ref(worker.id)] \in Payment
        BY <2>2, <2>3, <3>3 DEF UpdatePayment, Working, WorkInv, TypeOK
      <4>2. CASE r = Ref(worker.id)
        <5>1. worker.outcome = status
          BY <2>11, <3>3, <4>1, <4>2 DEF UpdatePayment, Payment, TypeOK
        <5> QED
          BY <2>10, <4>1, <4>2, <5>1
      <4>3. CASE r # Ref(worker.id)
        BY <2>11, <3>1, <3>3, <4>1, <4>3 DEF UpdatePayment, TypeOK
      <4> QED
        BY <4>2, <4>3
    <3>4. CASE UNCHANGED payments
      BY <2>11, <3>1, <3>4
    <3>5. SavePayment \/ UpdatePayment \/ UNCHANGED payments
      BY DEF Next, Service, ConsumerStep, WorkerStep, Faults, Provider, OrderArrives,
             ReceiveOrder, InitializeTransaction, AnnouncePayment, CommitOffset,
             InitializeFails, SaveFails, RejectOrder, Pay, Reverse, HandleWebhook,
             StartJob, FindPayment, VerifyTransaction, EmitOutcome, MarkProcessed,
             FailAttempt, Expire, Crash, HandleStrayWebhook, vars
    <3> QED
      BY <3>2, <3>3, <3>4, <3>5
  <2>12. \/ EmitOutcome \/ InitializeFails \/ SaveFails \/ UNCHANGED << confirmed, failed >>
    BY DEF Next, Service, ConsumerStep, WorkerStep, Faults, Provider, OrderArrives,
           ReceiveOrder, InitializeTransaction, SavePayment, AnnouncePayment,
           CommitOffset, Pay, Reverse, HandleWebhook, StartJob, FindPayment,
           VerifyTransaction, UpdatePayment, MarkProcessed, FailAttempt, Expire,
           Crash, HandleStrayWebhook, vars
  <2>13. ASSUME NEW r \in Refs, AnnouncedFailure(r)' PROVE Right(r, "FAILED")
    <3>1. CASE AnnouncedFailure(r)
      BY <2>9, <3>1 DEF FailureOf
    <3>2. CASE EmitOutcome
      <4>1. CASE ~AnnouncedFailure(r)
        <5>1. r = Ref(worker.id) /\ worker.outcome = "FAILED" /\ worker # None
          BY <2>13, <3>2, <4>1 DEF EmitOutcome, AnnouncedFailure, Working
        <5> QED
          BY <2>10, <5>1
      <4> QED
        BY <3>1, <4>1
    <3>3. CASE InitializeFails \/ SaveFails
      <4>1. r # None
        BY NoneAssumption
      <4>2. failed' = failed \/ failed' = failed \cup {[order |-> consumer.order, reference |-> None]}
        BY <3>3 DEF InitializeFails, SaveFails, RejectOrder
      <4> QED
        BY <2>13, <3>1, <4>1, <4>2 DEF AnnouncedFailure
    <3>4. CASE UNCHANGED failed
      BY <2>13, <3>1, <3>4 DEF AnnouncedFailure
    <3> QED
      BY <2>12, <3>2, <3>3, <3>4
  <2>14. ASSUME NEW r \in Refs, confirmed'[r] > 0 PROVE Right(r, "SUCCESS")
    <3>1. CASE confirmed[r] > 0
      BY <2>8, <3>1 DEF SuccessOf
    <3>2. CASE UNCHANGED confirmed
      BY <2>14, <3>1, <3>2
    <3>3. CASE EmitOutcome /\ ~UNCHANGED confirmed
      <4>1. /\ worker # None /\ worker.outcome = "SUCCESS"
            /\ confirmed' = [confirmed EXCEPT ![Ref(worker.id)] = @ + 1]
        BY <3>3 DEF EmitOutcome, Working
      <4>2. r # Ref(worker.id) => confirmed'[r] = confirmed[r]
        BY <4>1 DEF TypeOK
      <4> QED
        BY <2>10, <2>14, <3>1, <4>1, <4>2
    <3>4. CASE InitializeFails \/ SaveFails
      BY <3>2, <3>4 DEF InitializeFails, SaveFails, RejectOrder
    <3> QED
      BY <2>12, <3>2, <3>3, <3>4
  <2>15. OutcomeInv'
    BY <2>5, <2>6 DEF OutcomeInv, Cause
  <2>16. OutcomeHasCause'
    <3>1. ASSUME NEW r \in Refs, SuccessOf(r)' PROVE Charged(r)'
      BY <2>11, <2>14, <3>1 DEF SuccessOf, Right
    <3>2. ASSUME NEW r \in Refs, FailureOf(r)' PROVE Reversed(r)' \/ AskedEarly(r)'
      BY <2>11, <2>13, <3>2 DEF FailureOf, Right
    <3> QED
      BY <3>1, <3>2 DEF OutcomeHasCause
  <2> QED
    BY <2>15, <2>16
<1> QED
  BY <1>1, <1>2, TypeCorrect, LinkInvariant, PTL DEF Spec

\* What the refinement needs beyond the invariants above.
LEMMA LedgerInvariant == Spec => []LedgerInv
<1>1. Init => LedgerInv
  BY DEF Init, LedgerInv
<1>2. /\ TypeOK /\ WorkInv /\ LinkInv /\ OutcomeInv /\ OutcomeHasCause
      /\ LedgerInv /\ [Next]_vars
      => LedgerInv'
  <2> SUFFICES ASSUME TypeOK, WorkInv, LinkInv, OutcomeInv, OutcomeHasCause,
                      LedgerInv, [Next]_vars
               PROVE  LedgerInv'
    OBVIOUS
  <2> DEFINE OrderIsKnown == consumer # None => consumer.order \in orderCreated
             UpdateIsTimely ==
                 worker # None /\ worker.step = "update" =>
                    LET r == Ref(worker.id)
                    IN /\ worker.outcome = "SUCCESS" /\ payments[r].status = "FAILED"
                          => AskedEarly(r)
                       /\ worker.outcome = "FAILED" /\ payments[r].status = "SUCCESS"
                          => Reversed(r)
  <2>1. OrderIsKnown'
    <3>1. ASSUME NEW m \in Orders, OrderArrives(m) PROVE OrderIsKnown'
      BY <3>1 DEF OrderArrives, LedgerInv
    <3>2. ASSUME NEW m \in Orders, NEW r \in Refs, ReceiveOrder(m, r)
          PROVE  OrderIsKnown'
      BY <3>2 DEF ReceiveOrder
    <3>3. ASSUME UNCHANGED orderCreated, consumer \in Consumption,
                 NEW step, consumer' = [consumer EXCEPT !.step = step], consumer # None
          PROVE  OrderIsKnown'
      BY <3>3 DEF LedgerInv, Consumption
    <3>4. CASE InitializeTransaction \/ SavePayment \/ AnnouncePayment
      BY <3>3, <3>4 DEF InitializeTransaction, SavePayment, AnnouncePayment, Consuming, TypeOK
    <3>5. CASE CommitOffset \/ InitializeFails \/ SaveFails \/ Death
      BY <3>5 DEF CommitOffset, InitializeFails, SaveFails, RejectOrder, Death, Die
    <3>6. CASE UNCHANGED << orderCreated, consumer >>
      BY <3>6 DEF LedgerInv
    <3>7. \/ \E m \in Orders : OrderArrives(m)
          \/ \E m \in Orders, r \in Refs : ReceiveOrder(m, r)
          \/ InitializeTransaction \/ SavePayment \/ AnnouncePayment
          \/ CommitOffset \/ InitializeFails \/ SaveFails \/ Death
          \/ UNCHANGED << orderCreated, consumer >>
      BY DEF Next, Service, ConsumerStep, WorkerStep, Faults, Provider, Pay, Reverse,
             HandleWebhook, StartJob, FindPayment, VerifyTransaction, UpdatePayment,
             EmitOutcome, MarkProcessed, FailAttempt, Expire, Crash,
             HandleStrayWebhook, Death, vars
    <3> HIDE DEF OrderIsKnown
    <3> QED
      BY <3>1, <3>2, <3>4, <3>5, <3>6, <3>7
  <2>2. UpdateIsTimely'
    <3>1. CASE VerifyTransaction
      <4> DEFINE r == Ref(worker.id)
      <4>1. /\ r \in Refs /\ paystack[r] # None /\ payments[r] # None
            /\ worker'.id = worker.id /\ worker'.outcome \in Outcome
            /\ worker'.outcome = "SUCCESS" <=> paystack[r].state = "success"
            /\ UNCHANGED << paystack, payments, jobs >>
        BY <3>1, VerdictHasCause
      <4>2. ASSUME worker'.outcome = "SUCCESS", payments[r].status = "FAILED"
            PROVE  AskedEarly(r)
        <5>1. ~Reversed(r)
          BY <4>1, <4>2 DEF Reversed
        <5> QED
          BY <4>1, <4>2, <5>1 DEF OutcomeHasCause, FailureOf
      <4>3. ASSUME worker'.outcome = "FAILED", payments[r].status = "SUCCESS"
            PROVE  Reversed(r)
        <5>1. Charged(r)
          BY <4>1, <4>3 DEF OutcomeHasCause, SuccessOf
        <5> QED
          BY <4>1, <4>3, <5>1 DEF Charged, Reversed
      <4> QED
        BY <4>1, <4>2, <4>3 DEF AskedEarly, Reversed
    <3>2. ASSUME UNCHANGED worker,
                 worker # None /\ worker.step = "update" =>
                     payments'[Ref(worker.id)] = payments[Ref(worker.id)]
          PROVE  UpdateIsTimely'
      <4>1. ASSUME worker # None, worker.step = "update"
            PROVE  LET r == Ref(worker.id)
                   IN /\ AskedEarly(r) => AskedEarly(r)'
                      /\ Reversed(r) => Reversed(r)'
        <5>1. Ref(worker.id) \in Refs
          BY <4>1 DEF TypeOK, Work, JobId, Ref
        <5>2. ASSUME NEW r \in Refs
              PROVE  (AskedEarly(r) => AskedEarly(r)') /\ (Reversed(r) => Reversed(r)')
          BY ChargesStay, EarlyStays
        <5>3. PICK r \in Refs : r = Ref(worker.id)
          BY <5>1
        <5> QED
          BY <3>2, <5>2, <5>3
      <4> QED
        BY <3>2, <4>1 DEF LedgerInv
    <3>3. CASE SavePayment
      <4>1. /\ consumer.reference \in Refs /\ payments[consumer.reference] = None
            /\ UNCHANGED worker
        BY <3>3 DEF SavePayment, Consuming, Consumption, LinkInv, ConsumerInv, TypeOK
      <4>2. ASSUME worker # None, worker.step = "update"
            PROVE  payments'[Ref(worker.id)] = payments[Ref(worker.id)]
        BY <3>3, <4>1, <4>2 DEF SavePayment, WorkInv, Work, JobId, Ref, TypeOK
      <4> QED
        BY <3>2, <4>1, <4>2
    <3>4. CASE worker' = None
      BY <3>4
    <3>5. ASSUME worker' # None, worker'.step # "update" PROVE UpdateIsTimely'
      BY <3>5
    <3>6. CASE UNCHANGED << worker, payments >>
      BY <3>2, <3>6
    <3>7. CASE FindPayment \/ UpdatePayment \/ EmitOutcome
      <4>1. worker # None /\ worker \in Work
        BY <3>7 DEF FindPayment, UpdatePayment, EmitOutcome, Working, TypeOK
      <4>2. \/ worker' = None
            \/ worker' = [worker EXCEPT !.step = "verify"]
            \/ worker' = [worker EXCEPT !.step = "emit"]
            \/ worker' = [worker EXCEPT !.step = "mark"]
        BY <3>7 DEF FindPayment, UpdatePayment, EmitOutcome
      <4> QED
        BY <3>4, <3>5, <4>1, <4>2 DEF Work
    <3>8. ASSUME NEW j \in JobId, StartJob(j) PROVE UpdateIsTimely'
      BY <3>4, <3>5, <3>6, <3>8 DEF StartJob
    <3>9. CASE MarkProcessed \/ FailAttempt \/ Death
      BY <3>4, <3>9 DEF MarkProcessed, FailAttempt, Death, Die
    <3>10. \/ VerifyTransaction \/ SavePayment
           \/ FindPayment \/ UpdatePayment \/ EmitOutcome
           \/ \E j \in JobId : StartJob(j)
           \/ MarkProcessed \/ FailAttempt \/ Death
           \/ UNCHANGED << worker, payments >>
      BY DEF Next, Service, ConsumerStep, WorkerStep, Faults, Provider, OrderArrives,
             ReceiveOrder, InitializeTransaction, AnnouncePayment, CommitOffset,
             InitializeFails, SaveFails, RejectOrder, Pay, Reverse, HandleWebhook,
             Expire, Crash, HandleStrayWebhook, Death, vars
    <3> HIDE DEF UpdateIsTimely
    <3> QED
      BY <3>1, <3>3, <3>6, <3>7, <3>8, <3>9, <3>10
  <2> QED
    BY <2>1, <2>2 DEF LedgerInv
<1> QED
  BY <1>1, <1>2, TypeCorrect, LinkInvariant, OutcomesHaveCauses, PTL DEF Spec

\* handleOrderCreated opens a transaction only for a message it was delivered,
\* also when it is delivered again, when a call fails half way and after a crash.
LEMMA OrderedInvariant == Spec => []TransactionsAreOrdered
<1>1. Init => TransactionsAreOrdered
  BY DEF Init, TransactionsAreOrdered
<1>2. /\ TypeOK /\ LinkInv /\ LedgerInv /\ TransactionsAreOrdered /\ [Next]_vars
      => TransactionsAreOrdered'
  <2> SUFFICES ASSUME TypeOK, LinkInv, LedgerInv, TransactionsAreOrdered, [Next]_vars,
                      NEW r \in Refs, paystack'[r] # None
               PROVE  paystack'[r].order \in orderCreated'
    BY DEF TransactionsAreOrdered
  <2>1. orderCreated \subseteq orderCreated'
    BY DEF Next, Service, ConsumerStep, WorkerStep, Faults, Provider, OrderArrives,
           ReceiveOrder, InitializeTransaction, SavePayment, AnnouncePayment, CommitOffset,
           InitializeFails, SaveFails, RejectOrder, Pay, Reverse, HandleWebhook, StartJob,
           FindPayment, VerifyTransaction, UpdatePayment, EmitOutcome, MarkProcessed,
           FailAttempt, Expire, Crash,
           HandleStrayWebhook, Die, vars
  <2>2. ASSUME InitializeTransaction \/ InitializeFails, paystack'[r] # paystack[r]
        PROVE  paystack'[r].order \in orderCreated
    <3>1. consumer # None /\ consumer.order \in orderCreated
      BY <2>2 DEF InitializeTransaction, InitializeFails, Consuming, LedgerInv
    <3>2. paystack'[r] = Open(consumer.order)
      BY <2>2 DEF InitializeTransaction, InitializeFails, TypeOK
    <3> QED
      BY <3>1, <3>2 DEF Open
  <2>3. ASSUME NEW q \in Refs, Pay(q) \/ Reverse(q)
        PROVE  paystack[r] # None /\ paystack'[r].order = paystack[r].order
    BY <2>3 DEF Pay, Reverse, Transaction, TypeOK
  <2>4. paystack[r] # None => paystack[r].order \in orderCreated
    BY DEF TransactionsAreOrdered
  <2> QED
    BY <2>1, <2>2, <2>3, <2>4, PaystackWriters
<1> QED
  BY <1>1, <1>2, TypeCorrect, LinkInvariant, LedgerInvariant, PTL DEF Spec

\* The service implements the ledger: a link goes out once for an announced
\* order, a charge and its reversal follow the link, and the UPDATE of the
\* worker agrees with both.
THEOREM ImplementsTheLedger == Spec => ImplementsLedger
<1> USE DEF LinkOf, ChargeOf, VerdictOnRecord, Charged
<1>1. Init => Ledger!Init
  <2> SUFFICES ASSUME Init PROVE Ledger!Init
    OBVIOUS
  <2>1. { r \in Refs : AskedEarly(r) } = {}
    BY DEF Init, AskedEarly
  <2> QED
    BY <2>1 DEF Init, Ledger!Init
<1>2. /\ TypeOK /\ WorkInv /\ LinkInv /\ OutcomeInv /\ OutcomeHasCause
      /\ LedgerInv /\ [Next]_vars
      => [Ledger!Next]_(Ledger!ledgerVars)
  <2> SUFFICES ASSUME TypeOK, WorkInv, LinkInv, OutcomeInv, OutcomeHasCause,
                      LedgerInv, [Next]_vars
               PROVE  [Ledger!Next]_(Ledger!ledgerVars)
    OBVIOUS
  <2>10. ASSUME NEW r \in Refs, NEW m \in Orders, Ledger!SendLink(r, m) PROVE Ledger!Next
    BY <2>10 DEF Ledger!Next
  <2>11. ASSUME NEW r \in Refs, NEW outcome \in Outcome, Ledger!Settle(r, outcome)
         PROVE  Ledger!Next
    BY <2>11 DEF Ledger!Next, Outcome
  <2> DEFINE SameEarly == { r \in Refs : AskedEarly(r) }' = { r \in Refs : AskedEarly(r) }
  <2>12. ASSUME ~SameEarly PROVE \E r \in Refs : Ledger!AskEarly(r)
    <3>1. PICK q \in Refs :
             /\ ~Charged(q)
             /\ \A r \in Refs : AskedEarly(r)' <=> AskedEarly(r) \/ r = q
             /\ UNCHANGED << orderCreated, paystack, payments, initiated >>
      BY <2>12, EarlyStep
    <3>2. { r \in Refs : AskedEarly(r) }' = { r \in Refs : AskedEarly(r) } \cup {q}
      BY <3>1
    <3>3. \A r \in Refs : /\ LinkOf(r)' = LinkOf(r) /\ ChargeOf(r)' = ChargeOf(r)
                         /\ VerdictOnRecord(r)' = VerdictOnRecord(r)
      BY <3>1
    <3> QED
      BY <3>1, <3>2, <3>3 DEF Ledger!AskEarly
  <2>13. ASSUME ~UNCHANGED << orderCreated, initiated, payments, paystack >>
         PROVE  SameEarly
    BY <2>13, EarlyStep
  <2>14. SUFFICES ASSUME SameEarly PROVE [Ledger!Next]_(Ledger!ledgerVars)
    BY <2>12 DEF Ledger!Next
  <2>1. ASSUME NEW m \in Orders, OrderArrives(m) PROVE Ledger!Order(m)
    BY <2>1, <2>14 DEF OrderArrives, Ledger!Order
  <2>2. CASE UNCHANGED << orderCreated, initiated, payments, paystack >>
    BY <2>2, <2>14 DEF Ledger!ledgerVars
  <2>3. CASE AnnouncePayment
    <3>1. /\ consumer.reference \in Refs /\ consumer.order \in Orders
          /\ consumer.order \in orderCreated
          /\ payments[consumer.reference].order = consumer.order
          /\ UNCHANGED << orderCreated, payments, paystack >>
      BY <2>3 DEF AnnouncePayment, Consuming, Consumption, LinkInv, ConsumerInv,
                  LedgerInv, TypeOK
    <3>2. CASE UNCHANGED initiated
      BY <2>2, <3>1, <3>2
    <3>3. CASE /\ initiated' = initiated \cup { consumer.reference }
               /\ consumer.reference \notin initiated
      <4>1. PICK r \in Refs, m \in Orders : r = consumer.reference /\ m = consumer.order
        BY <3>1
      <4>2. Ledger!SendLink(r, m)
        BY <2>14, <3>1, <3>3, <4>1 DEF Ledger!SendLink
      <4> QED
        BY <2>10, <4>2
    <3> QED
      BY <2>3, <3>2, <3>3 DEF AnnouncePayment
  <2>4. ASSUME NEW r \in Refs, Pay(r) PROVE Ledger!Charge(r)
    <3>1. /\ r \in initiated /\ payments[r] # None /\ payments[r] \in Payment
          /\ paystack[r] # None /\ paystack[r] \in Transaction
          /\ paystack[r].state = "open"
      BY <2>4 DEF Pay, LinkInv, LinkedIsRecorded, Recorded, TypeOK
    <3>2. payments[r].order # None
      BY <3>1, NoneAssumption DEF Payment
    <3>3. /\ \A q \in Refs : q # r => paystack'[q] = paystack[q]
          /\ paystack'[r] \in Transaction /\ paystack'[r].state = "success"
      BY <2>4, <3>1 DEF Pay, Transaction, TypeOK
    <3>4. paystack'[r] # None
      BY <3>3, NoneAssumption
    <3>5. UNCHANGED << orderCreated, initiated, payments >>
      BY <2>4 DEF Pay
    <3> QED
      BY <2>14, <3>1, <3>2, <3>3, <3>4, <3>5 DEF Ledger!Charge
  <2>5. ASSUME NEW r \in Refs, Reverse(r) PROVE Ledger!Reverse(r)
    <3>1. /\ paystack[r] # None /\ paystack[r] \in Transaction
          /\ paystack[r].state = "success"
      BY <2>5 DEF Reverse, TypeOK
    <3>2. /\ \A q \in Refs : q # r => paystack'[q] = paystack[q]
          /\ paystack'[r] \in Transaction /\ paystack'[r].state = "reversed"
      BY <2>5, <3>1 DEF Reverse, Transaction, TypeOK
    <3>3. paystack'[r] # None
      BY <3>2, NoneAssumption
    <3>4. UNCHANGED << orderCreated, initiated, payments >>
      BY <2>5 DEF Reverse
    <3> QED
      BY <2>14, <3>1, <3>2, <3>3, <3>4 DEF Ledger!Reverse
  <2>6. CASE InitializeTransaction \/ InitializeFails
    <3>1. /\ consumer.reference \in Refs /\ paystack[consumer.reference] = None
          /\ UNCHANGED << orderCreated, initiated, payments >>
      BY <2>6 DEF InitializeTransaction, InitializeFails, RejectOrder, Consuming,
                  Consumption, LinkInv, ConsumerInv, TypeOK
    <3>2. \/ UNCHANGED paystack
          \/ paystack' = [paystack EXCEPT ![consumer.reference] = Open(consumer.order)]
      BY <2>6 DEF InitializeTransaction, InitializeFails
    <3>3. \A r \in Refs : ChargeOf(r)' = ChargeOf(r)
      BY <3>1, <3>2 DEF Open, TypeOK
    <3> QED
      BY <2>14, <3>1, <3>3 DEF Ledger!ledgerVars
  <2>7. CASE SavePayment
    <3> DEFINE ref == consumer.reference
    <3>1. /\ ref \in Refs /\ payments[ref] = None
          /\ UNCHANGED << orderCreated, initiated, paystack >>
      BY <2>7 DEF SavePayment, Consuming, Consumption, LinkInv, ConsumerInv, TypeOK
    <3>2. ref \notin initiated
      BY <3>1 DEF LinkInv, LinkedIsRecorded, Recorded
    <3>3. /\ \A r \in Refs : r # ref => payments'[r] = payments[r]
          /\ payments'[ref].status = "PENDING"
      BY <2>7, <3>1 DEF SavePayment, TypeOK
    <3>4. \A r \in Refs : LinkOf(r)' = LinkOf(r) /\ VerdictOnRecord(r)' = VerdictOnRecord(r)
      BY <3>1, <3>2, <3>3
    <3> QED
      BY <2>14, <3>1, <3>4 DEF Ledger!ledgerVars
  <2>8. CASE UpdatePayment
    <3> DEFINE ref == Ref(worker.id)
    <3>1. /\ worker \in Work /\ worker.step = "update" /\ worker # None
          /\ ref \in Refs /\ worker.id \in JobId
          /\ UNCHANGED << orderCreated, initiated, paystack >>
      BY <2>8 DEF UpdatePayment, Working, Work, JobId, Ref, TypeOK
    <3>2. worker.outcome \in Outcome
      BY <3>1 DEF Work
    <3>3. /\ payments[ref] # None /\ payments[ref] \in Payment
          /\ \A r \in Refs : r # ref => payments'[r] = payments[r]
          /\ payments'[ref].status = worker.outcome
          /\ payments'[ref].order = payments[ref].order
      BY <2>8, <3>1 DEF UpdatePayment, WorkInv, Payment, TypeOK
    <3>4. payments'[ref] # None
      BY <2>8, <3>1, <3>3, UpdateKeepsRows
    <3>5. \A r \in Refs : LinkOf(r)' = LinkOf(r)
      BY <3>1, <3>3
    <3>6. worker.outcome = "SUCCESS" =>
             /\ ChargeOf(ref) # "open"
             /\ VerdictOnRecord(ref) = "FAILED" => AskedEarly(ref)
      BY <3>1, <3>3 DEF OutcomeInv, LedgerInv
    <3>7. worker.outcome = "FAILED" =>
             \/ ChargeOf(ref) = "reversed"
             \/ AskedEarly(ref) /\ VerdictOnRecord(ref) # "SUCCESS"
      BY <3>1, <3>3 DEF OutcomeInv, LedgerInv, Reversed
    <3>8. PICK r \in Refs, outcome \in Outcome : r = ref /\ outcome = worker.outcome
      BY <3>1, <3>2
    <3>9. /\ VerdictOnRecord(r)' = outcome
          /\ \A q \in Refs : q # r => VerdictOnRecord(q)' = VerdictOnRecord(q)
      BY <3>3, <3>4, <3>8
    <3>10. Ledger!Settle(r, outcome)
      BY <2>14, <3>1, <3>5, <3>6, <3>7, <3>8, <3>9 DEF Ledger!Settle
    <3> QED
      BY <2>11, <3>10
  <2>9. \/ \E m \in Orders : OrderArrives(m)
        \/ AnnouncePayment
        \/ \E r \in Refs : Pay(r) \/ Reverse(r)
        \/ InitializeTransaction \/ InitializeFails
        \/ SavePayment
        \/ UpdatePayment
        \/ UNCHANGED << orderCreated, initiated, payments, paystack >>
    BY DEF Next, Service, ConsumerStep, WorkerStep, Faults, Provider, ReceiveOrder,
           CommitOffset, SaveFails, RejectOrder, HandleWebhook, StartJob, FindPayment,
           VerifyTransaction, EmitOutcome, MarkProcessed, FailAttempt, Expire, Crash,
           HandleStrayWebhook, Die, vars
  <2> QED
    BY <2>1, <2>2, <2>3, <2>4, <2>5, <2>6, <2>7, <2>8, <2>9 DEF Ledger!Next
<1> QED
  BY <1>1, <1>2, TypeCorrect, LinkInvariant, OutcomesHaveCauses, LedgerInvariant, PTL
     DEF Spec, ImplementsLedger, Ledger!Spec

\* A row is settled by the UPDATE of a worker, and no later step makes it
\* PENDING again; the events sent stay sent.
LEMMA SettledStays ==
  ASSUME TypeOK, WorkInv, LinkInv, [Next]_vars, NEW r \in Refs
  PROVE  /\ Settled(r) => Settled(r)'
         /\ Announced(r) => Announced(r)'
<1>1. ASSUME SavePayment, payments[r] # None PROVE payments'[r] = payments[r]
  <2>1. consumer.reference \in Refs /\ payments[consumer.reference] = None
    BY <1>1 DEF SavePayment, Consuming, Consumption, LinkInv, ConsumerInv, TypeOK
  <2> QED
    BY <1>1, <2>1 DEF SavePayment, TypeOK
<1>2. ASSUME UpdatePayment, Settled(r) PROVE Settled(r)'
  <2>1. /\ worker # None /\ worker \in Work /\ worker.outcome \in Outcome
        /\ payments[r] \in Payment /\ payments[Ref(worker.id)] # None
    BY <1>2, NoneAssumption DEF UpdatePayment, Working, Work, Settled, WorkInv, TypeOK
  <2>2. payments'[r] \in { payments[r], [payments[r] EXCEPT !.status = worker.outcome] }
    BY <1>2, <2>1 DEF UpdatePayment, TypeOK
  <2>3. payments'[r] \in Payment /\ payments'[r].status # "PENDING"
    BY <1>2, <2>1, <2>2 DEF Payment, PaymentStatus, Outcome, Settled
  <2> QED
    BY <2>3, NoneAssumption DEF Settled
<1>3. [Next]_vars => SavePayment \/ UpdatePayment \/ UNCHANGED payments
  BY DEF Next, Service, ConsumerStep, WorkerStep, Faults, Provider, OrderArrives,
         ReceiveOrder, InitializeTransaction, AnnouncePayment, CommitOffset,
         InitializeFails, SaveFails, RejectOrder, Pay, Reverse, HandleWebhook,
         StartJob, FindPayment, VerifyTransaction, EmitOutcome, MarkProcessed,
         FailAttempt, Expire, Crash,
           HandleStrayWebhook, Die, vars
<1>4. /\ failed \subseteq failed'
      /\ confirmed[r] > 0 => confirmed'[r] > 0
  <2>1. CASE EmitOutcome
    BY <2>1 DEF EmitOutcome, TypeOK
  <2>2. CASE InitializeFails \/ SaveFails
    BY <2>2 DEF InitializeFails, SaveFails, RejectOrder
  <2>3. CASE UNCHANGED << confirmed, failed >>
    BY <2>3
  <2>4. EmitOutcome \/ InitializeFails \/ SaveFails \/ UNCHANGED << confirmed, failed >>
    BY DEF Next, Service, ConsumerStep, WorkerStep, Faults, Provider, OrderArrives,
           ReceiveOrder, InitializeTransaction, SavePayment, AnnouncePayment,
           CommitOffset, Pay, Reverse, HandleWebhook, StartJob, FindPayment,
           VerifyTransaction, UpdatePayment, MarkProcessed, FailAttempt, Expire,
           Crash, HandleStrayWebhook, Die, vars
  <2> QED
    BY <2>1, <2>2, <2>3, <2>4
<1> QED
  BY <1>1, <1>2, <1>3, <1>4 DEF Settled, Announced, AnnouncedFailure

\* The worker stores, announces and marks in this order, and neither a second
\* webhook, a retry, a stalled job nor a crash changes what a mark stands for.
THEOREM MarksAreSettled == Spec => [](MarkInv /\ MarkedIsSettled)
<1>1. Init => MarkInv
  BY DEF Init, MarkInv
<1>2. TypeOK /\ WorkInv /\ LinkInv /\ MarkInv /\ [Next]_vars => MarkInv'
  <2> SUFFICES ASSUME TypeOK, WorkInv, LinkInv, MarkInv, [Next]_vars PROVE MarkInv'
    OBVIOUS
  <2> DEFINE Stored == worker # None /\ worker.step \in { "emit", "mark" }
                       => Settled(Ref(worker.id))
             Sent == worker # None /\ worker.step = "mark" => Announced(Ref(worker.id))
             Marked == \A r \in cache : Settled(r) /\ Announced(r)
  <2>1. \A r \in Refs : (Settled(r) => Settled(r)') /\ (Announced(r) => Announced(r)')
    BY SettledStays
  <2>2. worker # None => worker \in Work /\ worker.id \in JobId /\ Ref(worker.id) \in Refs
    BY DEF Work, JobId, Ref, TypeOK
  <2>3. CASE UNCHANGED << worker, cache >>
    BY <2>1, <2>2, <2>3 DEF MarkInv, TypeOK
  <2>4. ASSUME NEW j \in JobId, StartJob(j) PROVE MarkInv'
    <3>1. Stored' /\ Sent'
      <4>1. CASE UNCHANGED worker
        BY <2>1, <2>2, <4>1 DEF MarkInv
      <4>2. CASE worker' = [id |-> j, step |-> "find", outcome |-> None]
        BY <4>2
      <4> QED
        BY <2>4, <4>1, <4>2 DEF StartJob
    <3>2. Marked'
      BY <2>1, <2>4 DEF StartJob, MarkInv, TypeOK
    <3> QED
      BY <3>1, <3>2 DEF MarkInv
  <2>5. CASE FindPayment \/ VerifyTransaction \/ UpdatePayment \/ EmitOutcome
    <3>1. worker # None /\ UNCHANGED cache
      BY <2>5 DEF FindPayment, VerifyTransaction, UpdatePayment, EmitOutcome, Working
    <3>2. Marked'
      BY <2>1, <3>1 DEF MarkInv, TypeOK
    <3>3. CASE FindPayment \/ VerifyTransaction
      <4>1. worker' = None \/ worker'.step \in { "verify", "update" }
        BY <2>2, <3>1, <3>3 DEF FindPayment, VerifyTransaction, Work
      <4> QED
        BY <3>2, <4>1 DEF MarkInv
    <3>4. CASE UpdatePayment
      <4>1. /\ worker'.step = "emit" /\ worker'.id = worker.id
            /\ worker.outcome \in Outcome /\ payments[Ref(worker.id)] \in Payment
        BY <2>2, <3>1, <3>4, NoneAssumption DEF UpdatePayment, Working, Work, WorkInv, TypeOK
      <4>2. /\ payments'[Ref(worker.id)] \in Payment
            /\ payments'[Ref(worker.id)].status = worker.outcome
        BY <2>2, <3>1, <3>4, <4>1 DEF UpdatePayment, Payment, PaymentStatus, Outcome, TypeOK
      <4>3. Settled(Ref(worker.id))'
        BY <4>1, <4>2, NoneAssumption DEF Settled, Outcome
      <4> QED
        BY <3>2, <4>1, <4>3 DEF MarkInv
    <3>5. CASE EmitOutcome
      <4>1. /\ worker'.step = "mark" /\ worker'.id = worker.id
            /\ worker.step = "emit" /\ worker.outcome \in Outcome
        BY <2>2, <3>1, <3>5 DEF EmitOutcome, Working, Work
      <4>2. Announced(Ref(worker.id))'
        <5>1. CASE EmitMayFail
          BY <5>1 DEF Announced
        <5>2. CASE confirmed' = [confirmed EXCEPT ![Ref(worker.id)] = @ + 1]
          <6>1. confirmed'[Ref(worker.id)] > 0
            BY <2>2, <3>1, <5>2 DEF TypeOK
          <6> QED
            BY <4>1, <6>1 DEF Announced
        <5>3. CASE [order |-> payments[Ref(worker.id)].order, reference |-> Ref(worker.id)]
                   \in failed'
          <6>1. AnnouncedFailure(Ref(worker.id))'
            BY <4>1, <5>3 DEF AnnouncedFailure
          <6> QED
            BY <6>1 DEF Announced
        <5> QED
          BY <3>5, <5>1, <5>2, <5>3 DEF EmitOutcome
      <4> QED
        BY <2>1, <2>2, <3>1, <3>2, <4>1, <4>2 DEF MarkInv
    <3> QED
      BY <2>5, <3>3, <3>4, <3>5
  <2>6. CASE MarkProcessed
    BY <2>1, <2>2, <2>6 DEF MarkProcessed, Working, MarkInv, TypeOK
  <2>7. ASSUME worker' = None, cache' \subseteq cache PROVE MarkInv'
    BY <2>1, <2>7 DEF MarkInv, TypeOK
  <2>8. CASE FailAttempt \/ Death
    BY <2>7, <2>8 DEF FailAttempt, Death, Die
  <2>9. ASSUME NEW r \in cache, Expire(r) PROVE MarkInv'
    BY <2>1, <2>2, <2>9 DEF Expire, MarkInv, TypeOK
  <2> QED
    BY <2>3, <2>4, <2>5, <2>6, <2>8, <2>9
       DEF Next, Service, ConsumerStep, WorkerStep, Faults, Provider, OrderArrives,
           ReceiveOrder, InitializeTransaction, SavePayment, AnnouncePayment,
           CommitOffset, InitializeFails, SaveFails, RejectOrder, Pay, Reverse,
           HandleWebhook, Crash, HandleStrayWebhook, Death, vars
<1>3. MarkInv => MarkedIsSettled
  BY DEF MarkInv, MarkedIsSettled, Settled, Announced
<1> QED
  BY <1>1, <1>2, <1>3, TypeCorrect, LinkInvariant, PTL DEF Spec

\* The conjunction of all the parts is an invariant of the service.
THEOREM ServiceInvariant == Spec => []IInv
<1>1. /\ TypeOK /\ WorkInv /\ LinkInv /\ OutcomeInv /\ OutcomeHasCause
      /\ LedgerInv /\ TransactionsAreOrdered /\ MarkInv
      => IInv
  BY DEF IInv
<1> QED
  BY <1>1, TypeCorrect, LinkInvariant, OutcomesHaveCauses, LedgerInvariant,
     OrderedInvariant, MarksAreSettled, PTL

==============================================================================
