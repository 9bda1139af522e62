----------------------------- MODULE Notification -----------------------------
(***************************************************************************)
(* The notification service (apps/notification-service): one Kafka handler *)
(* per topic, which sends an e-mail and, for the topics about an order,    *)
(* pushes to the WebSocket room of the user.                               *)
(*                                                                         *)
(* A topic is one partition, so its messages are numbered, and the n-th    *)
(* message of a topic is all a model has to know of it beside the user it  *)
(* is about.  kafkajs works on one batch of one partition at a time and    *)
(* hands out its messages one after the other; the offset is committed     *)
(* after the batch, so a crash or a rebalance delivers the messages handled *)
(* since the last commit again.  A partition without a committed offset is *)
(* read from its end (subscribe without fromBeginning).                    *)
(***************************************************************************)
EXTENDS Integers, Sequences, FiniteSets

CONSTANTS
    Topics,        \* the topics of this instance
    Fresh,         \* those this consumer group has never committed to
    Users,
    Sockets,       \* connections a client may open to /notifications
    MaxEvents,     \* bound on messages of all topics together
    MaxFaults,     \* bound on crashes and rebalances together
    None           \* no topic, no user, no connection

\* Handlers that return when their e-mail has been answered.
AwaitedTopics == { "register-user-otp", "google-user-created", "payment_initiated",
                   "order-created", "payment_confirmed" }

\* Handlers that start the e-mail and return.  Nobody looks at the promise of
\* the first three; the fourth catches its error.
UncaughtTopics == { "user.created", "forgot-password-otp", "verify_email-otp" }

PushTopics == { "order-created", "payment_confirmed", "payment_failed" }

AllTopics == AwaitedTopics \cup UncaughtTopics \cup PushTopics

ASSUME TopicsAssumption == Topics \subseteq AllTopics /\ Fresh \subseteq Topics

ASSUME BoundsAssumption == MaxEvents \in Nat /\ MaxFaults \in Nat

VARIABLES
    log,        \* the messages of each topic: the user each is about
    committed,  \* messages of each topic behind the committed offset, -1 without one
    position,   \* messages of each topic behind the consumer
    batch,      \* the topic whose batch is being worked on
    handling,   \* TRUE while its next message waits for the mail server
    mails,      \* e-mails handed to the mail transport and not answered yet
    sockets,    \* connections: the user of the token, and whether it is in the room
    up,         \* FALSE while the process is dead
    answered,   \* history: messages whose e-mail has been accepted or refused
    latest,     \* history: the message whose e-mail to a user was answered last
    pushed,     \* history: messages that have been pushed to a room
    unseen,     \* history: messages sent about the user of a connection since it
                \* is in the room that it has not received
    skipped,    \* history: messages no consumer will ever read
    faults,     \* crashes and rebalances so far
    killed      \* history: TRUE once a refused e-mail has ended the process

consumerVars == << committed, position, batch, handling >>
socketVars == << sockets, unseen >>
historyVars == << answered, latest, pushed, skipped >>
vars == << log, consumerVars, mails, socketVars, up, historyVars, faults, killed >>

(***************************************************************************)
(* Types                                                                   *)
(***************************************************************************)
Number == 1..MaxEvents

Event == Topics \X Number

\* A message delivered again has another e-mail: faults tells them apart.
Mail == [event : Event, life : 0..MaxFaults]

Connection == [user : Users \cup {None}, joined : BOOLEAN]

ASSUME NoneAssumption == None \notin Topics \cup Users \cup Connection

TypeOK ==
    /\ log \in [Topics -> Seq(Users)]
    /\ committed \in [Topics -> -1..MaxEvents]
    /\ position \in [Topics -> 0..MaxEvents]
    /\ batch \in Topics \cup {None}
    /\ handling \in BOOLEAN
    /\ mails \subseteq Mail
    /\ sockets \in [Sockets -> Connection \cup {None}]
    /\ up \in BOOLEAN
    /\ answered \subseteq Event
    /\ latest \in [Topics -> [Users -> 0..MaxEvents]]
    /\ pushed \subseteq Event
    /\ unseen \in [Sockets -> SUBSET Event]
    /\ skipped \subseteq Event
    /\ faults \in 0..MaxFaults
    /\ killed \in BOOLEAN

Init ==
    /\ log = [t \in Topics |-> << >>]
    /\ committed = [t \in Topics |-> IF t \in Fresh THEN -1 ELSE 0]
    /\ position = [t \in Topics |-> 0]
    /\ batch = None
    /\ handling = FALSE
    /\ mails = {}
    /\ sockets = [c \in Sockets |-> None]
    /\ up = TRUE
    /\ answered = {}
    /\ latest = [t \in Topics |-> [u \in Users |-> 0]]
    /\ pushed = {}
    /\ unseen = [c \in Sockets |-> {}]
    /\ skipped = {}
    /\ faults = 0
    /\ killed = FALSE

-------------------------------------------------------------------------------
InRoom(c, u) == sockets[c] # None /\ sockets[c].joined /\ sockets[c].user = u

UserOf(e) == log[e[1]][e[2]]

\* Another service emits a message about user u.
Publish(t, u) ==
    /\ \E n \in Number : /\ Len(log[t]) + 1 = n
                         /\ unseen' = [c \in Sockets |->
                                IF t \in PushTopics /\ InRoom(c, u)
                                THEN unseen[c] \cup {<< t, n >>} ELSE unseen[c]]
    /\ log' = [log EXCEPT ![t] = Append(@, u)]
    /\ UNCHANGED << consumerVars, mails, sockets, up, historyVars, faults, killed >>

-------------------------------------------------------------------------------
(***************************************************************************)
(* The handlers                                                            *)
(***************************************************************************)

\* gateway.sendToUser(buyerId, ...): whoever is in the room at this moment.
Push(e) ==
    IF e[1] \in PushTopics
    THEN /\ pushed' = pushed \cup {e}
         /\ unseen' = [c \in Sockets |->
                IF InRoom(c, UserOf(e)) THEN unseen[c] \ {e} ELSE unseen[c]]
    ELSE UNCHANGED << pushed, unseen >>

\* The handler of e returns: its offset is resolved, in memory.
Return(e) ==
    /\ position' = [position EXCEPT ![e[1]] = e[2]]
    /\ Push(e)

\* Mutation: no handler waits for its e-mail.
HandleWithoutWaiting(t) ==
    /\ up
    /\ ~handling
    /\ batch \in { t, None }
    /\ \E n \in Number :
           /\ n = position[t] + 1
           /\ n <= Len(log[t])
           /\ mails' = mails \cup {[event |-> << t, n >>, life |-> faults]}
           /\ Return(<< t, n >>)
    /\ batch' = t
    /\ UNCHANGED << log, committed, handling, sockets, up, answered, latest, skipped,
                    faults, killed >>

\* The consumer goes on with its batch, or takes the batch of another topic: the
\* handler starts the e-mail and waits for it, or pushes and returns.
Handle(t) ==
    /\ up
    /\ ~handling
    /\ batch \in { t, None }
    /\ \E n \in Number :
           /\ n = position[t] + 1
           /\ n <= Len(log[t])
           /\ mails' = mails \cup {[event |-> << t, n >>, life |-> faults]}
           /\ IF t \in AwaitedTopics
              THEN handling' = TRUE /\ UNCHANGED << position, pushed, unseen >>
              ELSE Return(<< t, n >>) /\ UNCHANGED handling
    /\ batch' = t
    /\ UNCHANGED << log, committed, sockets, up, answered, latest, skipped, faults,
                    killed >>

Answered(m) ==
    /\ up
    /\ m \in mails
    /\ answered' = answered \cup {m.event}
    /\ latest' = [latest EXCEPT ![m.event[1]][UserOf(m.event)] = m.event[2]]

\* An awaited e-mail resumes the handler that waits for it.
Resume(m) ==
    IF m.event[1] \in AwaitedTopics
    THEN handling' = FALSE /\ Return(m.event)
    ELSE UNCHANGED << handling, position, pushed, unseen >>

MailAccepted(m) ==
    /\ Answered(m)
    /\ Resume(m)
    /\ mails' = mails \ {m}
    /\ UNCHANGED << log, committed, batch, sockets, up, skipped, faults, killed >>

\* The process is gone, with its connections, handlers and e-mails.
Die ==
    /\ up' = FALSE
    /\ batch' = None
    /\ handling' = FALSE
    /\ mails' = {}
    /\ sockets' = [c \in Sockets |-> None]
    /\ unseen' = [c \in Sockets |-> {}]

\* unhandledRejection ends the process.
Kill ==
    /\ Die
    /\ killed' = TRUE
    /\ UNCHANGED << position, pushed >>

\* Mutation: the error leaves the handler, and kafkajs hands out the message
\* again.
RefuseAndRetry(m) ==
    /\ Answered(m)
    /\ IF m.event[1] \in UncaughtTopics
       THEN Kill
       ELSE /\ handling' = (handling /\ m.event[1] \notin AwaitedTopics)
            /\ mails' = mails \ {m}
            /\ UNCHANGED << position, batch, socketVars, up, pushed, killed >>
    /\ UNCHANGED << log, committed, skipped, faults >>

\* Mutation: the error is caught behind the push, which it skips.
RefuseAndThrow(m) ==
    /\ Answered(m)
    /\ IF m.event[1] \in UncaughtTopics
       THEN Kill
       ELSE /\ IF m.event[1] \in AwaitedTopics
               THEN /\ handling' = FALSE
                    /\ position' = [position EXCEPT ![m.event[1]] = m.event[2]]
               ELSE UNCHANGED << handling, position >>
            /\ mails' = mails \ {m}
            /\ UNCHANGED << batch, socketVars, up, pushed, killed >>
    /\ UNCHANGED << log, committed, skipped, faults >>

\* The mail server refuses, or does not answer in time, as often as it likes.  A
\* handler that caught the error goes on as if the e-mail had been sent; an
\* error nobody catches ends the process.
MailRefused(m) ==
    /\ Answered(m)
    /\ IF m.event[1] \in UncaughtTopics
       THEN Kill
       ELSE /\ Resume(m)
            /\ mails' = mails \ {m}
            /\ UNCHANGED << batch, sockets, up, killed >>
    /\ UNCHANGED << log, committed, skipped, faults >>

\* Mutation: the offset behind the fetched batch is committed.
CommitFetched ==
    /\ up
    /\ ~handling
    /\ batch # None
    /\ committed' = [committed EXCEPT ![batch] = Len(log[batch])]
    /\ batch' = None
    /\ UNCHANGED << log, position, handling, mails, socketVars, up, historyVars, faults,
                    killed >>

\* The batch ends: autoCommitOffsets.
Commit ==
    /\ up
    /\ ~handling
    /\ batch # None
    /\ committed' = [committed EXCEPT ![batch] = position[batch]]
    /\ batch' = None
    /\ UNCHANGED << log, position, handling, mails, socketVars, up, historyVars, faults,
                    killed >>

-------------------------------------------------------------------------------
(***************************************************************************)
(* Crashes, restarts and rebalances                                        *)
(***************************************************************************)
Offset(t) == IF committed[t] = -1 THEN Len(log[t]) ELSE committed[t]

\* Joining the group: every partition is read from its committed offset, or
\* from its end if it has none.
Join ==
    /\ position' = [t \in Topics |-> Offset(t)]
    /\ skipped' = skipped \cup
           { e \in Event : position[e[1]] < e[2] /\ e[2] <= Offset(e[1]) }

Crash ==
    /\ up
    /\ faults < MaxFaults
    /\ faults' = faults + 1
    /\ Die
    /\ UNCHANGED << log, committed, position, historyVars, killed >>

Restart ==
    /\ ~up
    /\ up' = TRUE
    /\ Join
    /\ UNCHANGED << log, committed, batch, handling, mails, socketVars, answered, latest,
                    pushed, faults, killed >>

\* A heartbeat after a slow message finds that the group has been rebalanced:
\* the rest of the batch is dropped without a commit.
Rebalance ==
    /\ up
    /\ ~handling
    /\ batch # None
    /\ faults < MaxFaults
    /\ faults' = faults + 1
    /\ batch' = None
    /\ Join
    /\ UNCHANGED << log, committed, handling, mails, socketVars, up, answered, latest,
                    pushed, killed >>

-------------------------------------------------------------------------------
(***************************************************************************)
(* The WebSocket gateway                                                   *)
(***************************************************************************)

\* A client connects with the token of u; None stands for no token, or one that
\* does not verify.
Connect(c, u) ==
    /\ up
    /\ sockets[c] = None
    /\ sockets' = [sockets EXCEPT ![c] = [user |-> u, joined |-> FALSE]]
    /\ UNCHANGED << log, consumerVars, mails, unseen, up, historyVars, faults, killed >>

\* handleConnection after verifyAsync: into the room of the user, or out.
FinishConnection(c) ==
    /\ sockets[c] # None
    /\ ~sockets[c].joined
    /\ sockets' = [sockets EXCEPT ![c] = IF sockets[c].user = None THEN None
                                         ELSE [@ EXCEPT !.joined = TRUE]]
    /\ UNCHANGED << log, consumerVars, mails, unseen, up, historyVars, faults, killed >>

Disconnect(c) ==
    /\ sockets[c] # None
    /\ sockets' = [sockets EXCEPT ![c] = None]
    /\ unseen' = [unseen EXCEPT ![c] = {}]
    /\ UNCHANGED << log, consumerVars, mails, up, historyVars, faults, killed >>

-------------------------------------------------------------------------------
Published == { e \in Event : e[2] <= Len(log[e[1]]) }

ConsumerStep == Commit \/ \E t \in Topics : Handle(t)

MailStep == \E m \in mails : MailAccepted(m) \/ MailRefused(m)

SocketStep(c) ==
    \/ \E u \in Users \cup {None} : Connect(c, u)
    \/ FinishConnection(c)
    \/ Disconnect(c)

Next ==
    \/ Cardinality(Published) < MaxEvents /\ \E t \in Topics, u \in Users : Publish(t, u)
    \/ ConsumerStep
    \/ MailStep
    \/ \E c \in Sockets : SocketStep(c)
    \/ Crash \/ Restart \/ Rebalance

Spec == Init /\ [][Next]_vars

\* kafkajs polls, the mail transport answers or times out, and a dead process is
\* started again.
Fairness == WF_vars(ConsumerStep) /\ WF_vars(MailStep) /\ WF_vars(Restart)

FairSpec == Spec /\ Fairness

-------------------------------------------------------------------------------
(***************************************************************************)
(* Properties                                                              *)
(***************************************************************************)
Waiting(e) == \E m \in mails : m.event = e

\* A committed message is never handed out again, so whatever it was to cause
\* has to be under way: its push done, its e-mail answered by the mail server
\* if the handler waits for that, and else at least in the hands of the mail
\* transport, unless the process has died since.  (The order of sendMail and
\* sendToUser in the service, and kafkajs resolving an offset when the handler
\* returns.)
CommittedIsHandled ==
    \A e \in Event \ skipped :
        e[2] <= committed[e[1]] =>
            /\ e[1] \in PushTopics => e \in pushed
            /\ e[1] \in AwaitedTopics => e \in answered
            /\ e \in answered \/ Waiting(e) \/ faults > 0 \/ killed

\* After whatever crashes and redeliveries, when the consumer of a topic whose
\* handler waits has caught up, the last e-mail a user got from it is about the
\* newest message: an older one never arrives after it.  (await sendMail in the
\* providers; the three providers that do not wait cannot promise it.)
NewestMailIsLast ==
    \A t \in Topics \cap AwaitedTopics :
        \A n \in 1..position[t] :
            << t, n >> \notin skipped => n <= latest[t][log[t][n]]

\* A client that is in its room when a message about it is sent has got the
\* push by the time the consumer has passed the message, whatever became of the
\* e-mail; only a partition without an offset skips it.  (The push follows the
\* e-mail in the handler, and the providers swallow the e-mail's error.)
ConnectedUserIsPushed ==
    \A c \in Sockets : \A e \in unseen[c] \ skipped : position[e[1]] < e[2]

\* Only a topic without a committed offset loses messages, and only until its
\* first commit.  (The consumer group of main.ts, without fromBeginning.)
OnlyFreshTopicsSkip ==
    \A e \in skipped : e[1] \in Fresh

\* The offsets never run ahead of each other.
OffsetInv ==
    \A t \in Topics :
        /\ committed[t] <= position[t]
        /\ position[t] <= Len(log[t])
        /\ Len(log[t]) <= MaxEvents
        /\ committed[t] = -1 => t \in Fresh

\* A handler waits exactly while the e-mail of the next message of the batch is
\* on its way, and an awaited e-mail has a handler that waits for it.
HandlerInv ==
    /\ handling => /\ up
                   /\ batch \in AwaitedTopics
                   /\ Waiting(<< batch, position[batch] + 1 >>)
    /\ \A m \in mails :
           /\ m.event[2] <= Len(log[m.event[1]])
           /\ m.event[1] \in AwaitedTopics =>
                  /\ handling
                  /\ m.event = << batch, position[batch] + 1 >>
                  /\ m.life = faults

\* What the consumer has passed has been dealt with: the strengthening of
\* CommittedIsHandled.
PassedIsHandled ==
    \A e \in Event \ skipped :
        e[2] <= position[e[1]] =>
            /\ e[1] \in PushTopics => e \in pushed
            /\ e[1] \in AwaitedTopics => e \in answered
            /\ e \in answered \/ Waiting(e) \/ faults > 0 \/ killed

\* A dead process has nothing under way, and an unseen message is about the
\* client that has not seen it.
ProcessInv ==
    /\ ~up => batch = None /\ mails = {} /\ \A c \in Sockets : sockets[c] = None
    /\ \A c \in Sockets : \A e \in unseen[c] :
           /\ e[1] \in PushTopics
           /\ e[2] <= Len(log[e[1]])
           /\ InRoom(c, UserOf(e))

\* The inductive invariant of the service.
IInv ==
    /\ TypeOK
    /\ OffsetInv
    /\ HandlerInv
    /\ PassedIsHandled
    /\ ProcessInv
    /\ NewestMailIsLast
    /\ ConnectedUserIsPushed
    /\ OnlyFreshTopicsSkip

\* A refused e-mail whose promise nobody looks at.
UncaughtRefusal == \E m \in mails : m.event[1] \in UncaughtTopics /\ MailRefused(m)

\* The backlog empties: every message of a topic with an offset is consumed for
\* good and every e-mail gets its answer, however often the mail server refuses
\* the e-mails of the other topics, because no such refusal, crash or rebalance
\* blocks the messages behind it.  (The catch blocks of the providers; a handler
\* that threw would hold its partition.)  The premise is about the three
\* providers that do not await sendMail: as long as each redelivery of their
\* e-mail is refused, it ends the process before the commit, and nothing is
\* promised of any topic.  MaxEvents ends the messages.
EventsAreConsumed ==
    <>[][~UncaughtRefusal]_vars =>
        []<>(/\ \A t \in Topics \ Fresh : committed[t] = Len(log[t])
             /\ mails = {})

===============================================================================
