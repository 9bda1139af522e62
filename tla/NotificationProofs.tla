-------------------------- MODULE NotificationProofs --------------------------
(***************************************************************************)
(* Proofs of the safety properties of Notification, for any topics, users, *)
(* sockets and bounds.                                                     *)
(*                                                                         *)
(* First what the parts of the actions do (a push, a handler that returns, *)
(* an answer of the mail server, joining the group), then one lemma for    *)
(* each part of IInv, with one step per action.                            *)
(***************************************************************************)
EXTENDS Notification, TLAPS

USE TopicsAssumption, BoundsAssumption, NoneAssumption

-------------------------------------------------------------------------------
(***************************************************************************)
(* The parts of the actions                                                *)
(***************************************************************************)

\* A message behind the last of a topic.
LEMMA AppendEffect ==
    ASSUME NEW S, NEW s \in Seq(S), NEW x \in S
    PROVE  /\ Append(s, x) \in Seq(S)
           /\ Len(Append(s, x)) = Len(s) + 1
           /\ Append(s, x)[Len(s) + 1] = x
           /\ \A k \in 1..Len(s) : Append(s, x)[k] = s[k]
           /\ Len(s) \in Nat
  OBVIOUS

\* A push reaches whoever is in the room, and changes nothing else.
LEMMA PushEffect ==
    ASSUME TypeOK, NEW e \in Event, Push(e)
    PROVE  /\ pushed' \in SUBSET Event
           /\ pushed \subseteq pushed'
           /\ e[1] \in PushTopics => e \in pushed'
           /\ unseen' \in [Sockets -> SUBSET Event]
           /\ \A c \in Sockets :
                  /\ unseen'[c] \subseteq unseen[c]
                  /\ e[1] \in PushTopics /\ InRoom(c, UserOf(e)) => e \notin unseen'[c]
<1>1. CASE e[1] \in PushTopics
  <2>1. /\ pushed' = pushed \cup {e}
        /\ unseen' = [c \in Sockets |-> IF InRoom(c, UserOf(e)) THEN unseen[c] \ {e}
                                                               ELSE unseen[c]]
    BY <1>1 DEF Push
  <2>2. pushed \in SUBSET Event /\ unseen \in [Sockets -> SUBSET Event]
    BY DEF TypeOK
  <2>3. unseen' \in [Sockets -> SUBSET Event]
    BY <2>1, <2>2
  <2> QED
    BY <2>1, <2>2, <2>3
<1>2. CASE e[1] \notin PushTopics
  BY <1>2 DEF Push, TypeOK
<1> QED
  BY <1>1, <1>2

\* A handler that returns moves the position of its topic and pushes.
LEMMA ReturnEffect ==
    ASSUME TypeOK, NEW e \in Event, Return(e)
    PROVE  /\ position' \in [Topics -> 0..MaxEvents]
           /\ position'[e[1]] = e[2]
           /\ \A t \in Topics : t # e[1] => position'[t] = position[t]
           /\ Push(e)
  BY DEF Return, TypeOK, Event, Number

\* Joining the group: what comes to lie behind the consumer was there before, or
\* is skipped, which only happens to topics without an offset.
LEMMA JoinEffect ==
    ASSUME TypeOK, OffsetInv, Join
    PROVE  /\ position' \in [Topics -> 0..MaxEvents]
           /\ skipped' \in SUBSET Event
           /\ skipped \subseteq skipped'
           /\ \A t \in Topics : committed[t] <= position'[t] /\ position'[t] <= Len(log[t])
           /\ \A e \in skipped' : e \in skipped \/ committed[e[1]] = -1
           /\ \A t \in Topics, n \in Number :
                  << t, n >> \in skipped' \/ n <= position[t] \/ n > position'[t]
<1>1. \A t \in Topics : /\ Len(log[t]) \in Nat
                        /\ Len(log[t]) <= MaxEvents
                        /\ committed[t] \in -1..MaxEvents
                        /\ position[t] \in 0..MaxEvents
                        /\ committed[t] <= position[t]
                        /\ position[t] <= Len(log[t])
  BY DEF TypeOK, OffsetInv
<1>2. \A t \in Topics : /\ Offset(t) \in 0..MaxEvents
                        /\ committed[t] <= Offset(t)
                        /\ Offset(t) <= Len(log[t])
                        /\ committed[t] # -1 => Offset(t) <= position[t]
  BY <1>1 DEF Offset
<1>3. position' = [t \in Topics |-> Offset(t)]
  BY DEF Join
<1>4. skipped' = skipped \cup
          { e \in Event : position[e[1]] < e[2] /\ e[2] <= Offset(e[1]) }
  BY DEF Join
<1>5. /\ position' \in [Topics -> 0..MaxEvents]
      /\ \A t \in Topics : committed[t] <= position'[t] /\ position'[t] <= Len(log[t])
  BY <1>2, <1>3
<1>6. skipped' \in SUBSET Event /\ skipped \subseteq skipped'
  BY <1>4 DEF TypeOK
<1>7. \A e \in skipped' : e \in skipped \/ committed[e[1]] = -1
  <2> TAKE e \in skipped'
  <2>1. CASE e \in skipped
    BY <2>1
  <2>2. CASE e \in Event /\ position[e[1]] < e[2] /\ e[2] <= Offset(e[1])
    BY <1>1, <1>2, <2>2 DEF Event, Number
  <2> QED
    BY <1>4, <2>1, <2>2
<1>8. ASSUME NEW t \in Topics, NEW n \in Number
      PROVE  << t, n >> \in skipped' \/ n <= position[t] \/ n > position'[t]
  BY <1>1, <1>2, <1>3, <1>4 DEF Event, Number
<1> QED
  BY <1>5, <1>6, <1>7, <1>8

\* The offsets before and after joining the group are natural numbers.
LEMMA JoinInNat ==
    ASSUME TypeOK, OffsetInv, Join
    PROVE  \A t \in Topics : position[t] \in Nat /\ position'[t] \in Nat
<1>1. position' \in [Topics -> 0..MaxEvents]
  BY JoinEffect
<1>2. position \in [Topics -> 0..MaxEvents]
  BY DEF TypeOK
<1> QED
  BY <1>1, <1>2

\* An e-mail is about a message.
LEMMA MailEvents ==
    ASSUME TypeOK
    PROVE  \A m \in mails : /\ m.event \in Event
                            /\ m.event[1] \in Topics /\ m.event[2] \in Number
<1>1. \A m \in mails : m.event \in Event
  BY DEF TypeOK, Mail
<1> QED
  BY <1>1 DEF Event

\* The message a handler starts is the one behind the position.
LEMMA HandleEffect ==
    ASSUME TypeOK, OffsetInv, NEW t \in Topics, Handle(t), NEW e, e = << t, position[t] + 1 >>
    PROVE  /\ e \in Event
           /\ e[1] = t /\ e[2] = position[t] + 1
           /\ e[2] <= Len(log[t])
           /\ mails' = mails \cup {[event |-> e, life |-> faults]}
           /\ [event |-> e, life |-> faults] \in Mail
           /\ t \in AwaitedTopics =>
                  handling' = TRUE /\ UNCHANGED << position, pushed, unseen >>
           /\ t \notin AwaitedTopics => Return(e) /\ UNCHANGED handling
<1>1. PICK n \in Number :
          /\ n = position[t] + 1
          /\ n <= Len(log[t])
          /\ mails' = mails \cup {[event |-> << t, n >>, life |-> faults]}
          /\ IF t \in AwaitedTopics
             THEN handling' = TRUE /\ UNCHANGED << position, pushed, unseen >>
             ELSE Return(<< t, n >>) /\ UNCHANGED handling
  BY DEF Handle
<1>2. e = << t, n >> /\ e \in Event
  BY <1>1 DEF Event
<1>3. faults \in 0..MaxFaults
  BY DEF TypeOK
<1>4. [event |-> e, life |-> faults] \in Mail
  BY <1>2, <1>3 DEF Mail
<1>5. e[1] = t /\ e[2] = position[t] + 1 /\ e[2] <= Len(log[t])
  BY <1>1, <1>2
<1> QED
  BY <1>1, <1>2, <1>4, <1>5

\* An answer is recorded for the user of the message.
LEMMA AnsweredEffect ==
    ASSUME TypeOK, HandlerInv, NEW m \in mails, Answered(m)
    PROVE  /\ up
           /\ m.event \in Event
           /\ m.event[2] <= Len(log[m.event[1]])
           /\ UserOf(m.event) \in Users
           /\ answered' = answered \cup {m.event}
           /\ latest' \in [Topics -> [Users -> 0..MaxEvents]]
           /\ latest'[m.event[1]][UserOf(m.event)] = m.event[2]
           /\ \A u \in Users : u # UserOf(m.event) =>
                  latest'[m.event[1]][u] = latest[m.event[1]][u]
           /\ \A t \in Topics : t # m.event[1] => latest'[t] = latest[t]
<1>1. m.event \in Event /\ m.event[1] \in Topics /\ m.event[2] \in Number
  BY MailEvents
<1>2. m.event[2] <= Len(log[m.event[1]])
  BY DEF HandlerInv
<1>3. UserOf(m.event) \in Users
  <2>1. log[m.event[1]] \in Seq(Users)
    BY <1>1 DEF TypeOK
  <2>2. m.event[2] \in 1..Len(log[m.event[1]])
    BY <1>1, <1>2, <2>1 DEF Number
  <2> QED
    BY <2>1, <2>2 DEF UserOf
<1>4. /\ up
      /\ answered' = answered \cup {m.event}
      /\ latest' = [latest EXCEPT ![m.event[1]][UserOf(m.event)] = m.event[2]]
  BY DEF Answered
<1>5. latest \in [Topics -> [Users -> 0..MaxEvents]] /\ m.event[2] \in 0..MaxEvents
  BY <1>1 DEF TypeOK, Number
<1> QED
  BY <1>1, <1>2, <1>3, <1>4, <1>5

\* The answer of the mail server leaves the process alive.
Finishes(m) ==
    /\ Answered(m)
    /\ mails' = mails \ {m}
    /\ IF m.event[1] \in AwaitedTopics
       THEN handling' = FALSE /\ Return(m.event)
       ELSE UNCHANGED << handling, position, pushed, unseen >>
    /\ UNCHANGED << log, committed, batch, sockets, up, skipped, faults, killed >>

\* The answer of the mail server ends the process.
Kills(m) ==
    /\ Answered(m)
    /\ m.event[1] \in UncaughtTopics
    /\ Die
    /\ killed' = TRUE
    /\ UNCHANGED << log, committed, position, pushed, skipped, faults >>

\* The two outcomes of an e-mail.
LEMMA MailEffect ==
    ASSUME TypeOK, NEW m \in mails, MailAccepted(m) \/ MailRefused(m)
    PROVE  Finishes(m) \/ Kills(m)
<1>1. CASE MailAccepted(m)
  BY <1>1 DEF MailAccepted, Resume, Finishes
<1>2. CASE MailRefused(m) /\ m.event[1] \in UncaughtTopics
  BY <1>2 DEF MailRefused, Kill, Kills
<1>3. CASE MailRefused(m) /\ m.event[1] \notin UncaughtTopics
  BY <1>3 DEF MailRefused, Resume, Finishes
<1> QED
  BY <1>1, <1>2, <1>3

-------------------------------------------------------------------------------
(***************************************************************************)
(* The parts of the invariant                                              *)
(***************************************************************************)

\* Types. A number a handler writes is that of a message of the topic.
LEMMA TypeStays ==
    ASSUME TypeOK, OffsetInv, HandlerInv,
           [Next]_vars
    PROVE  TypeOK'
<1>1. ASSUME NEW t \in Topics, NEW u \in Users, Publish(t, u) PROVE TypeOK'
  <2>1. log' \in [Topics -> Seq(Users)]
    BY <1>1 DEF Publish, TypeOK
  <2>2. unseen' \in [Sockets -> SUBSET Event]
    <3>1. PICK n \in Number : unseen' = [c \in Sockets |->
                                IF t \in PushTopics /\ InRoom(c, u)
                                THEN unseen[c] \cup {<< t, n >>} ELSE unseen[c]]
      BY <1>1 DEF Publish
    <3>2. << t, n >> \in Event
      BY DEF Event
    <3> QED
      BY <3>1, <3>2 DEF TypeOK
  <2> QED
    BY <1>1, <2>1, <2>2 DEF Publish, TypeOK, consumerVars, historyVars
<1>2. ASSUME NEW t \in Topics, Handle(t) PROVE TypeOK'
  <2>1. PICK e : e = << t, position[t] + 1 >>
    OBVIOUS
  <2>2. /\ e \in Event
        /\ e[1] = t /\ e[2] = position[t] + 1
        /\ e[2] <= Len(log[t])
        /\ mails' = mails \cup {[event |-> e, life |-> faults]}
        /\ [event |-> e, life |-> faults] \in Mail
        /\ t \in AwaitedTopics =>
               handling' = TRUE /\ UNCHANGED << position, pushed, unseen >>
        /\ t \notin AwaitedTopics => Return(e) /\ UNCHANGED handling
    BY <1>2, <2>1, HandleEffect
  <2>3. CASE t \in AwaitedTopics
    BY <1>2, <2>2, <2>3 DEF Handle, TypeOK, vars, consumerVars, socketVars, historyVars
  <2>4. CASE t \notin AwaitedTopics
    <3>1. /\ position' \in [Topics -> 0..MaxEvents]
          /\ pushed' \in SUBSET Event
          /\ unseen' \in [Sockets -> SUBSET Event]
      BY <2>2, <2>4, ReturnEffect, PushEffect
    <3> QED
      BY <1>2, <2>2, <2>4, <3>1 DEF Handle, TypeOK
  <2> QED
    BY <2>3, <2>4
<1>3. ASSUME NEW m \in mails, Finishes(m) PROVE TypeOK'
  <2>1. /\ m.event \in Event
        /\ answered' \in SUBSET Event
        /\ latest' \in [Topics -> [Users -> 0..MaxEvents]]
    BY <1>3, AnsweredEffect DEF Finishes, TypeOK
  <2>2. /\ position' \in [Topics -> 0..MaxEvents]
        /\ pushed' \in SUBSET Event
        /\ unseen' \in [Sockets -> SUBSET Event]
        /\ handling' \in BOOLEAN
    BY <1>3, <2>1, ReturnEffect, PushEffect DEF Finishes, TypeOK
  <2> QED
    BY <1>3, <2>1, <2>2 DEF Finishes, TypeOK
<1>4. ASSUME NEW m \in mails, Kills(m) PROVE TypeOK'
  <2>1. /\ m.event \in Event
        /\ answered' \in SUBSET Event
        /\ latest' \in [Topics -> [Users -> 0..MaxEvents]]
    BY <1>4, AnsweredEffect DEF Kills, TypeOK
  <2>2. /\ batch' \in Topics \cup {None} /\ handling' \in BOOLEAN /\ mails' \in SUBSET Mail
        /\ up' \in BOOLEAN
        /\ sockets' \in [Sockets -> Connection \cup {None}]
        /\ unseen' \in [Sockets -> SUBSET Event]
    BY <1>4 DEF Kills, Die
  <2> QED
    BY <1>4, <2>1, <2>2 DEF Kills, TypeOK
<1>5. ASSUME Commit PROVE TypeOK'
  BY <1>5 DEF Commit, vars, consumerVars, socketVars, historyVars, TypeOK,
         OffsetInv
<1>6. ASSUME Crash PROVE TypeOK'
  <2>1. /\ batch' \in Topics \cup {None} /\ handling' \in BOOLEAN /\ mails' \in SUBSET Mail
        /\ up' \in BOOLEAN
        /\ sockets' \in [Sockets -> Connection \cup {None}]
        /\ unseen' \in [Sockets -> SUBSET Event]
    BY <1>6 DEF Crash, Die
  <2>2. faults' \in 0..MaxFaults
    BY <1>6 DEF Crash, TypeOK
  <2> QED
    BY <1>6, <2>1, <2>2 DEF Crash, historyVars, TypeOK
<1>7. ASSUME Restart PROVE TypeOK'
  BY <1>7, JoinEffect DEF Restart, vars, consumerVars, socketVars, historyVars,
         TypeOK
<1>8. ASSUME Rebalance PROVE TypeOK'
  BY <1>8, JoinEffect DEF Rebalance, vars, consumerVars, socketVars,
         historyVars, TypeOK
<1>9. ASSUME NEW c \in Sockets, NEW u \in Users \cup {None}, Connect(c, u)
      PROVE  TypeOK'
  BY <1>9 DEF Connect, vars, consumerVars, socketVars, historyVars, TypeOK,
         Connection
<1>10. ASSUME NEW c \in Sockets, FinishConnection(c) PROVE TypeOK'
  BY <1>10 DEF FinishConnection, vars, consumerVars, socketVars, historyVars,
         TypeOK, Connection
<1>11. ASSUME NEW c \in Sockets, Disconnect(c) PROVE TypeOK'
  BY <1>11 DEF Disconnect, vars, consumerVars, socketVars, historyVars, TypeOK,
         Connection
<1>12. ASSUME UNCHANGED vars PROVE TypeOK'
  BY <1>12 DEF vars, consumerVars, socketVars, historyVars, TypeOK
<1> QED
  BY MailEffect, <1>1, <1>2, <1>3, <1>4, <1>5, <1>6, <1>7, <1>8, <1>9,
     <1>10, <1>11, <1>12 DEF Next, ConsumerStep, MailStep, SocketStep

\* The offsets keep their order: a handler returns from the next message only.
LEMMA OffsetsStay ==
    ASSUME TypeOK, OffsetInv, HandlerInv,
           [Next]_vars
    PROVE  OffsetInv'
<1>1. ASSUME NEW t \in Topics, NEW u \in Users, Publish(t, u) PROVE OffsetInv'
  <2>1. UNCHANGED << committed, position >>
    BY <1>1 DEF Publish, consumerVars
  <2>2. /\ Len(log'[t]) = Len(log[t]) + 1 /\ Len(log'[t]) <= MaxEvents
        /\ \A s \in Topics : s # t => log'[s] = log[s]
    BY <1>1 DEF Publish, TypeOK, Number
  <2>3. \A s \in Topics : position[s] \in Nat /\ committed[s] \in Int /\ Len(log[s]) \in Nat
    BY DEF TypeOK
  <2> QED
    BY <2>1, <2>2, <2>3 DEF OffsetInv
<1>2. ASSUME NEW t \in Topics, Handle(t) PROVE OffsetInv'
  <2>1. PICK e : e = << t, position[t] + 1 >>
    OBVIOUS
  <2>2. /\ e \in Event
        /\ e[1] = t /\ e[2] = position[t] + 1
        /\ e[2] <= Len(log[t])
        /\ mails' = mails \cup {[event |-> e, life |-> faults]}
        /\ [event |-> e, life |-> faults] \in Mail
        /\ t \in AwaitedTopics =>
               handling' = TRUE /\ UNCHANGED << position, pushed, unseen >>
        /\ t \notin AwaitedTopics => Return(e) /\ UNCHANGED handling
    BY <1>2, <2>1, HandleEffect
  <2>3. CASE t \in AwaitedTopics
    BY <1>2, <2>2, <2>3 DEF Handle, OffsetInv, vars, consumerVars, socketVars, historyVars
  <2>4. CASE t \notin AwaitedTopics
    <3>1. /\ position'[t] = position[t] + 1
          /\ \A s \in Topics : s # t => position'[s] = position[s]
      BY <2>2, <2>4, ReturnEffect
    <3>2. UNCHANGED << log, committed >>
      BY <1>2 DEF Handle
    <3>3. \A s \in Topics : position[s] \in Nat /\ committed[s] \in Int
      BY DEF TypeOK
    <3> QED
      BY <2>2, <3>1, <3>2, <3>3 DEF OffsetInv
  <2> QED
    BY <2>3, <2>4
<1>3. ASSUME NEW m \in mails, Finishes(m) PROVE OffsetInv'
  <2>1. /\ m.event \in Event
        /\ m.event[2] <= Len(log[m.event[1]])
    BY <1>3, AnsweredEffect DEF Finishes
  <2>2. CASE m.event[1] \in AwaitedTopics
    <3>1. /\ position'[m.event[1]] = m.event[2]
          /\ m.event[2] = position[m.event[1]] + 1
          /\ \A s \in Topics : s # m.event[1] => position'[s] = position[s]
      BY <1>3, <2>1, <2>2, ReturnEffect DEF Finishes, HandlerInv
    <3>2. UNCHANGED << log, committed >>
      BY <1>3 DEF Finishes
    <3>3. \A s \in Topics : position[s] \in Nat /\ committed[s] \in Int
      BY DEF TypeOK
    <3> QED
      <4>1. ASSUME NEW s \in Topics
            PROVE  committed'[s] <= position'[s] /\ position'[s] <= Len(log'[s])
        <5>1. committed[s] <= position[s] /\ position[s] <= Len(log[s])
          BY DEF OffsetInv
        <5>2. CASE s = m.event[1]
          BY <2>1, <3>1, <3>2, <3>3, <5>1, <5>2
        <5>3. CASE s # m.event[1]
          BY <3>1, <3>2, <5>1, <5>3
        <5> QED
          BY <5>2, <5>3
      <4> QED
        BY <3>2, <4>1 DEF OffsetInv
  <2>3. CASE m.event[1] \notin AwaitedTopics
    BY <1>3, <2>3 DEF Finishes, OffsetInv
  <2> QED
    BY <2>2, <2>3
<1>4. ASSUME NEW m \in mails, Kills(m) PROVE OffsetInv'
  BY <1>4 DEF Kills, Die, vars, consumerVars, socketVars, historyVars, TypeOK,
         OffsetInv
<1>5. ASSUME Commit PROVE OffsetInv'
  BY <1>5 DEF Commit, vars, consumerVars, socketVars, historyVars, TypeOK,
         OffsetInv
<1>6. ASSUME Crash PROVE OffsetInv'
  BY <1>6 DEF Crash, Die, vars, consumerVars, socketVars, historyVars, TypeOK,
         OffsetInv
<1>7. ASSUME Restart PROVE OffsetInv'
  BY <1>7, JoinEffect DEF Restart, vars, consumerVars, socketVars, historyVars,
         TypeOK, OffsetInv
<1>8. ASSUME Rebalance PROVE OffsetInv'
  BY <1>8, JoinEffect DEF Rebalance, vars, consumerVars, socketVars,
         historyVars, TypeOK, OffsetInv
<1>9. ASSUME NEW c \in Sockets, NEW u \in Users \cup {None}, Connect(c, u)
      PROVE  OffsetInv'
  BY <1>9 DEF Connect, vars, consumerVars, socketVars, historyVars, TypeOK,
         OffsetInv
<1>10. ASSUME NEW c \in Sockets, FinishConnection(c) PROVE OffsetInv'
  BY <1>10 DEF FinishConnection, vars, consumerVars, socketVars, historyVars,
         TypeOK, OffsetInv
<1>11. ASSUME NEW c \in Sockets, Disconnect(c) PROVE OffsetInv'
  BY <1>11 DEF Disconnect, vars, consumerVars, socketVars, historyVars, TypeOK,
         OffsetInv
<1>12. ASSUME UNCHANGED vars PROVE OffsetInv'
  BY <1>12 DEF vars, consumerVars, socketVars, historyVars, TypeOK, OffsetInv
<1> QED
  BY MailEffect, <1>1, <1>2, <1>3, <1>4, <1>5, <1>6, <1>7, <1>8, <1>9,
     <1>10, <1>11, <1>12 DEF Next, ConsumerStep, MailStep, SocketStep

\* A handler and the e-mail it waits for come and go together.
LEMMA HandlerStays ==
    ASSUME TypeOK, OffsetInv, HandlerInv, ProcessInv,
           [Next]_vars
    PROVE  HandlerInv'
<1>1. ASSUME NEW t \in Topics, NEW u \in Users, Publish(t, u) PROVE HandlerInv'
  <2>1. /\ UNCHANGED << mails, handling, up, batch, position, faults >>
        /\ \A s \in Topics : Len(log[s]) <= Len(log'[s])
    BY <1>1 DEF Publish, consumerVars, TypeOK
  <2>2. \A n \in mails : n.event[1] \in Topics /\ n.event[2] \in Nat
    BY MailEvents DEF Number
  <2>3. \A s \in Topics : Len(log[s]) \in Nat /\ Len(log'[s]) \in Nat
    <3>1. log \in [Topics -> Seq(Users)]
      BY DEF TypeOK
    <3>2. log' = [log EXCEPT ![t] = Append(@, u)]
      BY <1>1 DEF Publish
    <3>3. log' \in [Topics -> Seq(Users)]
      BY <3>1, <3>2
    <3> QED
      BY <3>1, <3>3
  <2> QED
    BY <2>1, <2>2, <2>3 DEF HandlerInv, Waiting
<1>2. ASSUME NEW t \in Topics, Handle(t) PROVE HandlerInv'
  <2>1. PICK e : e = << t, position[t] + 1 >>
    OBVIOUS
  <2>2. /\ e \in Event
        /\ e[1] = t /\ e[2] = position[t] + 1
        /\ e[2] <= Len(log[t])
        /\ mails' = mails \cup {[event |-> e, life |-> faults]}
        /\ [event |-> e, life |-> faults] \in Mail
        /\ t \in AwaitedTopics =>
               handling' = TRUE /\ UNCHANGED << position, pushed, unseen >>
        /\ t \notin AwaitedTopics => Return(e) /\ UNCHANGED handling
    BY <1>2, <2>1, HandleEffect
  <2>3. CASE t \in AwaitedTopics
    <3>1. \A n \in mails : n.event[1] \notin AwaitedTopics
      BY <1>2 DEF Handle, HandlerInv
    <3>2. \A n \in mails' : n \in mails \/ n = [event |-> e, life |-> faults]
      BY <2>2
    <3>3. up' /\ batch' = t /\ handling' /\ UNCHANGED << log, position, faults >>
      BY <1>2, <2>2, <2>3 DEF Handle
    <3>4. Waiting(<< batch, position[batch] + 1 >>)'
      BY <2>1, <2>2, <3>3 DEF Waiting
    <3> QED
      BY <2>1, <2>2, <2>3, <3>1, <3>2, <3>3, <3>4 DEF HandlerInv
  <2>4. CASE t \notin AwaitedTopics
    BY <1>2, <2>2, <2>4 DEF Handle, TypeOK, Mail, HandlerInv, Waiting
  <2> QED
    BY <2>3, <2>4
<1>3. ASSUME NEW m \in mails, Finishes(m) PROVE HandlerInv'
  <2>1. /\ m.event \in Event
        /\ m.event[2] <= Len(log[m.event[1]])
    BY <1>3, AnsweredEffect DEF Finishes
  <2>2. CASE m.event[1] \in AwaitedTopics
    <3>1. ASSUME NEW n \in mails, n.event[1] \in AwaitedTopics PROVE n = m
      <4>1. /\ n = [event |-> n.event, life |-> n.life]
            /\ m = [event |-> m.event, life |-> m.life]
        BY DEF TypeOK, Mail
      <4>2. n.event = m.event /\ n.life = m.life
        BY <2>2, <3>1 DEF HandlerInv
      <4> QED
        BY <4>1, <4>2
    <3> QED
      BY <1>3, <2>1, <2>2, <3>1 DEF Finishes, HandlerInv
  <2>3. CASE m.event[1] \notin AwaitedTopics
    BY <1>3, <2>1, <2>3 DEF Finishes, HandlerInv, Waiting
  <2> QED
    BY <2>2, <2>3
<1>4. ASSUME NEW m \in mails, Kills(m) PROVE HandlerInv'
  BY <1>4 DEF Kills, Die, vars, consumerVars, socketVars, historyVars, TypeOK,
         Mail, HandlerInv, Waiting, ProcessInv
<1>5. ASSUME Commit PROVE HandlerInv'
  BY <1>5 DEF Commit, vars, consumerVars, socketVars, historyVars, TypeOK,
         Mail, HandlerInv, Waiting, ProcessInv
<1>6. ASSUME Crash PROVE HandlerInv'
  BY <1>6 DEF Crash, Die, vars, consumerVars, socketVars, historyVars, TypeOK,
         Mail, HandlerInv, Waiting, ProcessInv
<1>7. ASSUME Restart PROVE HandlerInv'
  BY <1>7 DEF Restart, vars, consumerVars, socketVars, historyVars, TypeOK,
         Mail, HandlerInv, Waiting, ProcessInv
<1>8. ASSUME Rebalance PROVE HandlerInv'
  BY <1>8 DEF Rebalance, vars, consumerVars, socketVars, historyVars, TypeOK,
         Mail, HandlerInv, Waiting, ProcessInv
<1>9. ASSUME NEW c \in Sockets, NEW u \in Users \cup {None}, Connect(c, u)
      PROVE  HandlerInv'
  BY <1>9 DEF Connect, vars, consumerVars, socketVars, historyVars, TypeOK,
         Mail, HandlerInv, Waiting, ProcessInv
<1>10. ASSUME NEW c \in Sockets, FinishConnection(c) PROVE HandlerInv'
  BY <1>10 DEF FinishConnection, vars, consumerVars, socketVars, historyVars,
         TypeOK, Mail, HandlerInv, Waiting, ProcessInv
<1>11. ASSUME NEW c \in Sockets, Disconnect(c) PROVE HandlerInv'
  BY <1>11 DEF Disconnect, vars, consumerVars, socketVars, historyVars, TypeOK,
         Mail, HandlerInv, Waiting, ProcessInv
<1>12. ASSUME UNCHANGED vars PROVE HandlerInv'
  BY <1>12 DEF vars, consumerVars, socketVars, historyVars, TypeOK, Mail,
         HandlerInv, Waiting, ProcessInv
<1> QED
  BY MailEffect, <1>1, <1>2, <1>3, <1>4, <1>5, <1>6, <1>7, <1>8, <1>9,
     <1>10, <1>11, <1>12 DEF Next, ConsumerStep, MailStep, SocketStep

\* What lies behind the consumer has been dealt with.
LEMMA PassedStays ==
    ASSUME TypeOK, OffsetInv, HandlerInv, PassedIsHandled,
           [Next]_vars
    PROVE  PassedIsHandled'
<1>1. ASSUME NEW t \in Topics, NEW u \in Users, Publish(t, u)
      PROVE  PassedIsHandled'
  BY <1>1 DEF Publish, vars, consumerVars, socketVars, historyVars,
         PassedIsHandled, Waiting
<1>2. ASSUME NEW t \in Topics, Handle(t) PROVE PassedIsHandled'
  <2>1. PICK e : e = << t, position[t] + 1 >>
    OBVIOUS
  <2>2. /\ e \in Event
        /\ e[1] = t /\ e[2] = position[t] + 1
        /\ e[2] <= Len(log[t])
        /\ mails' = mails \cup {[event |-> e, life |-> faults]}
        /\ [event |-> e, life |-> faults] \in Mail
        /\ t \in AwaitedTopics =>
               handling' = TRUE /\ UNCHANGED << position, pushed, unseen >>
        /\ t \notin AwaitedTopics => Return(e) /\ UNCHANGED handling
    BY <1>2, <2>1, HandleEffect
  <2>3. CASE t \in AwaitedTopics
    BY <1>2, <2>2, <2>3 DEF Handle, PassedIsHandled, Waiting
  <2>4. CASE t \notin AwaitedTopics
    <3>1. /\ UNCHANGED << answered, skipped, faults, killed >>
          /\ position'[t] = e[2]
          /\ \A s \in Topics : s # t => position'[s] = position[s]
          /\ pushed \subseteq pushed'
          /\ t \in PushTopics => e \in pushed'
      BY <1>2, <2>2, <2>4, ReturnEffect, PushEffect DEF Handle
    <3>2. Waiting(e)' /\ \A d \in Event : Waiting(d) => Waiting(d)'
      BY <2>2 DEF Waiting
    <3>3. ASSUME NEW d \in Event \ skipped, d[2] <= position'[d[1]]
          PROVE  d = e \/ d[2] <= position[d[1]]
      <4>1. /\ d = << d[1], d[2] >> /\ e = << e[1], e[2] >>
            /\ d[1] \in Topics /\ d[2] \in Nat
        BY <2>2 DEF Event, Number
      <4>2. position[t] \in Nat
        BY DEF TypeOK
      <4> QED
        BY <2>2, <3>1, <3>3, <4>1, <4>2
    <3> QED
      BY <2>2, <2>4, <3>1, <3>2, <3>3 DEF PassedIsHandled
  <2> QED
    BY <2>3, <2>4
<1>3. ASSUME NEW m \in mails, Finishes(m) PROVE PassedIsHandled'
  <2>1. /\ m.event \in Event
        /\ answered' = answered \cup {m.event}
        /\ UNCHANGED << skipped, faults, killed >>
    BY <1>3, AnsweredEffect DEF Finishes, TypeOK
  <2>2. \A d \in Event : Waiting(d) => Waiting(d)' \/ d \in answered'
    BY <1>3, <2>1 DEF Finishes, Waiting
  <2>3. CASE m.event[1] \in AwaitedTopics
    <3>1. /\ position'[m.event[1]] = m.event[2]
          /\ m.event[2] = position[m.event[1]] + 1
          /\ \A s \in Topics : s # m.event[1] => position'[s] = position[s]
          /\ pushed \subseteq pushed'
          /\ m.event[1] \in PushTopics => m.event \in pushed'
      BY <1>3, <2>1, <2>3, ReturnEffect, PushEffect DEF Finishes, HandlerInv
    <3>2. ASSUME NEW d \in Event \ skipped, d[2] <= position'[d[1]]
          PROVE  d = m.event \/ d[2] <= position[d[1]]
      <4>1. /\ d = << d[1], d[2] >> /\ m.event = << m.event[1], m.event[2] >>
            /\ d[1] \in Topics /\ d[2] \in Nat /\ m.event[1] \in Topics
        BY <2>1 DEF Event, Number
      <4>2. position[m.event[1]] \in Nat
        BY <4>1 DEF TypeOK
      <4> QED
        BY <3>1, <3>2, <4>1, <4>2
    <3> QED
      BY <2>1, <2>2, <3>1, <3>2 DEF PassedIsHandled
  <2>4. CASE m.event[1] \notin AwaitedTopics
    BY <1>3, <2>1, <2>2, <2>4 DEF Finishes, PassedIsHandled
  <2> QED
    BY <2>3, <2>4
<1>4. ASSUME NEW m \in mails, Kills(m) PROVE PassedIsHandled'
  <2>1. /\ UNCHANGED << skipped, position, pushed >>
        /\ answered \subseteq answered'
        /\ killed'
    BY <1>4 DEF Kills, Answered, historyVars, TypeOK
  <2> QED
    BY <2>1 DEF PassedIsHandled
<1>5. ASSUME Commit PROVE PassedIsHandled'
  BY <1>5 DEF Commit, vars, consumerVars, socketVars, historyVars,
         PassedIsHandled, Waiting
<1>6. ASSUME Crash PROVE PassedIsHandled'
  <2>1. /\ UNCHANGED << skipped, position, pushed >>
        /\ answered \subseteq answered'
        /\ faults' > 0
    BY <1>6 DEF Crash, Answered, historyVars, TypeOK
  <2> QED
    BY <2>1 DEF PassedIsHandled
<1>7. ASSUME Restart PROVE PassedIsHandled'
  <2>1. /\ UNCHANGED << answered, pushed, faults, killed, mails >>
        /\ skipped \subseteq skipped'
        /\ \A t \in Topics, n \in Number :
               << t, n >> \in skipped' \/ n <= position[t] \/ n > position'[t]
    BY <1>7, JoinEffect DEF Restart
  <2>2. \A t \in Topics : position[t] \in Nat /\ position'[t] \in Nat
    BY <1>7, JoinInNat DEF Restart
  <2> SUFFICES ASSUME NEW e \in Event, e \notin skipped', e[2] <= position'[e[1]]
               PROVE  /\ e \notin skipped
                      /\ e[2] <= position[e[1]]
    BY <2>1 DEF PassedIsHandled, Waiting
  <2> QED
    BY <2>1, <2>2 DEF Event, Number
<1>8. ASSUME Rebalance PROVE PassedIsHandled'
  <2>1. /\ UNCHANGED << answered, pushed, killed, mails >>
        /\ skipped \subseteq skipped'
        /\ \A t \in Topics, n \in Number :
               << t, n >> \in skipped' \/ n <= position[t] \/ n > position'[t]
    BY <1>8, JoinEffect DEF Rebalance
  <2>3. faults' > 0
    BY <1>8 DEF Rebalance, TypeOK
  <2>2. \A t \in Topics : position[t] \in Nat /\ position'[t] \in Nat
    BY <1>8, JoinInNat DEF Rebalance
  <2> SUFFICES ASSUME NEW e \in Event, e \notin skipped', e[2] <= position'[e[1]]
               PROVE  /\ e \notin skipped
                      /\ e[2] <= position[e[1]]
    BY <2>1, <2>3 DEF PassedIsHandled
  <2> QED
    BY <2>1, <2>2 DEF Event, Number
<1>9. ASSUME NEW c \in Sockets, NEW u \in Users \cup {None}, Connect(c, u)
      PROVE  PassedIsHandled'
  BY <1>9 DEF Connect, vars, consumerVars, socketVars, historyVars,
         PassedIsHandled, Waiting
<1>10. ASSUME NEW c \in Sockets, FinishConnection(c) PROVE PassedIsHandled'
  BY <1>10 DEF FinishConnection, vars, consumerVars, socketVars, historyVars,
         PassedIsHandled, Waiting
<1>11. ASSUME NEW c \in Sockets, Disconnect(c) PROVE PassedIsHandled'
  BY <1>11 DEF Disconnect, vars, consumerVars, socketVars, historyVars,
         PassedIsHandled, Waiting
<1>12. ASSUME UNCHANGED vars PROVE PassedIsHandled'
  BY <1>12 DEF vars, consumerVars, socketVars, historyVars, PassedIsHandled,
         Waiting
<1> QED
  BY MailEffect, <1>1, <1>2, <1>3, <1>4, <1>5, <1>6, <1>7, <1>8, <1>9,
     <1>10, <1>11, <1>12 DEF Next, ConsumerStep, MailStep, SocketStep

\* A dead process has nothing under way.
LEMMA ProcessStays ==
    ASSUME TypeOK, OffsetInv, HandlerInv, ProcessInv,
           [Next]_vars
    PROVE  ProcessInv'
<1>1. ASSUME NEW t \in Topics, NEW u \in Users, Publish(t, u) PROVE ProcessInv'
  <2>1. PICK n \in Number :
            /\ Len(log[t]) + 1 = n
            /\ unseen' = [c \in Sockets |-> IF t \in PushTopics /\ InRoom(c, u)
                             THEN unseen[c] \cup {<< t, n >>} ELSE unseen[c]]
    BY <1>1 DEF Publish
  <2>2. /\ UNCHANGED << batch, mails, sockets, up >>
        /\ log' = [log EXCEPT ![t] = Append(log[t], u)]
    BY <1>1 DEF Publish, consumerVars
  <2>3. /\ Len(log'[t]) = n /\ log'[t][n] = u
        /\ \A s \in Topics : /\ Len(log[s]) \in Nat
                              /\ Len(log[s]) <= Len(log'[s])
                              /\ \A k \in 1..Len(log[s]) : log'[s][k] = log[s][k]
    <3>1. \A s \in Topics : /\ log[s] \in Seq(Users)
                              /\ log'[s] = IF s = t THEN Append(log[t], u) ELSE log[s]
      BY <2>2 DEF TypeOK
    <3>2. /\ Len(log'[t]) = Len(log[t]) + 1
          /\ log'[t][Len(log[t]) + 1] = u
          /\ \A k \in 1..Len(log[t]) : log'[t][k] = log[t][k]
          /\ Len(log[t]) \in Nat
      <4>1. log'[t] = Append(log[t], u) /\ log[t] \in Seq(Users)
        BY <3>1
      <4>2. \A s \in Seq(Users), x \in Users :
                /\ Len(Append(s, x)) = Len(s) + 1
                /\ Append(s, x)[Len(s) + 1] = x
                /\ \A k \in 1..Len(s) : Append(s, x)[k] = s[k]
                /\ Len(s) \in Nat
        BY AppendEffect
      <4>3. /\ Len(Append(log[t], u)) = Len(log[t]) + 1
            /\ Append(log[t], u)[Len(log[t]) + 1] = u
            /\ \A k \in 1..Len(log[t]) : Append(log[t], u)[k] = log[t][k]
            /\ Len(log[t]) \in Nat
        BY <4>1, <4>2
      <4> QED
        BY <4>1, <4>3
    <3>3. ASSUME NEW s \in Topics
          PROVE  /\ Len(log[s]) \in Nat
                 /\ Len(log[s]) <= Len(log'[s])
                 /\ \A k \in 1..Len(log[s]) : log'[s][k] = log[s][k]
      <4>1. CASE s = t
        BY <3>2, <4>1
      <4>2. CASE s # t
        BY <3>1, <4>2
      <4> QED
        BY <4>1, <4>2
    <3> QED
      BY <2>1, <3>2, <3>3
  <2>4. ASSUME NEW c \in Sockets, NEW e \in unseen'[c]
        PROVE  /\ e[1] \in PushTopics
               /\ e[2] <= Len(log'[e[1]])
               /\ InRoom(c, log'[e[1]][e[2]])
    <3>1. CASE e \in unseen[c]
      <4>1. e[1] \in Topics /\ e[2] \in 1..Len(log[e[1]])
        BY <3>1 DEF TypeOK, ProcessInv, Event, Number
      <4>2. log'[e[1]][e[2]] = UserOf(e)
        BY <2>3, <4>1 DEF UserOf
      <4>3. /\ e[1] \in PushTopics
            /\ e[2] <= Len(log[e[1]])
            /\ InRoom(c, UserOf(e))
        BY <3>1 DEF ProcessInv
      <4>4. Len(log[e[1]]) \in Nat /\ Len(log'[e[1]]) \in Nat
        <5>1. log[e[1]] \in Seq(Users) /\ log'[e[1]] \in Seq(Users)
          BY <2>2, <4>1 DEF TypeOK
        <5> QED
          BY <5>1
      <4> QED
        BY <2>2, <2>3, <4>1, <4>2, <4>3, <4>4 DEF InRoom
    <3>2. CASE e = << t, n >> /\ t \in PushTopics /\ InRoom(c, u)
      BY <2>1, <2>2, <2>3, <3>2 DEF InRoom, UserOf, TypeOK
    <3> QED
      BY <2>1, <2>4, <3>1, <3>2
  <2> QED
    BY <2>2, <2>4 DEF ProcessInv, InRoom, UserOf
<1>2. ASSUME NEW t \in Topics, Handle(t) PROVE ProcessInv'
  <2>1. PICK e : e = << t, position[t] + 1 >>
    OBVIOUS
  <2>2. /\ e \in Event
        /\ e[1] = t /\ e[2] = position[t] + 1
        /\ e[2] <= Len(log[t])
        /\ mails' = mails \cup {[event |-> e, life |-> faults]}
        /\ [event |-> e, life |-> faults] \in Mail
        /\ t \in AwaitedTopics =>
               handling' = TRUE /\ UNCHANGED << position, pushed, unseen >>
        /\ t \notin AwaitedTopics => Return(e) /\ UNCHANGED handling
    BY <1>2, <2>1, HandleEffect
  <2>3. CASE t \in AwaitedTopics
    BY <1>2, <2>2, <2>3 DEF Handle, ProcessInv, InRoom, UserOf
  <2>4. CASE t \notin AwaitedTopics
    <3>1. \A c \in Sockets : unseen'[c] \subseteq unseen[c]
      BY <1>2, <2>2, <2>4, ReturnEffect, PushEffect DEF Handle
    <3>2. up /\ UNCHANGED << up, sockets, log >>
      BY <1>2 DEF Handle
    <3> QED
      BY <3>1, <3>2 DEF ProcessInv, InRoom, UserOf
  <2> QED
    BY <2>3, <2>4
<1>3. ASSUME NEW m \in mails, Finishes(m) PROVE ProcessInv'
  <2>1. up /\ m.event \in Event
    BY <1>3, AnsweredEffect DEF Finishes
  <2>2. \A c \in Sockets : unseen'[c] \subseteq unseen[c]
    BY <1>3, <2>1, ReturnEffect, PushEffect DEF Finishes
  <2>3. UNCHANGED << up, sockets, log >>
    BY <1>3 DEF Finishes
  <2> QED
    BY <2>1, <2>2, <2>3 DEF ProcessInv, InRoom, UserOf
<1>4. ASSUME NEW m \in mails, Kills(m) PROVE ProcessInv'
  BY <1>4 DEF Kills, Die, vars, consumerVars, socketVars, historyVars,
         ProcessInv, InRoom, UserOf
<1>5. ASSUME Commit PROVE ProcessInv'
  BY <1>5 DEF Commit, vars, consumerVars, socketVars, historyVars, ProcessInv,
         InRoom, UserOf
<1>6. ASSUME Crash PROVE ProcessInv'
  BY <1>6 DEF Crash, Die, vars, consumerVars, socketVars, historyVars,
         ProcessInv, InRoom, UserOf
<1>7. ASSUME Restart PROVE ProcessInv'
  BY <1>7 DEF Restart, vars, consumerVars, socketVars, historyVars, ProcessInv,
         InRoom, UserOf
<1>8. ASSUME Rebalance PROVE ProcessInv'
  BY <1>8 DEF Rebalance, vars, consumerVars, socketVars, historyVars,
         ProcessInv, InRoom, UserOf
<1>9. ASSUME NEW c \in Sockets, NEW u \in Users \cup {None}, Connect(c, u)
      PROVE  ProcessInv'
  BY <1>9 DEF Connect, vars, consumerVars, socketVars, historyVars, ProcessInv,
         InRoom, UserOf, TypeOK, Connection
<1>10. ASSUME NEW c \in Sockets, FinishConnection(c) PROVE ProcessInv'
  BY <1>10 DEF FinishConnection, vars, consumerVars, socketVars, historyVars,
         ProcessInv, InRoom, UserOf, TypeOK, Connection
<1>11. ASSUME NEW c \in Sockets, Disconnect(c) PROVE ProcessInv'
  BY <1>11 DEF Disconnect, vars, consumerVars, socketVars, historyVars,
         ProcessInv, InRoom, UserOf, TypeOK, Connection
<1>12. ASSUME UNCHANGED vars PROVE ProcessInv'
  BY <1>12 DEF vars, consumerVars, socketVars, historyVars, ProcessInv, InRoom,
         UserOf
<1> QED
  BY MailEffect, <1>1, <1>2, <1>3, <1>4, <1>5, <1>6, <1>7, <1>8, <1>9,
     <1>10, <1>11, <1>12 DEF Next, ConsumerStep, MailStep, SocketStep

\* The last e-mail of a topic that waits is about the newest message.
LEMMA NewestStays ==
    ASSUME TypeOK, OffsetInv, HandlerInv,
           NewestMailIsLast,
           [Next]_vars
    PROVE  NewestMailIsLast'
<1>1. ASSUME NEW t \in Topics, NEW u \in Users, Publish(t, u)
      PROVE  NewestMailIsLast'
  <2>1. /\ UNCHANGED << position, latest, skipped >>
        /\ log' = [log EXCEPT ![t] = Append(log[t], u)]
    BY <1>1 DEF Publish, consumerVars, historyVars
  <2>2. \A s \in Topics : \A k \in 1..position[s] : log'[s][k] = log[s][k]
    BY <2>1 DEF TypeOK, OffsetInv
  <2> QED
    BY <2>1, <2>2 DEF NewestMailIsLast
<1>2. ASSUME NEW t \in Topics, Handle(t) PROVE NewestMailIsLast'
  <2>1. PICK e : e = << t, position[t] + 1 >>
    OBVIOUS
  <2>2. /\ e \in Event
        /\ e[1] = t /\ e[2] = position[t] + 1
        /\ e[2] <= Len(log[t])
        /\ mails' = mails \cup {[event |-> e, life |-> faults]}
        /\ [event |-> e, life |-> faults] \in Mail
        /\ t \in AwaitedTopics =>
               handling' = TRUE /\ UNCHANGED << position, pushed, unseen >>
        /\ t \notin AwaitedTopics => Return(e) /\ UNCHANGED handling
    BY <1>2, <2>1, HandleEffect
  <2>3. CASE t \in AwaitedTopics
    BY <1>2, <2>2, <2>3 DEF Handle, NewestMailIsLast
  <2>4. CASE t \notin AwaitedTopics
    <3>1. \A s \in Topics \cap AwaitedTopics : position'[s] = position[s]
      BY <2>2, <2>4, ReturnEffect
    <3>2. UNCHANGED << log, latest, skipped >>
      BY <1>2 DEF Handle
    <3> QED
      BY <3>1, <3>2 DEF NewestMailIsLast
  <2> QED
    BY <2>3, <2>4
<1>3. ASSUME NEW m \in mails, Finishes(m) PROVE NewestMailIsLast'
  <2>1. /\ m.event \in Event
        /\ m.event[2] <= Len(log[m.event[1]])
        /\ UserOf(m.event) \in Users
        /\ latest'[m.event[1]][UserOf(m.event)] = m.event[2]
        /\ \A u \in Users : u # UserOf(m.event) =>
               latest'[m.event[1]][u] = latest[m.event[1]][u]
        /\ \A t \in Topics : t # m.event[1] => latest'[t] = latest[t]
    BY <1>3, AnsweredEffect DEF Finishes
  <2>2. UNCHANGED << log, skipped >>
    BY <1>3 DEF Finishes
  <2>3. CASE m.event[1] \notin AwaitedTopics
    <3>1. UNCHANGED position
      BY <1>3, <2>3 DEF Finishes
    <3> QED
      BY <2>1, <2>2, <2>3, <3>1 DEF NewestMailIsLast
  <2>4. CASE m.event[1] \in AwaitedTopics
    <3>1. /\ position'[m.event[1]] = m.event[2]
          /\ m.event[2] = position[m.event[1]] + 1
          /\ \A s \in Topics : s # m.event[1] => position'[s] = position[s]
      BY <1>3, <2>1, <2>4, ReturnEffect DEF Finishes, HandlerInv
    <3>2. position[m.event[1]] \in Nat /\ m.event[1] \in Topics
      BY <2>1 DEF TypeOK, Event
    <3> SUFFICES ASSUME NEW s \in Topics \cap AwaitedTopics, NEW k \in 1..position'[s],
                        << s, k >> \notin skipped
                 PROVE  k <= latest'[s][log[s][k]]
      BY <2>2 DEF NewestMailIsLast
    <3>3. CASE s # m.event[1]
      BY <2>1, <3>1, <3>3 DEF NewestMailIsLast
    <3>4. CASE s = m.event[1] /\ log[s][k] = UserOf(m.event)
      BY <2>1, <3>1, <3>2, <3>4
    <3>5. CASE s = m.event[1] /\ log[s][k] # UserOf(m.event)
      <4>1. k \in 1..position[s]
        <5>1. k # m.event[2]
          BY <3>5 DEF UserOf
        <5> QED
          BY <3>1, <3>2, <3>5, <5>1
      <4>2. log[s][k] \in Users
        BY <4>1 DEF TypeOK, OffsetInv
      <4>3. k <= latest[s][log[s][k]]
        BY <4>1 DEF NewestMailIsLast
      <4> QED
        BY <2>1, <3>5, <4>2, <4>3
    <3> QED
      BY <3>3, <3>4, <3>5
  <2> QED
    BY <2>3, <2>4
<1>4. ASSUME NEW m \in mails, Kills(m) PROVE NewestMailIsLast'
  <2>1. /\ m.event \in Event
        /\ m.event[2] <= Len(log[m.event[1]])
        /\ UserOf(m.event) \in Users
        /\ latest'[m.event[1]][UserOf(m.event)] = m.event[2]
        /\ \A u \in Users : u # UserOf(m.event) =>
               latest'[m.event[1]][u] = latest[m.event[1]][u]
        /\ \A t \in Topics : t # m.event[1] => latest'[t] = latest[t]
    BY <1>4, AnsweredEffect DEF Kills
  <2>2. m.event[1] \notin AwaitedTopics
    BY <1>4 DEF Kills, AwaitedTopics, UncaughtTopics
  <2>3. UNCHANGED << log, position, skipped >>
    BY <1>4 DEF Kills
  <2> QED
    BY <2>1, <2>2, <2>3 DEF NewestMailIsLast
<1>5. ASSUME Commit PROVE NewestMailIsLast'
  BY <1>5 DEF Commit, vars, consumerVars, socketVars, historyVars,
         NewestMailIsLast
<1>6. ASSUME Crash PROVE NewestMailIsLast'
  BY <1>6 DEF Crash, Die, vars, consumerVars, socketVars, historyVars,
         NewestMailIsLast
<1>7. ASSUME Restart PROVE NewestMailIsLast'
  <2>1. /\ UNCHANGED << log, latest >>
        /\ skipped \subseteq skipped'
        /\ position' \in [Topics -> 0..MaxEvents]
        /\ \A t \in Topics, n \in Number :
               << t, n >> \in skipped' \/ n <= position[t] \/ n > position'[t]
    BY <1>7, JoinEffect DEF Restart
  <2> SUFFICES ASSUME NEW t \in Topics \cap AwaitedTopics, NEW n \in 1..position'[t],
                      << t, n >> \notin skipped'
               PROVE  n \in 1..position[t] /\ << t, n >> \notin skipped
    BY <2>1 DEF NewestMailIsLast
  <2>2. n \in Number
    BY <2>1 DEF Number
  <2> QED
    BY <2>1, <2>2 DEF TypeOK
<1>8. ASSUME Rebalance PROVE NewestMailIsLast'
  <2>1. /\ UNCHANGED << log, latest >>
        /\ skipped \subseteq skipped'
        /\ position' \in [Topics -> 0..MaxEvents]
        /\ \A t \in Topics, n \in Number :
               << t, n >> \in skipped' \/ n <= position[t] \/ n > position'[t]
    BY <1>8, JoinEffect DEF Rebalance
  <2> SUFFICES ASSUME NEW t \in Topics \cap AwaitedTopics, NEW n \in 1..position'[t],
                      << t, n >> \notin skipped'
               PROVE  n \in 1..position[t] /\ << t, n >> \notin skipped
    BY <2>1 DEF NewestMailIsLast
  <2>2. n \in Number
    BY <2>1 DEF Number
  <2> QED
    BY <2>1, <2>2 DEF TypeOK
<1>9. ASSUME NEW c \in Sockets, NEW u \in Users \cup {None}, Connect(c, u)
      PROVE  NewestMailIsLast'
  BY <1>9 DEF Connect, vars, consumerVars, socketVars, historyVars,
         NewestMailIsLast
<1>10. ASSUME NEW c \in Sockets, FinishConnection(c) PROVE NewestMailIsLast'
  BY <1>10 DEF FinishConnection, vars, consumerVars, socketVars, historyVars,
         NewestMailIsLast
<1>11. ASSUME NEW c \in Sockets, Disconnect(c) PROVE NewestMailIsLast'
  BY <1>11 DEF Disconnect, vars, consumerVars, socketVars, historyVars,
         NewestMailIsLast
<1>12. ASSUME UNCHANGED vars PROVE NewestMailIsLast'
  BY <1>12 DEF vars, consumerVars, socketVars, historyVars, NewestMailIsLast
<1> QED
  BY MailEffect, <1>1, <1>2, <1>3, <1>4, <1>5, <1>6, <1>7, <1>8, <1>9,
     <1>10, <1>11, <1>12 DEF Next, ConsumerStep, MailStep, SocketStep

\* Whoever is in the room gets the push.
LEMMA PushedStays ==
    ASSUME TypeOK, OffsetInv, HandlerInv, ProcessInv,
           ConnectedUserIsPushed,
           [Next]_vars
    PROVE  ConnectedUserIsPushed'
<1>1. ASSUME NEW t \in Topics, NEW u \in Users, Publish(t, u)
      PROVE  ConnectedUserIsPushed'
  <2>1. PICK n \in Number :
            /\ Len(log[t]) + 1 = n
            /\ unseen' = [c \in Sockets |-> IF t \in PushTopics /\ InRoom(c, u)
                             THEN unseen[c] \cup {<< t, n >>} ELSE unseen[c]]
    BY <1>1 DEF Publish
  <2>2. UNCHANGED << position, skipped >> /\ position[t] < n
    BY <1>1, <2>1 DEF Publish, consumerVars, historyVars, OffsetInv, TypeOK
  <2> QED
    BY <2>1, <2>2 DEF ConnectedUserIsPushed
<1>2. ASSUME NEW t \in Topics, Handle(t) PROVE ConnectedUserIsPushed'
  <2>1. PICK e : e = << t, position[t] + 1 >>
    OBVIOUS
  <2>2. /\ e \in Event
        /\ e[1] = t /\ e[2] = position[t] + 1
        /\ e[2] <= Len(log[t])
        /\ mails' = mails \cup {[event |-> e, life |-> faults]}
        /\ [event |-> e, life |-> faults] \in Mail
        /\ t \in AwaitedTopics =>
               handling' = TRUE /\ UNCHANGED << position, pushed, unseen >>
        /\ t \notin AwaitedTopics => Return(e) /\ UNCHANGED handling
    BY <1>2, <2>1, HandleEffect
  <2>3. CASE t \in AwaitedTopics
    BY <1>2, <2>2, <2>3 DEF Handle, ConnectedUserIsPushed
  <2>4. CASE t \notin AwaitedTopics
    <3>1. /\ position'[t] = e[2]
          /\ \A s \in Topics : s # t => position'[s] = position[s]
          /\ UNCHANGED skipped
          /\ \A c \in Sockets :
                 /\ unseen'[c] \subseteq unseen[c]
                 /\ e[1] \in PushTopics /\ InRoom(c, UserOf(e)) => e \notin unseen'[c]
      BY <1>2, <2>2, <2>4, ReturnEffect, PushEffect DEF Handle
    <3>2. ASSUME NEW c \in Sockets, NEW d \in unseen'[c], d \notin skipped
          PROVE  position'[d[1]] < d[2]
      <4>1. /\ d \in unseen[c]
            /\ d \in Event
            /\ position[d[1]] < d[2]
            /\ d[1] \in PushTopics /\ InRoom(c, UserOf(d))
        BY <3>1, <3>2 DEF ConnectedUserIsPushed, ProcessInv, TypeOK
      <4>2. d # e
        BY <3>1, <3>2, <4>1
      <4> QED
        <5>1. /\ d = << d[1], d[2] >> /\ e = << e[1], e[2] >>
              /\ d[1] \in Topics /\ d[2] \in Nat /\ e[1] \in Topics
          BY <2>2, <4>1 DEF Event, Number
        <5>2. position[e[1]] \in Nat
          BY <5>1 DEF TypeOK
        <5> QED
          BY <2>2, <3>1, <4>1, <4>2, <5>1, <5>2
    <3> QED
      BY <3>1, <3>2 DEF ConnectedUserIsPushed
  <2> QED
    BY <2>3, <2>4
<1>3. ASSUME NEW m \in mails, Finishes(m) PROVE ConnectedUserIsPushed'
  <2>1. /\ m.event \in Event
        /\ m.event[2] <= Len(log[m.event[1]])
    BY <1>3, AnsweredEffect DEF Finishes
  <2>2. CASE m.event[1] \in AwaitedTopics
    <3>1. /\ position'[m.event[1]] = m.event[2]
          /\ m.event[2] = position[m.event[1]] + 1
          /\ \A s \in Topics : s # m.event[1] => position'[s] = position[s]
          /\ UNCHANGED skipped
          /\ \A c \in Sockets :
                 /\ unseen'[c] \subseteq unseen[c]
                 /\ m.event[1] \in PushTopics /\ InRoom(c, UserOf(m.event)) =>
                        m.event \notin unseen'[c]
      BY <1>3, <2>1, <2>2, ReturnEffect, PushEffect DEF Finishes, HandlerInv
    <3>2. ASSUME NEW c \in Sockets, NEW d \in unseen'[c], d \notin skipped
          PROVE  position'[d[1]] < d[2]
      <4>1. /\ d \in unseen[c]
            /\ d \in Event
            /\ position[d[1]] < d[2]
            /\ d[1] \in PushTopics /\ InRoom(c, UserOf(d))
        BY <3>1, <3>2 DEF ConnectedUserIsPushed, ProcessInv, TypeOK
      <4>2. d # m.event
        BY <3>1, <3>2, <4>1
      <4> QED
        <5>1. /\ d = << d[1], d[2] >> /\ m.event = << m.event[1], m.event[2] >>
              /\ d[1] \in Topics /\ d[2] \in Nat /\ m.event[1] \in Topics
          BY <2>1, <4>1 DEF Event, Number
        <5>2. position[m.event[1]] \in Nat
          BY <5>1 DEF TypeOK
        <5> QED
          BY <2>1, <3>1, <4>1, <4>2, <5>1, <5>2
    <3> QED
      BY <3>1, <3>2 DEF ConnectedUserIsPushed
  <2>3. CASE m.event[1] \notin AwaitedTopics
    BY <1>3, <2>3 DEF Finishes, ConnectedUserIsPushed
  <2> QED
    BY <2>2, <2>3
<1>4. ASSUME NEW m \in mails, Kills(m) PROVE ConnectedUserIsPushed'
  <2>1. UNCHANGED << position, skipped >> /\ \A c \in Sockets : unseen'[c] = {}
    BY <1>4 DEF Kills, Die
  <2> QED
    BY <2>1 DEF ConnectedUserIsPushed
<1>5. ASSUME Commit PROVE ConnectedUserIsPushed'
  BY <1>5 DEF Commit, vars, consumerVars, socketVars, historyVars,
         ConnectedUserIsPushed
<1>6. ASSUME Crash PROVE ConnectedUserIsPushed'
  BY <1>6 DEF Crash, Die, vars, consumerVars, socketVars, historyVars,
         ConnectedUserIsPushed
<1>7. ASSUME Restart PROVE ConnectedUserIsPushed'
  <2>1. /\ UNCHANGED unseen
        /\ skipped \subseteq skipped'
        /\ position' \in [Topics -> 0..MaxEvents]
        /\ \A t \in Topics, n \in Number :
               << t, n >> \in skipped' \/ n <= position[t] \/ n > position'[t]
    BY <1>7, JoinEffect DEF Restart, socketVars
  <2>2. ASSUME NEW c \in Sockets, NEW e \in unseen[c], e \notin skipped'
        PROVE  position'[e[1]] < e[2]
    <3>1. e \in Event /\ position[e[1]] < e[2]
      BY <2>1, <2>2 DEF ConnectedUserIsPushed, TypeOK
    <3> QED
      BY <2>1, <2>2, <3>1 DEF TypeOK, Event, Number
  <2> QED
    BY <2>1, <2>2 DEF ConnectedUserIsPushed
<1>8. ASSUME Rebalance PROVE ConnectedUserIsPushed'
  <2>1. /\ UNCHANGED unseen
        /\ skipped \subseteq skipped'
        /\ position' \in [Topics -> 0..MaxEvents]
        /\ \A t \in Topics, n \in Number :
               << t, n >> \in skipped' \/ n <= position[t] \/ n > position'[t]
    BY <1>8, JoinEffect DEF Rebalance, socketVars
  <2>2. ASSUME NEW c \in Sockets, NEW e \in unseen[c], e \notin skipped'
        PROVE  position'[e[1]] < e[2]
    <3>1. e \in Event /\ position[e[1]] < e[2]
      BY <2>1, <2>2 DEF ConnectedUserIsPushed, TypeOK
    <3> QED
      BY <2>1, <2>2, <3>1 DEF TypeOK, Event, Number
  <2> QED
    BY <2>1, <2>2 DEF ConnectedUserIsPushed
<1>9. ASSUME NEW c \in Sockets, NEW u \in Users \cup {None}, Connect(c, u)
      PROVE  ConnectedUserIsPushed'
  BY <1>9 DEF Connect, vars, consumerVars, socketVars, historyVars,
         ConnectedUserIsPushed
<1>10. ASSUME NEW c \in Sockets, FinishConnection(c)
      PROVE  ConnectedUserIsPushed'
  BY <1>10 DEF FinishConnection, vars, consumerVars, socketVars, historyVars,
         ConnectedUserIsPushed
<1>11. ASSUME NEW c \in Sockets, Disconnect(c) PROVE ConnectedUserIsPushed'
  BY <1>11 DEF Disconnect, vars, consumerVars, socketVars, historyVars,
         ConnectedUserIsPushed
<1>12. ASSUME UNCHANGED vars PROVE ConnectedUserIsPushed'
  BY <1>12 DEF vars, consumerVars, socketVars, historyVars,
         ConnectedUserIsPushed
<1> QED
  BY MailEffect, <1>1, <1>2, <1>3, <1>4, <1>5, <1>6, <1>7, <1>8, <1>9,
     <1>10, <1>11, <1>12 DEF Next, ConsumerStep, MailStep, SocketStep

\* Only topics without an offset skip messages.
LEMMA FreshStays ==
    ASSUME TypeOK, OffsetInv, OnlyFreshTopicsSkip,
           [Next]_vars
    PROVE  OnlyFreshTopicsSkip'
<1>1. ASSUME NEW t \in Topics, NEW u \in Users, Publish(t, u)
      PROVE  OnlyFreshTopicsSkip'
  BY <1>1 DEF Publish, vars, consumerVars, socketVars, historyVars,
         OnlyFreshTopicsSkip
<1>2. ASSUME NEW t \in Topics, Handle(t) PROVE OnlyFreshTopicsSkip'
  BY <1>2 DEF Handle, vars, consumerVars, socketVars, historyVars,
         OnlyFreshTopicsSkip
<1>3. ASSUME NEW m \in mails, Finishes(m) PROVE OnlyFreshTopicsSkip'
  BY <1>3 DEF Finishes, vars, consumerVars, socketVars, historyVars,
         OnlyFreshTopicsSkip
<1>4. ASSUME NEW m \in mails, Kills(m) PROVE OnlyFreshTopicsSkip'
  BY <1>4 DEF Kills, Die, vars, consumerVars, socketVars, historyVars,
         OnlyFreshTopicsSkip
<1>5. ASSUME Commit PROVE OnlyFreshTopicsSkip'
  BY <1>5 DEF Commit, vars, consumerVars, socketVars, historyVars,
         OnlyFreshTopicsSkip
<1>6. ASSUME Crash PROVE OnlyFreshTopicsSkip'
  BY <1>6 DEF Crash, Die, vars, consumerVars, socketVars, historyVars,
         OnlyFreshTopicsSkip
<1>7. ASSUME Restart PROVE OnlyFreshTopicsSkip'
  BY <1>7, JoinEffect DEF Restart, vars, consumerVars, socketVars, historyVars,
         OnlyFreshTopicsSkip, TypeOK, OffsetInv, Event
<1>8. ASSUME Rebalance PROVE OnlyFreshTopicsSkip'
  BY <1>8, JoinEffect DEF Rebalance, vars, consumerVars, socketVars,
         historyVars, OnlyFreshTopicsSkip, TypeOK, OffsetInv, Event
<1>9. ASSUME NEW c \in Sockets, NEW u \in Users \cup {None}, Connect(c, u)
      PROVE  OnlyFreshTopicsSkip'
  BY <1>9 DEF Connect, vars, consumerVars, socketVars, historyVars,
         OnlyFreshTopicsSkip
<1>10. ASSUME NEW c \in Sockets, FinishConnection(c) PROVE OnlyFreshTopicsSkip'
  BY <1>10 DEF FinishConnection, vars, consumerVars, socketVars, historyVars,
         OnlyFreshTopicsSkip
<1>11. ASSUME NEW c \in Sockets, Disconnect(c) PROVE OnlyFreshTopicsSkip'
  BY <1>11 DEF Disconnect, vars, consumerVars, socketVars, historyVars,
         OnlyFreshTopicsSkip
<1>12. ASSUME UNCHANGED vars PROVE OnlyFreshTopicsSkip'
  BY <1>12 DEF vars, consumerVars, socketVars, historyVars, OnlyFreshTopicsSkip
<1> QED
  BY MailEffect, <1>1, <1>2, <1>3, <1>4, <1>5, <1>6, <1>7, <1>8, <1>9,
     <1>10, <1>11, <1>12 DEF Next, ConsumerStep, MailStep, SocketStep

-------------------------------------------------------------------------------
(***************************************************************************)
(* The invariant and what follows from it                                  *)
(***************************************************************************)

\* The inductive invariant holds whatever crashes, redeliveries and refusals
\* there are: types, offsets, the handler in progress, what lies behind the
\* consumer, the connections (all of NotificationService and its consumer).
THEOREM Invariant == Spec => []IInv
<1>1. Init => IInv
  <2> SUFFICES ASSUME Init PROVE IInv
    OBVIOUS
  <2>1. TypeOK
    <3>1. /\ log \in [Topics -> Seq(Users)]
          /\ committed \in [Topics -> -1..MaxEvents]
          /\ position \in [Topics -> 0..MaxEvents]
          /\ faults \in 0..MaxFaults
      BY DEF Init
    <3>2. latest \in [Topics -> [Users -> 0..MaxEvents]]
      BY DEF Init
    <3>3. /\ sockets \in [Sockets -> Connection \cup {None}]
          /\ unseen \in [Sockets -> SUBSET Event]
      BY DEF Init
    <3>4. handling \in BOOLEAN /\ up \in BOOLEAN /\ killed \in BOOLEAN
      BY Zenon DEF Init
    <3> QED
      BY <3>1, <3>2, <3>3, <3>4 DEF Init, TypeOK
  <2>2. \A t \in Topics : Len(log[t]) = 0 /\ position[t] = 0
    BY DEF Init
  <2>3. OffsetInv
    BY <2>2 DEF Init, OffsetInv
  <2>4. HandlerInv /\ ProcessInv /\ ConnectedUserIsPushed /\ OnlyFreshTopicsSkip
    BY DEF Init, HandlerInv, ProcessInv, ConnectedUserIsPushed, OnlyFreshTopicsSkip
  <2>5. PassedIsHandled /\ NewestMailIsLast
    BY <2>2 DEF PassedIsHandled, NewestMailIsLast, Event, Number
  <2> QED
    BY <2>1, <2>3, <2>4, <2>5 DEF IInv
<1>2. IInv /\ [Next]_vars => IInv'
  BY TypeStays, OffsetsStay, HandlerStays, PassedStays, ProcessStays, NewestStays,
     PushedStays, FreshStays
     DEF IInv
<1> QED
  BY <1>1, <1>2, PTL DEF Spec

\* A committed message has had its effects, or its e-mail is on its way, unless
\* the process died since (kafkajs commits only what a handler returned from).
THEOREM CommittedHandled == Spec => []CommittedIsHandled
<1>1. IInv => CommittedIsHandled
  <2> SUFFICES ASSUME IInv, NEW e \in Event \ skipped, e[2] <= committed[e[1]]
               PROVE  e[2] <= position[e[1]]
    BY DEF IInv, PassedIsHandled, CommittedIsHandled
  <2> QED
    BY DEF IInv, TypeOK, OffsetInv, Event, Number
<1> QED
  BY <1>1, Invariant, PTL

\* An older e-mail never arrives after a newer one on the topics whose handler
\* waits for the mail server (await sendMail).
THEOREM NewestLast == Spec => []NewestMailIsLast
<1>1. IInv => NewestMailIsLast
  BY DEF IInv
<1> QED
  BY <1>1, Invariant, PTL

\* A client in its room gets every push the consumer has passed (sendToUser
\* behind the providers, which swallow the error of the e-mail).
THEOREM ConnectedPushed == Spec => []ConnectedUserIsPushed
<1>1. IInv => ConnectedUserIsPushed
  BY DEF IInv
<1> QED
  BY <1>1, Invariant, PTL

===============================================================================
