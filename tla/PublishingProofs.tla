-------------------------- MODULE PublishingProofs --------------------------
(***************************************************************************)
(* The safety of Publishing for any set of processes, sessions and runs.   *)
(* The inductive invariant ties the packet in flight to the progress of    *)
(* its process: as publish() blocks for the PUBACK, a process that ended   *)
(* without an exception has nothing left in flight, so nothing of it can   *)
(* reach the broker after a later process has written the same topic.      *)
(*                                                                         *)
(* Then, for any inputs and environments of the hooks: what they publish   *)
(* of private text, and that a name given inside Codex goes to their       *)
(* topic.                                                                  *)
(***************************************************************************)
EXTENDS HookInputs, TLAPS

\* The packet in flight is that of the message sent last.
InFlight ==
    \A p \in Publishers :
        /\ wire[p] = "publish" => sent[p] = applied[p] + 1
        /\ wire[p] = "puback"  => sent[p] = applied[p]
        /\ pc[p] \in {"idle", "reading", "connecting"} =>
               sent[p] = 0 /\ applied[p] = 0 /\ wire[p] = "none" /\ ~failed[p]

\* A process that has not failed has waited for everything it has sent.
Blocking ==
    \A p \in Publishers :
        /\ pc[p] = "sending" => wire[p] = "none" /\ applied[p] = sent[p]
        /\ pc[p] = "closing" => failed[p]
        /\ pc[p] \in {"leaving", "exited"} /\ ~failed[p] =>
               wire[p] = "none" /\ applied[p] = Len(Script(p))

\* Exit status 0 hides an error only of a hook that is not strict (main).
Reported ==
    \A p \in Publishers : pc[p] = "exited" /\ rc[p] = 0 => ~ReportsError(p)

\* What is retained was written by its publisher.
RetainedWritten ==
    \A t \in Topics : retained[t] # Null => Wrote(retained[t], t)

\* The event of a hook goes out first.
EventFirst ==
    \A p \in Hooks : applied[p] >= 1 => p \in announced

\* The earlier runs a process knows of have ended, and it is not one of them.
BeforeSettled ==
    \A p \in Publishers : before[p] \subseteq Settled \ {p}

IInv ==
    /\ TypeOK
    /\ InFlight
    /\ Blocking
    /\ Reported
    /\ RetainedWritten
    /\ EventFirst
    /\ BeforeSettled
    /\ NoStaleOverwrite

USE DEF At, Goto, Raise

-----------------------------------------------------------------------------

\* The script of a process changes only when it finds that its input is invalid.
LEMMA ScriptKept ==
    ASSUME UNCHANGED input, NEW p
    PROVE  Script(p)' = Script(p)
BY DEF Script, EventScript, ProfileScript, EventRead, KeyRead

\* And even then it stays a script (publish_event).
LEMMA ScriptStaysFinite ==
    ASSUME NEW p
    PROVE  Len(Script(p))' \in Nat
BY DEF Script, EventScript, ProfileScript

\* A script is a finite sequence of messages, and a retained message goes to a
\* topic of Topics.
LEMMA ScriptMessages ==
    ASSUME NEW p \in Publishers
    PROVE  /\ Len(Script(p)) \in Nat
           /\ \A i \in 1 .. Len(Script(p)) :
                  /\ Script(p)[i].retain \in {"yes", "no"}
                  /\ Script(p)[i].retain = "yes" =>
                         /\ Script(p)[i].topic \in Topics
                         /\ Script(p)[i] = Persistent(Script(p)[i].topic)
<1> DEFINE k == IF p \in Hooks THEN KeyRead(p) ELSE Key[p]
<1>1. k \in Keys
  BY PublishingAssumption DEF KeyRead
<1>2. /\ StateTopic(k) \in Topics /\ SessionHealthTopic(k) \in Topics
      /\ ProfileTopic(k) \in Topics /\ ClientHealthTopic(p) \in Topics
  BY <1>1 DEF Topics
<1> HIDE DEF k
<1>3. \A t : /\ Persistent(t).topic = t /\ Persistent(t).retain = "yes"
             /\ Transient(t).retain = "no"
  BY DEF Persistent, Transient
<1>4. CASE Script(p) = << Transient(EventTopic(k)), Persistent(StateTopic(k)),
                          Persistent(SessionHealthTopic(k)),
                          Persistent(ClientHealthTopic(p)) >>
  <2>1. /\ Len(Script(p)) = 4
        /\ Script(p)[1] = Transient(EventTopic(k))
        /\ Script(p)[2] = Persistent(StateTopic(k))
        /\ Script(p)[3] = Persistent(SessionHealthTopic(k))
        /\ Script(p)[4] = Persistent(ClientHealthTopic(p))
    BY <1>4
  <2>2. \A i \in 1 .. 4 : i = 1 \/ i = 2 \/ i = 3 \/ i = 4
    OBVIOUS
  <2> QED
    BY <1>2, <1>3, <2>1, <2>2
<1>5. CASE Script(p) = << Transient(EventTopic(k)), Persistent(ClientHealthTopic(p)) >>
  <2>1. /\ Len(Script(p)) = 2
        /\ Script(p)[1] = Transient(EventTopic(k))
        /\ Script(p)[2] = Persistent(ClientHealthTopic(p))
    BY <1>5
  <2>2. \A i \in 1 .. 2 : i = 1 \/ i = 2
    OBVIOUS
  <2> QED
    BY <1>2, <1>3, <2>1, <2>2
<1>6. CASE Script(p) = << Persistent(ProfileTopic(k)), Persistent(ClientHealthTopic(p)) >>
  <2>1. /\ Len(Script(p)) = 2
        /\ Script(p)[1] = Persistent(ProfileTopic(k))
        /\ Script(p)[2] = Persistent(ClientHealthTopic(p))
    BY <1>6
  <2>2. \A i \in 1 .. 2 : i = 1 \/ i = 2
    OBVIOUS
  <2> QED
    BY <1>2, <1>3, <2>1, <2>2
<1> QED
  BY <1>4, <1>5, <1>6 DEF Script, EventScript, ProfileScript, k

\* The script of a hook starts with its event, the only message not retained.
LEMMA EventLeads ==
    ASSUME NEW p \in Publishers, NEW i \in 1 .. Len(Script(p))
    PROVE  /\ Script(p)[i].retain = "no" <=> (p \in Hooks /\ i = 1)
           /\ Len(Script(p)) >= 2
<1> DEFINE k == IF p \in Hooks THEN KeyRead(p) ELSE Key[p]
<1> HIDE DEF k
<1>1. CASE p \in Hooks
  <2>1. CASE Script(p) = << Transient(EventTopic(k)), Persistent(StateTopic(k)),
                            Persistent(SessionHealthTopic(k)),
                            Persistent(ClientHealthTopic(p)) >>
    BY <1>1, <2>1 DEF Transient, Persistent
  <2>2. CASE Script(p) = << Transient(EventTopic(k)), Persistent(ClientHealthTopic(p)) >>
    BY <1>1, <2>2 DEF Transient, Persistent
  <2> QED
    BY <1>1, <2>1, <2>2 DEF Script, EventScript, k
<1>2. CASE p \notin Hooks
  <2>1. Script(p) = << Persistent(ProfileTopic(k)), Persistent(ClientHealthTopic(p)) >>
    BY <1>2 DEF Script, ProfileScript, k
  <2> QED
    BY <1>2, <2>1 DEF Persistent
<1> QED
  BY <1>1, <1>2

\* Only a hook writes a state or a health, and it writes the state after its
\* event and before the health of the same session.
LEMMA StateBeforeHealth ==
    ASSUME NEW p \in Publishers, NEW key \in Keys, NEW i \in 1 .. Len(Script(p))
    PROVE  /\ Script(p)[i] = Persistent(StateTopic(key)) => p \in Hooks /\ i = 2
           /\ Script(p)[i] = Persistent(SessionHealthTopic(key)) =>
                  i = 3 /\ Script(p)[2] = Persistent(StateTopic(key))
<1> DEFINE k == IF p \in Hooks THEN KeyRead(p) ELSE Key[p]
<1> HIDE DEF k
<1>1. CASE p \in Hooks /\ Script(p) = << Transient(EventTopic(k)), Persistent(StateTopic(k)),
                          Persistent(SessionHealthTopic(k)),
                          Persistent(ClientHealthTopic(p)) >>
  BY <1>1 DEF Transient, Persistent, EventTopic, StateTopic, SessionHealthTopic, ClientHealthTopic
<1>2. CASE Script(p) = << Transient(EventTopic(k)), Persistent(ClientHealthTopic(p)) >>
  BY <1>2 DEF Transient, Persistent, EventTopic, StateTopic, SessionHealthTopic, ClientHealthTopic
<1>3. CASE Script(p) = << Persistent(ProfileTopic(k)), Persistent(ClientHealthTopic(p)) >>
  BY <1>3 DEF Persistent, ProfileTopic, StateTopic, SessionHealthTopic, ClientHealthTopic
<1> QED
  BY <1>1, <1>2, <1>3 DEF Script, EventScript, ProfileScript, k

-----------------------------------------------------------------------------
(* Type correctness.                                                       *)

\* The invariant holds before any process has started: nothing is in flight and
\* nothing is retained.
THEOREM InitInvariant == Init => IInv
<1> SUFFICES ASSUME Init PROVE IInv
  OBVIOUS
<1>1. TypeOK
  BY ScriptMessages DEF Init, TypeOK
<1>2. InFlight /\ Blocking /\ Reported /\ BeforeSettled
  BY DEF Init, InFlight, Blocking, Reported, BeforeSettled
<1>3. RetainedWritten /\ EventFirst /\ NoStaleOverwrite
  BY DEF Init, RetainedWritten, EventFirst, NoStaleOverwrite, Publishers
<1> QED
  BY <1>1, <1>2, <1>3 DEF IInv

\* The naming tool retains everything it publishes (main of session_name.py).
LEMMA NamersRetain ==
    ASSUME NEW p \in Publishers, p \notin Hooks
    PROVE  \A i \in 1 .. Len(Script(p)) : Script(p)[i].retain = "yes"
<1>1. /\ Len(Script(p)) = 2
      /\ Script(p)[1] = Persistent(ProfileTopic(Key[p]))
      /\ Script(p)[2] = Persistent(ClientHealthTopic(p))
  BY DEF Script, ProfileScript
<1>2. \A i \in 1 .. 2 : i = 1 \/ i = 2
  OBVIOUS
<1>3. \A t : Persistent(t).retain = "yes"
  BY DEF Persistent
<1> QED
  BY <1>1, <1>2, <1>3

\* Every step keeps the types, and no process sends more than its script.
LEMMA TypeStep ==
    ASSUME TypeOK, InFlight, [Next]_vars
    PROVE  TypeOK'
<1> USE DEF TypeOK, process, broker
<1>15. ASSUME NEW p \in Publishers, ReadInvalid(p) PROVE TypeOK'
  <2>1. sent'[p] = 0 /\ applied'[p] = 0 /\ Len(Script(p))' \in Nat
    BY <1>15, ScriptStaysFinite DEF ReadInvalid, InFlight
  <2>2. ASSUME NEW q \in Publishers PROVE applied'[q] <= sent'[q] /\ sent'[q] <= Len(Script(q))'
    <3>1. CASE q = p
      BY <2>1, <3>1
    <3>2. CASE q # p
      <4>1. Script(q)' = Script(q)
        BY <1>15, <3>2 DEF ReadInvalid, Script, EventScript, ProfileScript, EventRead, KeyRead
      <4> QED
        BY <1>15, <4>1 DEF ReadInvalid
    <3> QED
      BY <3>1, <3>2
  <2> QED
    BY <1>15, <2>2 DEF ReadInvalid
<1>16. ASSUME NEW p \in Publishers, Read(p) PROVE TypeOK'
  BY <1>16, ScriptKept DEF Read
<1>17. ASSUME NEW p \in Publishers, ReadError(p) PROVE TypeOK'
  BY <1>17, ScriptKept DEF ReadError
<1>1. ASSUME NEW p \in Publishers, Start(p) PROVE TypeOK'
  BY <1>1, ScriptKept DEF Start, Settled
<1>2. ASSUME NEW p \in Publishers, Connect(p) PROVE TypeOK'
  BY <1>2, ScriptKept DEF Connect
<1>3. ASSUME NEW p \in Publishers, ConnectError(p) PROVE TypeOK'
  BY <1>3, ScriptKept DEF ConnectError
<1>4. ASSUME NEW p \in Publishers, Send(p) PROVE TypeOK'
  BY <1>4, ScriptKept, ScriptMessages DEF Send, MoreToSend
<1>5. ASSUME NEW p \in Publishers, PubAck(p) PROVE TypeOK'
  BY <1>5, ScriptKept DEF PubAck
<1>6. ASSUME NEW p \in Publishers, PublishError(p) PROVE TypeOK'
  BY <1>6, ScriptKept DEF PublishError
<1>7. ASSUME NEW p \in Publishers, Disconnect(p) PROVE TypeOK'
  BY <1>7, ScriptKept DEF Disconnect
<1>8. ASSUME NEW p \in Publishers, DisconnectError(p) PROVE TypeOK'
  BY <1>8, ScriptKept DEF DisconnectError
<1>9. ASSUME NEW p \in Publishers, Exit(p) PROVE TypeOK'
  BY <1>9, ScriptKept DEF Exit
<1>10. ASSUME NEW p \in Publishers, Kill(p) PROVE TypeOK'
  BY <1>10, ScriptKept DEF Kill
<1>11. ASSUME NEW p \in Publishers, BrokerReceive(p) PROVE TypeOK'
  <2>1. sent[p] \in 1 .. Len(Script(p))
    BY <1>11, ScriptMessages DEF BrokerReceive, InFlight
  <2>2. retained' \in [Topics -> Publishers \cup {Null}]
    BY <1>11, <2>1, ScriptMessages DEF BrokerReceive, Incoming
  <2>3. announced' \subseteq Hooks
    <3>1. p \in Hooks \/ Incoming(p).retain = "yes"
      BY <2>1, NamersRetain DEF Incoming
    <3> QED
      BY <1>11, <3>1 DEF BrokerReceive
  <2> QED
    BY <1>11, <2>2, <2>3, ScriptKept DEF BrokerReceive
<1>12. ASSUME NEW p \in Publishers, Lose(p) PROVE TypeOK'
  BY <1>12, ScriptKept DEF Lose
<1>13. ASSUME NEW t \in Topics, Clear(t) PROVE TypeOK'
  BY <1>13, ScriptKept DEF Clear
<1>14. CASE UNCHANGED vars
  BY <1>14, ScriptKept DEF vars
<1> QED
  BY <1>1, <1>2, <1>3, <1>4, <1>5, <1>6, <1>7, <1>8, <1>9, <1>10, <1>11, <1>12,
     <1>13, <1>14, <1>15, <1>16, <1>17 DEF Next, Begin, Run

\* Every step keeps the packet in flight that of the last message, and keeps a
\* process that has not failed blocked on it.
LEMMA BlockingStep ==
    ASSUME TypeOK, InFlight, Blocking, Reported, [Next]_vars
    PROVE  InFlight' /\ Blocking' /\ Reported'
<1> DEFINE Goal == InFlight' /\ Blocking' /\ Reported'
<1> USE DEF TypeOK, InFlight, Blocking, Reported, process, broker, ReportsError
<1>15. ASSUME NEW p \in Publishers, ReadInvalid(p) PROVE Goal
  <2>1. ASSUME NEW q \in Publishers, q # p PROVE Script(q)' = Script(q)
    BY <1>15, <2>1 DEF ReadInvalid, Script, EventScript, ProfileScript, EventRead, KeyRead
  <2>2. pc'[p] = "connecting" /\ \A q \in Publishers : q # p => pc'[q] = pc[q]
    BY <1>15 DEF ReadInvalid
  <2> QED
    BY <1>15, <2>1, <2>2 DEF ReadInvalid
<1>16. ASSUME NEW p \in Publishers, Read(p) PROVE Goal
  BY <1>16, ScriptKept DEF Read
<1>17. ASSUME NEW p \in Publishers, ReadError(p) PROVE Goal
  BY <1>17, ScriptKept DEF ReadError
<1>1. ASSUME NEW p \in Publishers, Start(p) PROVE Goal
  BY <1>1, ScriptKept DEF Start
<1>2. ASSUME NEW p \in Publishers, Connect(p) PROVE Goal
  BY <1>2, ScriptKept DEF Connect
<1>3. ASSUME NEW p \in Publishers, ConnectError(p) PROVE Goal
  BY <1>3, ScriptKept DEF ConnectError
<1>4. ASSUME NEW p \in Publishers, Send(p) PROVE Goal
  BY <1>4, ScriptKept, ScriptMessages DEF Send, MoreToSend
<1>5. ASSUME NEW p \in Publishers, PubAck(p) PROVE Goal
  BY <1>5, ScriptKept DEF PubAck
<1>6. ASSUME NEW p \in Publishers, PublishError(p) PROVE Goal
  BY <1>6, ScriptKept DEF PublishError
<1>7. ASSUME NEW p \in Publishers, Disconnect(p) PROVE Goal
  BY <1>7, ScriptKept, ScriptMessages DEF Disconnect, ReadyToDisconnect, MoreToSend
<1>8. ASSUME NEW p \in Publishers, DisconnectError(p) PROVE Goal
  BY <1>8, ScriptKept DEF DisconnectError
<1>9. ASSUME NEW p \in Publishers, Exit(p) PROVE Goal
  BY <1>9, ScriptKept DEF Exit
<1>10. ASSUME NEW p \in Publishers, Kill(p) PROVE Goal
  BY <1>10, ScriptKept DEF Kill
<1>11. ASSUME NEW p \in Publishers, BrokerReceive(p) PROVE Goal
  BY <1>11, ScriptKept, ScriptMessages DEF BrokerReceive
<1>12. ASSUME NEW p \in Publishers, Lose(p) PROVE Goal
  BY <1>12, ScriptKept DEF Lose
<1>13. ASSUME NEW t \in Topics, Clear(t) PROVE Goal
  BY <1>13, ScriptKept DEF Clear
<1>14. CASE UNCHANGED vars
  BY <1>14, ScriptKept DEF vars
<1> QED
  BY <1>1, <1>2, <1>3, <1>4, <1>5, <1>6, <1>7, <1>8, <1>9, <1>10, <1>11, <1>12,
     <1>13, <1>14, <1>15, <1>16, <1>17 DEF Next, Begin, Run

-----------------------------------------------------------------------------
(* The order of what is retained.                                          *)

\* A process that has published everything and ended stays as it is, so what
\* was settled when a process started stays settled.
LEMMA BeforeStep ==
    ASSUME TypeOK, BeforeSettled, [Next]_vars
    PROVE  BeforeSettled'
<1> USE DEF TypeOK, BeforeSettled, process, broker, Settled
<1>1. ASSUME NEW p \in Publishers, Start(p) PROVE BeforeSettled'
  BY <1>1 DEF Start
<1>2. ASSUME NEW p \in Publishers, Begin(p) \/ Run(p) PROVE BeforeSettled'
  BY <1>2 DEF Begin, Read, ReadInvalid, ReadError, Run, Connect, ConnectError, Send, PubAck, PublishError, Disconnect,
              DisconnectError, ReadyToDisconnect, Exit
<1>3. ASSUME NEW p \in Publishers, Kill(p) PROVE BeforeSettled'
  BY <1>3 DEF Kill
<1>4. ASSUME NEW p \in Publishers, BrokerReceive(p) \/ Lose(p) PROVE BeforeSettled'
  BY <1>4 DEF BrokerReceive, Lose
<1>5. ASSUME NEW t \in Topics, Clear(t) PROVE BeforeSettled'
  BY <1>5 DEF Clear
<1>6. CASE UNCHANGED vars
  BY <1>6 DEF vars
<1> QED
  BY <1>1, <1>2, <1>3, <1>4, <1>5, <1>6 DEF Next

\* What the broker takes from p is the next message of p's script: it adds that
\* topic, and nothing else, to what p has written.
LEMMA ReceiveWrites ==
    ASSUME TypeOK, InFlight, NEW p \in Publishers, BrokerReceive(p)
    PROVE  /\ sent[p] \in 1 .. Len(Script(p))
           /\ \A q \in Publishers, t \in Topics :
                  Wrote(q, t)' <=> Wrote(q, t) \/ (q = p /\ Incoming(p) = Persistent(t))
           /\ \A q \in Publishers, t \in Topics : Wrote(q, t) => Wrote(q, t)'
<1>1. sent[p] \in 1 .. Len(Script(p)) /\ applied[p] = sent[p] - 1 /\ applied[p] \in Nat
  BY ScriptMessages DEF TypeOK, InFlight, BrokerReceive
<1>2. applied' = [applied EXCEPT ![p] = sent[p]] /\ \A q : Script(q)' = Script(q)
  BY ScriptKept DEF BrokerReceive, process
<1>3. \A i : i \in 1 .. sent[p] <=> i \in 1 .. applied[p] \/ i = sent[p]
  BY <1>1
<1>4. ASSUME NEW q \in Publishers, NEW t \in Topics
      PROVE  Wrote(q, t)' <=> Wrote(q, t) \/ (q = p /\ Incoming(p) = Persistent(t))
  <2>1. CASE q = p
    <3>1. applied'[q] = sent[p] /\ Script(q)' = Script(q)
      BY <1>2, <2>1 DEF TypeOK
    <3>2. Wrote(q, t)' <=> \E i \in 1 .. sent[p] : Script(p)[i] = Persistent(t)
      BY <2>1, <3>1 DEF Wrote
    <3> QED
      BY <1>3, <2>1, <3>2 DEF Wrote, Incoming
  <2>2. CASE q # p
    BY <1>2, <2>2 DEF Wrote, TypeOK
  <2> QED
    BY <2>1, <2>2
<1> QED
  BY <1>1, <1>4

\* The invariants on retained documents hold after any step.
LEMMA RetainedStep ==
    ASSUME IInv, [Next]_vars
    PROVE  RetainedWritten' /\ EventFirst' /\ NoStaleOverwrite'
<1> DEFINE Goal == RetainedWritten' /\ EventFirst' /\ NoStaleOverwrite'
<1> USE DEF IInv
<1>1. ASSUME UNCHANGED broker, UNCHANGED before,
             \A q \in Publishers : applied[q] = 0 \/ Script(q)' = Script(q)
      PROVE  Goal
  <2>1. \A q \in Publishers, t \in Topics : Wrote(q, t)' <=> Wrote(q, t)
    BY <1>1 DEF broker, Wrote
  <2>2. \A t \in Topics : retained[t] # Null => retained[t] \in Publishers
    BY DEF TypeOK
  <2> QED
    BY <1>1, <2>1, <2>2 DEF broker, RetainedWritten, EventFirst, NoStaleOverwrite
<1>2. ASSUME NEW p \in Publishers, Start(p) PROVE Goal
  <2>1. /\ UNCHANGED broker /\ before' = [before EXCEPT ![p] = Settled]
        /\ \A q : Script(q)' = Script(q)
    BY <1>2, ScriptKept DEF Start
  <2>2. applied[p] = 0
    BY <1>2 DEF Start, InFlight
  <2>3. RetainedWritten' /\ EventFirst'
    BY <2>1 DEF broker, RetainedWritten, EventFirst, Wrote
  <2>4. ASSUME NEW t \in Topics, NEW q \in Publishers, Wrote(q, t)'
        PROVE  retained'[t] \notin before'[q]
    <3>1. Wrote(q, t) /\ q # p
      BY <2>1, <2>2, <2>4 DEF Wrote, broker
    <3> QED
      BY <2>1, <3>1 DEF NoStaleOverwrite, broker, TypeOK
  <2> QED
    BY <2>3, <2>4 DEF NoStaleOverwrite
<1>3. ASSUME NEW p \in Publishers, BrokerReceive(p) PROVE Goal
  <2>1. /\ sent[p] \in 1 .. Len(Script(p)) /\ wire[p] = "publish"
        /\ before' = before
        /\ applied' = [applied EXCEPT ![p] = sent[p]]
    BY <1>3, ReceiveWrites DEF BrokerReceive
  <2>2. CASE Incoming(p).retain = "yes"
    <3> DEFINE u == Incoming(p).topic
    <3>1. u \in Topics /\ Incoming(p) = Persistent(u) /\ announced' = announced
      BY <1>3, <2>1, <2>2, ScriptMessages DEF Incoming, BrokerReceive
    <3>2. retained' = [retained EXCEPT ![u] = p]
      BY <1>3, <2>2 DEF BrokerReceive
    <3> HIDE DEF u
    <3>3. RetainedWritten'
      BY <1>3, <3>1, <3>2, ReceiveWrites DEF RetainedWritten, TypeOK
    <3>4. EventFirst'
      <4>1. p \in Hooks => sent[p] # 1
        BY <2>1, <2>2, EventLeads DEF Incoming
      <4> QED
        BY <1>3, <2>1, <3>1, <4>1 DEF EventFirst, TypeOK, InFlight, Publishers
    <3>5. ASSUME NEW t \in Topics, NEW q \in Publishers, Wrote(q, t)'
          PROVE  retained'[t] \notin before'[q]
      <4>1. p \notin before[q]
        BY <2>1 DEF BeforeSettled, Settled, Blocking
      <4>2. CASE t = u
        BY <2>1, <3>2, <4>1, <4>2 DEF TypeOK
      <4>3. CASE t # u
        <5>1. Wrote(q, t)
          BY <1>3, <3>1, <3>5, <4>3, ReceiveWrites DEF Persistent
        <5> QED
          BY <2>1, <3>2, <4>3, <5>1 DEF NoStaleOverwrite, TypeOK
      <4> QED
        BY <4>2, <4>3
    <3> QED
      BY <3>3, <3>4, <3>5 DEF NoStaleOverwrite
  <2>3. CASE Incoming(p).retain # "yes"
    <3>1. retained' = retained /\ announced' = announced \cup {p}
      BY <1>3, <2>3 DEF BrokerReceive
    <3>2. \A q \in Publishers, t \in Topics : Wrote(q, t)' <=> Wrote(q, t)
      BY <1>3, <2>3, ReceiveWrites DEF Persistent
    <3> QED
      BY <2>1, <3>1, <3>2 DEF RetainedWritten, EventFirst, NoStaleOverwrite, TypeOK, Publishers
  <2> QED
    BY <2>2, <2>3
<1>4. ASSUME NEW t \in Topics, Clear(t) PROVE Goal
  <2>1. /\ retained' = [retained EXCEPT ![t] = Null]
        /\ UNCHANGED <<applied, announced, before>>
    BY <1>4 DEF Clear
  <2>3. \A q : Script(q)' = Script(q)
    BY <1>4, ScriptKept DEF Clear, process
  <2>2. \A q \in Publishers : Null \notin before[q]
    BY PublishingAssumption DEF TypeOK
  <2> QED
    BY <2>1, <2>2, <2>3 DEF RetainedWritten, EventFirst, NoStaleOverwrite, Wrote, TypeOK
<1>5. ASSUME NEW p \in Publishers, Run(p) \/ Kill(p) \/ Lose(p) \/ Read(p) \/ ReadError(p)
      PROVE  Goal
  <2>1. UNCHANGED broker /\ UNCHANGED before /\ UNCHANGED input
    BY <1>5 DEF Run, Connect, ConnectError, Send, PubAck, PublishError, Disconnect,
                DisconnectError, Exit, Kill, Lose, Read, ReadError, process
  <2> QED
    BY <1>1, <2>1, ScriptKept
<1>6. ASSUME NEW p \in Publishers, ReadInvalid(p) PROVE Goal
  <2>1. UNCHANGED broker /\ UNCHANGED before /\ applied[p] = 0
    BY <1>6 DEF ReadInvalid, InFlight
  <2>2. \A q \in Publishers : q # p => Script(q)' = Script(q)
    BY <1>6 DEF ReadInvalid, TypeOK, Script, EventScript, ProfileScript, EventRead, KeyRead
  <2> QED
    BY <1>1, <2>1, <2>2
<1>7. CASE UNCHANGED vars
  BY <1>1, <1>7, ScriptKept DEF vars, process
<1> QED
  BY <1>2, <1>3, <1>4, <1>5, <1>6, <1>7 DEF Next, Begin

-----------------------------------------------------------------------------
(* The theorems.                                                           *)

\* The inductive invariant: every action of the processes, the broker and the app
\* keeps what the lemmas on the steps say of it.
THEOREM Inductive == Spec => []IInv
<1>1. IInv /\ [Next]_vars => IInv'
  BY TypeStep, BlockingStep, BeforeStep, RetainedStep DEF IInv
<1> QED
  BY InitInvariant, <1>1, PTL DEF Spec

\* The processes, the packets in flight and the broker's store keep their types,
\* and no process sends more than its script (hook_emitter.py, publisher.py).
THEOREM TypeCorrect == Spec => []TypeOK
BY Inductive, PTL DEF IInv

\* A retained document is never put back to that of a run that had published
\* everything before the later writer started (publish() in mqtt.py).
THEOREM NoStale == Spec => []NoStaleOverwrite
BY Inductive, PTL DEF IInv

\* A retained state was announced by its event (publish_event in publisher.py).
THEOREM Announced == Spec => []StateAnnounced
<1>1. IInv => StateAnnounced
  <2> SUFFICES ASSUME IInv, NEW k \in Keys, retained[StateTopic(k)] # Null
               PROVE  retained[StateTopic(k)] \in announced
    BY DEF StateAnnounced
  <2> DEFINE p == retained[StateTopic(k)]
  <2>1. StateTopic(k) \in Topics
    BY DEF Topics
  <2>2. p \in Publishers /\ Wrote(p, StateTopic(k))
    BY <2>1 DEF IInv, TypeOK, RetainedWritten
  <2> HIDE DEF p
  <2>3. PICK i \in 1 .. applied[p] : Script(p)[i] = Persistent(StateTopic(k))
    BY <2>2 DEF Wrote
  <2>4. i \in 1 .. Len(Script(p)) /\ applied[p] \in Nat
    BY <2>2, <2>3, ScriptMessages DEF IInv, TypeOK
  <2>5. p \in Hooks /\ i = 2
    BY <2>2, <2>3, <2>4, StateBeforeHealth
  <2>6. p \in announced
    BY <2>3, <2>4, <2>5 DEF IInv, EventFirst
  <2> QED
    BY <2>6 DEF p
<1> QED
  BY Inductive, <1>1, PTL

\* Hooks of one session that run one after the other leave a state and a health
\* that belong together (publish_event in publisher.py).
THEOREM Consistent == Spec => []SplitOnlyByOverlap
<1>1. IInv => SplitOnlyByOverlap
  <2> SUFFICES ASSUME IInv, NEW k \in Keys, NEW p \in Publishers, NEW q \in Publishers,
                      retained[StateTopic(k)] = p, retained[SessionHealthTopic(k)] = q,
                      Wrote(p, SessionHealthTopic(k))
               PROVE  p \notin before[q] /\ q \notin before[p]
    BY DEF SplitOnlyByOverlap
  <2>1. StateTopic(k) \in Topics /\ SessionHealthTopic(k) \in Topics
    BY DEF Topics
  <2>2. q \notin before[p]
    BY <2>1 DEF IInv, NoStaleOverwrite
  <2>3. Wrote(q, SessionHealthTopic(k))
    BY <2>1, PublishingAssumption DEF IInv, RetainedWritten
  <2>4. PICK i \in 1 .. applied[q] : Script(q)[i] = Persistent(SessionHealthTopic(k))
    BY <2>3 DEF Wrote
  <2>5. i \in 1 .. Len(Script(q)) /\ applied[q] \in Nat
    BY <2>4, ScriptMessages DEF IInv, TypeOK
  <2>6. 2 \in 1 .. applied[q] /\ Script(q)[2] = Persistent(StateTopic(k))
    BY <2>4, <2>5, StateBeforeHealth
  <2>7. Wrote(q, StateTopic(k))
    BY <2>6 DEF Wrote
  <2>8. p \notin before[q]
    BY <2>1, <2>7 DEF IInv, NoStaleOverwrite
  <2> QED
    BY <2>2, <2>8
<1> QED
  BY Inductive, <1>1, PTL

\* Exit status 0 of a strict hook or of the naming tool means that the broker
\* took every message; main() in session_name.py and hook_emitter.py.
THEOREM SuccessIsPublished == Spec => []SuccessMeansPublished
<1>1. IInv => SuccessMeansPublished
  BY PublishingAssumption DEF IInv, Blocking, Reported, SuccessMeansPublished, ReportsError, Publishers
<1> QED
  BY Inductive, <1>1, PTL

-----------------------------------------------------------------------------
(* What the published event of a hook tells.                               *)

Previews == {"promptPreview", "lastAssistantMessagePreview", "toolInputPreview"}

\* A piece of the payload is either no preview, or a redacted one that was asked for.
PayloadPiece(p, env) ==
    /\ p = Piece(p.at, p.of, p.form)
    /\ p.of \in PrivateFields => Permitted(p, env)
    /\ p.at \in Previews =>
           /\ IncludeText(env) /\ p.form = "redacted"
           /\ p.of \in {"prompt", "last_assistant_message", "tool_input"}

\* A piece that is no preview and tells nothing private, or only as a hash or as keys.
LEMMA PlainPiece ==
    ASSUME NEW at, NEW field, NEW form, NEW env,
           at \notin Previews, field \notin PrivateFields \/ form \in {"hash", "keys"}
    PROVE  PayloadPiece(Piece(at, field, form), env)
BY DEF PayloadPiece, Piece, Permitted

\* A text is published as a hash, and as a preview only if asked for (hook_payload).
LEMMA HashedPieces ==
    ASSUME NEW text, NEW field \in {"prompt", "last_assistant_message"},
           NEW hash \in {"promptHash", "lastAssistantMessageHash"},
           NEW preview \in {"promptPreview", "lastAssistantMessagePreview"},
           NEW env, NEW p \in Hashed(text, field, hash, preview, env)
    PROVE  PayloadPiece(p, env)
<1>1. CASE p = Piece(hash, field, "hash")
  <2>1. hash \notin Previews
    BY DEF Previews
  <2> QED
    BY <1>1, <2>1, PlainPiece
<1>2. CASE IncludeText(env) /\ p = Piece(preview, field, "redacted")
  <2>1. p = Piece(p.at, p.of, p.form) /\ p.of = field /\ p.form = "redacted"
    BY <1>2 DEF Piece
  <2>2. field \notin {"tool_response", "transcript_path"}
    OBVIOUS
  <2> QED
    BY <1>2, <2>1, <2>2 DEF PayloadPiece, Permitted
<1> QED
  BY <1>1, <1>2 DEF Hashed

\* The payload holds private text only where the flags ask for it (hook_payload).
LEMMA PayloadPieces ==
    ASSUME NEW raw, NEW env, NEW p \in HookPayload(raw, env)
    PROVE  PayloadPiece(p, env)
<1>1. CASE p = Piece("rawKeys", "input", "keys")
  <2>1. "rawKeys" \notin Previews
    BY DEF Previews
  <2> QED
    BY <1>1, <2>1, PlainPiece
<1>2. CASE \E f \in CopiedFields \cap DOMAIN raw : p = Piece(f, f, "redacted")
  <2>1. PICK f \in CopiedFields : p = Piece(f, f, "redacted")
    BY <1>2
  <2>2. f \notin PrivateFields /\ f \notin Previews
    BY DEF CopiedFields, PrivateFields, Previews
  <2> QED
    BY <2>1, <2>2, PlainPiece
<1>3. CASE p = Piece("toolInputKeys", "tool_input", "keys")
  <2>1. "toolInputKeys" \notin Previews
    BY DEF Previews
  <2> QED
    BY <1>3, <2>1, PlainPiece
<1>4. CASE IncludeText(env) /\ p = Piece("toolInputPreview", "tool_input", "redacted")
  <2>1. p = Piece(p.at, p.of, p.form) /\ p.of = "tool_input" /\ p.form = "redacted"
    BY <1>4 DEF Piece
  <2> QED
    BY <1>4, <2>1 DEF PayloadPiece, Permitted
<1>5. CASE p = Piece("toolCommandHash", "tool_input", "hash")
  <2>1. "toolCommandHash" \notin Previews
    BY DEF Previews
  <2> QED
    BY <1>5, <2>1, PlainPiece
<1>6. CASE p \in Hashed(Field(raw, "prompt"), "prompt", "promptHash", "promptPreview", env)
  BY <1>6, HashedPieces
<1>7. CASE p \in Hashed(LastMessage(raw), "last_assistant_message", "lastAssistantMessageHash",
                        "lastAssistantMessagePreview", env)
  BY <1>7, HashedPieces
<1>8. CASE IncludeRaw(env) /\ \E f \in DOMAIN raw : p = Piece("raw", f, "redacted")
  <2>1. PICK f \in DOMAIN raw : p = Piece("raw", f, "redacted")
    BY <1>8
  <2>2. p = Piece(p.at, p.of, p.form) /\ p.at = "raw" /\ p.form = "redacted"
    BY <2>1 DEF Piece
  <2>3. p.at \notin Previews
    BY <2>2 DEF Previews
  <2> QED
    BY <1>8, <2>2, <2>3 DEF PayloadPiece, Permitted
<1> QED
  BY <1>1, <1>2, <1>3, <1>4, <1>5, <1>6, <1>7, <1>8 DEF HookPayload

\* The preview of the stream item is made of a preview in the payload (stream_preview).
LEMMA PreviewPieces ==
    ASSUME NEW raw, NEW env, NEW payload, \A p \in payload : PayloadPiece(p, env),
           NEW q \in StreamPreview(raw, payload)
    PROVE  q.of \in PrivateFields => Permitted(q, env)
<1> DEFINE at(where) == {p \in payload : p.at = where}
<1> DEFINE form == IF "command" \in ToolInput(raw).keys THEN "redacted" ELSE "keys"
<1>1. \/ \E p \in payload : p.at \in Previews /\ q = [p EXCEPT !.at = "preview"]
      \/ \E p \in payload : /\ p.at = "toolInputPreview"
                            /\ q = [[p EXCEPT !.form = form] EXCEPT !.at = "preview"]
  <2>1. CASE at("promptPreview") # {}
    <3>1. \E p \in at("promptPreview") : q = [p EXCEPT !.at = "preview"]
      BY <2>1 DEF StreamPreview
    <3> QED
      BY <3>1 DEF Previews
  <2>2. CASE at("promptPreview") = {} /\ at("lastAssistantMessagePreview") # {}
    <3>1. \E p \in at("lastAssistantMessagePreview") : q = [p EXCEPT !.at = "preview"]
      BY <2>2 DEF StreamPreview
    <3> QED
      BY <3>1 DEF Previews
  <2>3. CASE at("promptPreview") = {} /\ at("lastAssistantMessagePreview") = {}
    <3>1. \E r \in {[p EXCEPT !.form = form] : p \in at("toolInputPreview")} :
              q = [r EXCEPT !.at = "preview"]
      BY <2>3 DEF StreamPreview
    <3> QED
      BY <3>1
  <2> QED
    BY <2>1, <2>2, <2>3
<1>2. form \in {"redacted", "keys"}
  OBVIOUS
<1> HIDE DEF form
<1>3. ASSUME NEW p \in payload, p.at \in Previews, q = [p EXCEPT !.at = "preview"]
      PROVE  Permitted(q, env)
  <2>1. PayloadPiece(p, env)
    OBVIOUS
  <2>2. PICK a, f, m : p = [at |-> a, of |-> f, form |-> m]
    BY <2>1 DEF PayloadPiece, Piece
  <2>3. q.of = p.of /\ q.form = p.form
    BY <1>3, <2>2
  <2>4. IncludeText(env) /\ p.form = "redacted" /\ p.of \in {"prompt", "last_assistant_message", "tool_input"}
    BY <1>3, <2>1 DEF PayloadPiece
  <2> QED
    BY <2>3, <2>4 DEF Permitted
<1>4. ASSUME NEW p \in payload, p.at = "toolInputPreview",
             q = [[p EXCEPT !.form = form] EXCEPT !.at = "preview"]
      PROVE  Permitted(q, env)
  <2>1. PayloadPiece(p, env)
    OBVIOUS
  <2>2. PICK a, f, m : p = [at |-> a, of |-> f, form |-> m]
    BY <2>1 DEF PayloadPiece, Piece
  <2>3. q.of = p.of /\ q.form = form
    BY <1>4, <2>2
  <2>4. IncludeText(env) /\ p.of \in {"prompt", "last_assistant_message", "tool_input"}
    BY <1>4, <2>1 DEF PayloadPiece, Previews
  <2> QED
    BY <1>2, <2>3, <2>4 DEF Permitted
<1> QED
  BY <1>1, <1>3, <1>4

\* No way out of a hook's input leads past the flags: not the payload, nor the summary,
\* nor the stream item with its preview (normalize_hook_event).
LEMMA ContentPermitted ==
    ASSUME NEW raw, NEW env,
           NEW p \in NormalizeHookEvent(raw, env).content, p.of \in PrivateFields
    PROVE  Permitted(p, env)
<1> DEFINE event == CanonicalHookEvent(raw)
<1> DEFINE payload == HookPayload(raw, env)
<1>1. \/ p \in HookSummary(event, raw)
      \/ p \in payload
      \/ p \in StreamItem(raw, payload)
      \/ \E f \in {"turn_id", "model"} : p = Piece(f, f, "plain")
  BY DEF NormalizeHookEvent
<1>2. CASE p \in HookSummary(event, raw)
  <2>1. \A f \in SummaryFields(event) : f \in {"tool_name", "trigger", "source"}
    BY DEF SummaryFields
  <2>2. PICK f \in SummaryFields(event) : p = Piece("summary", f, "redacted")
    BY <1>2 DEF HookSummary, Given
  <2> QED
    BY <2>1, <2>2 DEF PrivateFields, Piece
<1>3. CASE p \in payload
  BY <1>3, PayloadPieces DEF PayloadPiece
<1>4. CASE p \in StreamItem(raw, payload)
  <2>1. CASE p \in StreamPreview(raw, payload)
    <3>1. \A r \in payload : PayloadPiece(r, env)
      BY PayloadPieces
    <3> QED
      BY <2>1, <3>1, PreviewPieces
  <2>2. CASE \E f \in {"tool_name", "trigger", "agent_type"} : p = Piece("subject", f, "plain")
    BY <2>2 DEF PrivateFields, Piece
  <2> QED
    BY <1>4, <2>1, <2>2 DEF StreamItem, Given
<1>5. CASE \E f \in {"turn_id", "model"} : p = Piece(f, f, "plain")
  BY <1>5 DEF PrivateFields, Piece
<1> QED
  BY <1>1, <1>2, <1>3, <1>4, <1>5

\* Whatever a hook reads, in whatever environment, private text goes out only as the
\* flags allow, and never unredacted (normalize_hook_event).
THEOREM Private == Spec => []PrivateByDefault
<1>1. Disclosing = {}
  BY ContentPermitted DEF Disclosing
<1>2. PrivateByDefault
  BY <1>1 DEF PrivateByDefault
<1> QED
  BY <1>2, PTL

-----------------------------------------------------------------------------
(* Where hooks and the naming tool publish.                                *)

\* Segments are made of segments, and stay the same from the second time on
\* (topic_segment).
LEMMA SegmentsSettle ==
    ASSUME NEW t \in DOMAIN Segment, NEW default \in {"workspace", "unknown"}
    PROVE  TopicSegment(TopicSegment(TopicSegment(t, default), default), default)
               = TopicSegment(TopicSegment(t, default), default)
BY SegmentSettles

\* Whatever an input and an environment of one session are, the hook and the naming tool
\* arrive at the same topic (session_id_from, workspace_id_for, main of the naming tool).
LEMMA SameTopic ==
    ASSUME NEW h \in Hooks, NEW raw \in Inputs[h], NEW env \in Environments, SamePlace(env)
    PROVE  ~Elsewhere(raw, env)
<1> DEFINE event  == NormalizeHookEvent(raw, env)
<1> DEFINE named  == NamedSession(env)
<1> DEFINE thread == Thread(env)
<1> DEFINE name   == WorkspaceName(env, Directory)
<1>1. /\ thread # "" /\ GivenSession(raw) \in {"", thread} /\ ConfiguredSession(env) = ""
      /\ CwdFromRaw(raw, env) = Directory
      /\ thread \in DOMAIN Segment /\ name \in DOMAIN Segment
      /\ WorkspaceName(env, Getcwd(env)) = name
  BY OneSession DEF SamePlace
<1>2. GivenSession(<< >>) = ""
  BY DEF GivenSession, FirstOf, Field, Truthy, Absent, Text
<1>3. /\ \A cwd : SessionIdFrom(raw, env, cwd) = TopicSegment(thread, "unknown")
      /\ \A cwd : SessionIdFrom(<< >>, env, cwd) = TopicSegment(thread, "unknown")
  BY <1>1, <1>2 DEF SessionIdFrom, Or
<1>4. /\ event.workspaceId = TopicSegment(name, "workspace")
      /\ event.sessionId = TopicSegment(thread, "unknown")
  BY <1>1, <1>3 DEF NormalizeHookEvent, WorkspaceIdFor
<1>5. /\ NamedWorkspace(env) = TopicSegment(TopicSegment(name, "workspace"), "workspace")
      /\ named = TopicSegment(TopicSegment(thread, "unknown"), "unknown")
  BY <1>1, <1>3 DEF NamedWorkspace, NamedSession, WorkspaceIdFor
<1> HIDE DEF event, named, thread, name
<1>6. TopicKey(event.workspaceId, event.sessionId) = TopicKey(NamedWorkspace(env), named)
  BY <1>1, <1>4, <1>5, SegmentsSettle DEF TopicKey
<1>7. Segment[event.sessionId] = event.sessionId => event.sessionId = named
  <2>1. event.sessionId # ""
    BY <1>4 DEF TopicSegment, Or
  <2> QED
    BY <2>1, <1>4, <1>5 DEF TopicSegment, Or
<1> QED
  BY <1>6, <1>7 DEF Elsewhere, event, named

\* A name given inside Codex with nothing but the name goes to the topic and the session
\* of the hooks, for any inputs and environments of one session whose directory has one
\* workspace.
THEOREM NamesArrive == Spec => []NameReachesSession
<1>1. Misnamed = {}
  BY SameTopic DEF Misnamed
<1>2. TypeOK => NameReachesSession
  BY <1>1 DEF NameReachesSession, TypeOK
<1> QED
  BY TypeCorrect, <1>2, PTL

=============================================================================
