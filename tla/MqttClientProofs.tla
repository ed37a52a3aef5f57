-------------------------- MODULE MqttClientProofs --------------------------
(***************************************************************************)
(* The Python MQTT client for any number of packet ids, any keep-alive and *)
(* any bounds: packet ids stay in range, publish() returns only when the   *)
(* broker has the message, silence is bridged with PINGREQ again and       *)
(* again, and on_message gets the messages in order.                       *)
(*                                                                         *)
(* A publisher has at most one packet under way, in one direction.  For a  *)
(* subscriber that knows where packets begin, the messages on their way to *)
(* it continue what it has handled without a gap, and while the connection *)
(* is up they go on to the last one sent.  For one that has ever lost its  *)
(* place, only this remains: the messages on their way come after all the  *)
(* real ones it has handled.                                               *)
(***************************************************************************)
EXTENDS MqttClient, SequenceLemmas

UpTypes == {"connect", "publish", "puback", "subscribe", "pingreq"}

UpPackets   == {p \in [type : UpTypes, id : Nat] : p.type \in {"publish", "subscribe"} => p.id \in Ids}
DownPackets == [type : {"connack", "puback", "suback", "rejected", "pingresp"}, id : Nat]
Messages    == [type : {"publish"}, id : Nat, n : Nat]
Receivable  == DownPackets \cup Messages

\* The types of everything TypeOK leaves open.
Shapes ==
    /\ up \in Seq(UpPackets)
    /\ down \in Seq(Receivable)
    /\ calls \in Seq(Nat) /\ taken \in Seq(Nat) /\ acked \in Seq(Nat)
    /\ sent \in Seq(Messages) /\ delivered \in Seq(Messages)
    /\ pc = "handling" => handling \in Messages

\* What the client waits for bounds how long it has neither sent nor read.
Silence ==
    pc \in {"looping", "handling"} =>
        wait <= KeepAlive /\ (silent <= wait \/ quiet <= wait)

Counted(s) == \A i \in 1 .. Len(s) : s[i] = i

\* A publisher and its broker.
Counts ==
    /\ Counted(calls) /\ Counted(taken)
    /\ pc \in Ended => link = "closed"
    /\ role = "publisher" =>
        /\ subscribed = "no"
        /\ pc \notin {"suback", "looping", "handling"}
        /\ pc \in {"new", "idle"} => up = << >> /\ down = << >> /\ Len(taken) = Len(calls)
        /\ pc = "connack" =>
            /\ Len(taken) = Len(calls)
            /\ \/ up = << Connect >> /\ down = << >>
               \/ up = << >> /\ (down = << >> \/ \E c \in {0, 5} : down = << ConnAck(c) >>)
        /\ pc = "puback" =>
            \/ up = << Publish(packetId) >> /\ down = << >> /\ Len(calls) = Len(taken) + 1
            \/ /\ up = << >> /\ (down = << >> \/ down = << PubAck(packetId) >>)
               /\ Len(taken) = Len(calls)
        /\ Len(taken) = Len(calls) \/ Len(calls) = Len(taken) + 1

\* How many messages have been taken out of the connection.
Got == IF pc = "handling" THEN Len(delivered) + 1 ELSE Len(delivered)

\* Where in d messages are.
MessagesAt(d) == {i \in 1 .. Len(d) : d[i].type = "publish"}

\* The messages in d continue the first got of s, without a gap.
Continues(d, got, s) ==
    /\ \A i \in MessagesAt(d) : d[i].n \in got + 1 .. Len(s) /\ d[i] = s[d[i].n]
    /\ \A i, j \in MessagesAt(d) : i < j => d[i].n < d[j].n
    /\ \A i \in MessagesAt(d) : \A n \in got + 1 .. d[i].n :
           \E k \in MessagesAt(d) : k <= i /\ d[k].n = n

\* They go on to the end of s.
Completes(d, got, s) == \A n \in got + 1 .. Len(s) : \E k \in MessagesAt(d) : d[k].n = n

Order ==
    /\ \A i \in 1 .. Len(sent) : sent[i].n = i
    /\ framing = "kept" =>
        /\ IsPrefix(delivered, sent)
        /\ pc = "handling" => Len(delivered) < Len(sent) /\ handling = sent[Len(delivered) + 1]
        /\ pc \notin Ended =>
            /\ Continues(down, Got, sent)
            /\ link = "up" => Completes(down, Got, sent)

\* What has been taken out of the connection.
Out == IF pc = "handling" THEN Append(delivered, handling) ELSE delivered

\* The real messages in t are messages of s, in their order, and none twice.
Genuine(t, s) ==
    \A i \in 1 .. Len(t) : t[i].n # 0 =>
        /\ t[i].n \in 1 .. Len(s) /\ t[i] = s[t[i].n]
        /\ \A j \in 1 .. Len(t) : i < j /\ t[j].n # 0 => t[i].n < t[j].n

\* The messages in d are messages of s, in their order, and come after those of t.
Follows(d, t, s) ==
    \A i \in MessagesAt(d) :
        /\ d[i].n \in 1 .. Len(s) /\ d[i] = s[d[i].n]
        /\ \A j \in MessagesAt(d) : i < j => d[i].n < d[j].n
        /\ \A j \in 1 .. Len(t) : t[j].n < d[i].n

\* With or without framing.
Rising ==
    /\ Genuine(Out, sent)
    /\ pc \notin Ended => Follows(down, Out, sent)

\* All that was sent and not skipped has been acknowledged: while nothing the client has
\* sent is stuck behind a lost connection, acknowledgements are complete.
Acknowledging ==
    /\ \A i \in 1 .. Len(sent) : sent[i].id \in {0, i}
    /\ link = "closed" => pc \in Ended
    /\ framing = "kept" /\ link # "closed" /\ (link = "up" \/ up = << >>) =>
           AcksSent(acked, up) = Done(delivered)
    /\ AcksFollowHandling

MInv == TypeOK /\ Shapes /\ Silence /\ Counts /\ Order /\ Rising /\ Acknowledging

USE DEF client, network, history, clocks

-----------------------------------------------------------------------------
(* Type correctness.                                                       *)

\* The next packet from the broker (_read_packet).
LEMMA HeadOfDown ==
    ASSUME Shapes, down # << >>
    PROVE  /\ Head(down) \in Receivable
           /\ Tail(down) \in Seq(Receivable)
           /\ Head(down).type = "publish" => Head(down) \in Messages
<1>1. /\ Head(down) \in Receivable
      /\ Tail(down) \in Seq(Receivable)
  BY HeadTailProperties DEF Shapes
<1> QED
  BY <1>1 DEF DownPackets, Receivable

\* What can be sent (_send).
LEMMA SendTypes ==
    ASSUME Shapes, NEW packet \in UpPackets, Send(packet)
    PROVE  up' \in Seq(UpPackets) /\ silent' = 0
<1>1. Append(up, packet) \in Seq(UpPackets)
  BY AppendProperties DEF Shapes
<1> QED
  BY <1>1 DEF Send, Shapes

\* Packet ids wrap from the largest to 1, never to 0 (_allocate_packet_id).
LEMMA AllocateTypes ==
    ASSUME TypeOK, Allocate
    PROVE  nextId' \in Ids /\ packetId' \in Ids /\ packetId' = nextId /\ nextId \in Ids
BY MqttClientAssumption DEF TypeOK, Allocate, Ids

\* Packets of the broker.
LEMMA BrokerPackets ==
    /\ \A i \in Nat : ConnAck(i) \in DownPackets /\ PubAck(i) \in DownPackets
    /\ \A i \in Nat : SubAck(i) \in DownPackets /\ Rejected(i) \in DownPackets
    /\ PingResp \in DownPackets
BY DEF ConnAck, PubAck, SubAck, Rejected, PingResp, DownPackets

\* Packets of the client.
LEMMA ClientPackets ==
    /\ Connect \in UpPackets /\ PingReq \in UpPackets
    /\ \A i \in Nat : PubAck(i) \in UpPackets
    /\ \A i \in Ids : Publish(i) \in UpPackets /\ Subscribe(i) \in UpPackets
BY DEF Connect, PingReq, PubAck, Publish, Subscribe, UpPackets, UpTypes, Ids

\* The type invariant's clause about ids follows from the shape of up.
LEMMA IdsOfUp ==
    ASSUME NEW s \in Seq(UpPackets)
    PROVE  \A i \in 1 .. Len(s) : s[i].type \in {"publish", "subscribe"} => s[i].id \in Ids
<1> SUFFICES ASSUME NEW i \in 1 .. Len(s)
             PROVE  s[i].type \in {"publish", "subscribe"} => s[i].id \in Ids
  OBVIOUS
<1>1. s[i] \in UpPackets
  BY ElementOfSeq
<1> QED
  BY <1>1 DEF UpPackets

\* Everything of TypeOK but the ids under way, and Shapes.
Typed ==
    /\ role \in {"publisher", "subscriber"}
    /\ pc \in Reading \cup Ended \cup {"new", "idle", "handling"}
    /\ nextId \in Ids
    /\ packetId \in Ids \cup {0}
    /\ partial \in {"yes", "no"}
    /\ framing \in {"kept", "lost", "regained"}
    /\ link \in {"up", "lost", "broken", "closed"}
    /\ subscribed \in {"no", "pending", "yes"}
    /\ wait \in Nat
    /\ silent \in Nat
    /\ quiet \in Nat
    /\ Shapes

\* It is the same as the type invariant and Shapes.
LEMMA TypedMeans == Typed <=> TypeOK /\ Shapes
BY IdsOfUp DEF Typed, TypeOK, Shapes

-----------------------------------------------------------------------------
(* The order of messages.                                                  *)

\* What is known of a message among packets.
LEMMA MessagesTyped ==
    ASSUME NEW d \in Seq(Receivable), NEW i \in MessagesAt(d)
    PROVE  i \in Nat /\ 1 <= i /\ i <= Len(d) /\ d[i] \in Messages /\ d[i].n \in Nat
<1>1. Len(d) \in Nat /\ i \in 1 .. Len(d) /\ d[i].type = "publish"
  BY LenProperties DEF MessagesAt
<1>2. d[i] \in Receivable
  BY <1>1, ElementOfSeq
<1>3. d[i] \in Messages
  BY <1>1, <1>2 DEF Receivable, DownPackets
<1> QED
  BY <1>1, <1>3 DEF Messages

\* Reading a packet moves the others up (_read_packet).
LEMMA TailShifts ==
    ASSUME NEW d \in Seq(Receivable), d # << >>
    PROVE  /\ \A i \in MessagesAt(Tail(d)) : i + 1 \in MessagesAt(d) /\ Tail(d)[i] = d[i + 1]
           /\ \A k \in MessagesAt(d) : k # 1 => k - 1 \in MessagesAt(Tail(d)) /\ Tail(d)[k - 1] = d[k]
<1>1. /\ Tail(d) \in Seq(Receivable) /\ Len(Tail(d)) = Len(d) - 1 /\ Len(d) \in Nat
      /\ \A i \in 1 .. Len(Tail(d)) : Tail(d)[i] = d[i + 1]
  BY HeadTailProperties, LenProperties
<1> QED
  BY <1>1 DEF MessagesAt

\* A packet that is no message makes no difference to the order.
LEMMA TailSkips ==
    ASSUME NEW d \in Seq(Receivable), NEW got \in Nat, NEW s \in Seq(Messages),
           d # << >>, Head(d).type # "publish", Continues(d, got, s)
    PROVE  /\ Continues(Tail(d), got, s)
           /\ Completes(d, got, s) => Completes(Tail(d), got, s)
<1> DEFINE e == Tail(d)
<1>1. 1 \notin MessagesAt(d)
  <2>1. Head(d) = d[1]
    BY HeadTailProperties
  <2> QED
    BY <2>1 DEF MessagesAt
<1>2. \A i \in MessagesAt(e) : i \in Nat /\ i + 1 \in MessagesAt(d) /\ e[i] = d[i + 1]
  BY TailShifts, HeadTailProperties, MessagesTyped
<1>3. \A k \in MessagesAt(d) : k \in Nat /\ k - 1 \in MessagesAt(e) /\ e[k - 1] = d[k]
  BY <1>1, TailShifts, MessagesTyped
<1> HIDE DEF e
<1>4. \A i \in MessagesAt(e) : e[i].n \in got + 1 .. Len(s) /\ e[i] = s[e[i].n]
  BY <1>2 DEF Continues
<1>5. \A i, j \in MessagesAt(e) : i < j => e[i].n < e[j].n
  BY <1>2 DEF Continues
<1>6. \A i \in MessagesAt(e) : \A n \in got + 1 .. e[i].n : \E k \in MessagesAt(e) : k <= i /\ e[k].n = n
  <2> SUFFICES ASSUME NEW i \in MessagesAt(e), NEW n \in got + 1 .. e[i].n
               PROVE  \E k \in MessagesAt(e) : k <= i /\ e[k].n = n
    OBVIOUS
  <2>1. PICK k \in MessagesAt(d) : k <= i + 1 /\ d[k].n = n
    BY <1>2 DEF Continues
  <2>2. k - 1 \in MessagesAt(e) /\ e[k - 1] = d[k] /\ k \in Nat /\ i \in Nat
    BY <1>2, <1>3
  <2>3. k - 1 <= i
    BY <2>1, <2>2
  <2> QED
    BY <2>1, <2>2, <2>3
<1>7. Completes(d, got, s) => Completes(e, got, s)
  BY <1>3 DEF Completes
<1> QED
  BY <1>4, <1>5, <1>6, <1>7 DEF Continues, e

\* The first message to come is the next one, and the others continue it.
LEMMA TailTakes ==
    ASSUME NEW d \in Seq(Receivable), NEW got \in Nat, NEW s \in Seq(Messages),
           d # << >>, Head(d).type = "publish", Continues(d, got, s)
    PROVE  /\ got < Len(s) /\ Head(d) = s[got + 1]
           /\ Continues(Tail(d), got + 1, s)
           /\ Completes(d, got, s) => Completes(Tail(d), got + 1, s)
<1> DEFINE e == Tail(d)
<1>0. Head(d) = d[1] /\ Len(d) \in Nat /\ Len(d) > 0 /\ Len(s) \in Nat
  BY HeadTailProperties, LenProperties, EmptySeq
<1>1. 1 \in MessagesAt(d)
  BY <1>0 DEF MessagesAt
<1>2. \A i \in MessagesAt(e) : i \in Nat /\ 1 <= i /\ i + 1 \in MessagesAt(d) /\ e[i] = d[i + 1]
  BY TailShifts, HeadTailProperties, MessagesTyped
<1>3. \A k \in MessagesAt(d) : k \in Nat /\ 1 <= k /\ (k # 1 => k - 1 \in MessagesAt(e) /\ e[k - 1] = d[k])
  BY TailShifts, MessagesTyped
<1> HIDE DEF e
<1>4. d[1].n \in got + 1 .. Len(s) /\ d[1] = s[d[1].n]
  BY <1>1 DEF Continues
<1>5. d[1].n = got + 1
  <2>1. PICK k \in MessagesAt(d) : k <= 1 /\ d[k].n = got + 1
    BY <1>1, <1>4 DEF Continues
  <2> QED
    BY <2>1, <1>3
<1>6. \A i \in MessagesAt(e) : e[i].n \in got + 2 .. Len(s) /\ e[i] = s[e[i].n]
  <2> SUFFICES ASSUME NEW i \in MessagesAt(e) PROVE e[i].n \in got + 2 .. Len(s) /\ e[i] = s[e[i].n]
    OBVIOUS
  <2>1. i + 1 \in MessagesAt(d) /\ e[i] = d[i + 1] /\ 1 < i + 1
    BY <1>2
  <2>2. d[i + 1].n \in got + 1 .. Len(s) /\ d[i + 1] = s[d[i + 1].n] /\ d[1].n < d[i + 1].n
    BY <2>1, <1>1 DEF Continues
  <2> QED
    BY <2>1, <2>2, <1>5, <1>0
<1>7. \A i, j \in MessagesAt(e) : i < j => e[i].n < e[j].n
  BY <1>2 DEF Continues
<1>8. \A i \in MessagesAt(e) : \A n \in got + 2 .. e[i].n : \E k \in MessagesAt(e) : k <= i /\ e[k].n = n
  <2> SUFFICES ASSUME NEW i \in MessagesAt(e), NEW n \in got + 2 .. e[i].n
               PROVE  \E k \in MessagesAt(e) : k <= i /\ e[k].n = n
    OBVIOUS
  <2>1. n \in got + 1 .. d[i + 1].n /\ n # got + 1
    BY <1>2, <1>6
  <2>2. PICK k \in MessagesAt(d) : k <= i + 1 /\ d[k].n = n
    BY <2>1, <1>2 DEF Continues
  <2>3. k # 1
    BY <2>1, <2>2, <1>5
  <2>4. k - 1 \in MessagesAt(e) /\ e[k - 1] = d[k] /\ k \in Nat /\ i \in Nat
    BY <2>3, <1>2, <1>3
  <2>5. k - 1 <= i
    BY <2>2, <2>4
  <2> QED
    BY <2>2, <2>4, <2>5
<1>9. Completes(d, got, s) => Completes(e, got + 1, s)
  <2> SUFFICES ASSUME Completes(d, got, s), NEW n \in got + 2 .. Len(s)
               PROVE  \E k \in MessagesAt(e) : e[k].n = n
    BY DEF Completes
  <2>1. n \in got + 1 .. Len(s) /\ n # got + 1
    BY <1>0
  <2>2. PICK k \in MessagesAt(d) : d[k].n = n
    BY <2>1 DEF Completes
  <2> QED
    BY <2>1, <2>2, <1>3, <1>5
<1>10. Continues(e, got + 1, s)
  <2>1. got + 1 + 1 = got + 2
    OBVIOUS
  <2> QED
    BY <2>1, <1>6, <1>7, <1>8 DEF Continues
<1> QED
  BY <1>0, <1>4, <1>5, <1>9, <1>10 DEF e

\* What the network cuts off leaves no gap behind.
LEMMA CutContinues ==
    ASSUME NEW d \in Seq(Receivable), NEW got \in Nat, NEW s \in Seq(Messages),
           Continues(d, got, s), NEW m \in 0 .. Len(d)
    PROVE  SubSeq(d, 1, m) \in Seq(Receivable) /\ Continues(SubSeq(d, 1, m), got, s)
<1> DEFINE e == SubSeq(d, 1, m)
<1>1. Len(d) \in Nat /\ m \in Nat
  BY LenProperties
<1>2. e \in Seq(Receivable) /\ Len(e) = m /\ \A i \in 1 .. m : e[i] = d[i]
  <2>1. \A i \in 1 .. m : d[i] \in Receivable
    BY <1>1, ElementOfSeq
  <2> QED
    BY <1>1, <2>1, SubSeqProperties
<1> HIDE DEF e
<1>3. \A i \in MessagesAt(e) : i \in Nat /\ i <= m /\ i \in MessagesAt(d) /\ e[i] = d[i]
  BY <1>1, <1>2 DEF MessagesAt
<1>4. \A k \in MessagesAt(d) : k \in Nat /\ (k <= m => k \in MessagesAt(e) /\ e[k] = d[k])
  BY <1>1, <1>2 DEF MessagesAt
<1>5. \A i \in MessagesAt(e) : e[i].n \in got + 1 .. Len(s) /\ e[i] = s[e[i].n]
  BY <1>3 DEF Continues
<1>6. \A i, j \in MessagesAt(e) : i < j => e[i].n < e[j].n
  BY <1>3 DEF Continues
<1>7. \A i \in MessagesAt(e) : \A n \in got + 1 .. e[i].n : \E k \in MessagesAt(e) : k <= i /\ e[k].n = n
  <2> SUFFICES ASSUME NEW i \in MessagesAt(e), NEW n \in got + 1 .. e[i].n
               PROVE  \E k \in MessagesAt(e) : k <= i /\ e[k].n = n
    OBVIOUS
  <2>1. PICK k \in MessagesAt(d) : k <= i /\ d[k].n = n
    BY <1>3 DEF Continues
  <2>2. k \in MessagesAt(e) /\ e[k] = d[k]
    BY <2>1, <1>1, <1>3, <1>4
  <2> QED
    BY <2>1, <2>2
<1> QED
  BY <1>2, <1>5, <1>6, <1>7 DEF Continues, e

\* Where messages are after a packet is put behind the others.
LEMMA AppendShifts ==
    ASSUME NEW d \in Seq(Receivable), NEW p \in Receivable
    PROVE  /\ Append(d, p) \in Seq(Receivable) /\ Len(Append(d, p)) = Len(d) + 1
           /\ Append(d, p)[Len(d) + 1] = p
           /\ \A i \in 1 .. Len(d) : Append(d, p)[i] = d[i]
           /\ p.type # "publish" => MessagesAt(Append(d, p)) = MessagesAt(d)
           /\ p.type = "publish" => MessagesAt(Append(d, p)) = MessagesAt(d) \cup {Len(d) + 1}
<1>1. /\ Append(d, p) \in Seq(Receivable) /\ Len(Append(d, p)) = Len(d) + 1 /\ Len(d) \in Nat
      /\ Append(d, p)[Len(d) + 1] = p
      /\ \A i \in 1 .. Len(d) : Append(d, p)[i] = d[i]
  BY AppendProperties, LenProperties
<1>2. 1 .. Len(d) + 1 = 1 .. Len(d) \cup {Len(d) + 1}
  BY <1>1
<1> QED
  BY <1>1, <1>2 DEF MessagesAt

\* An answer of the broker makes no difference to the order (BrokerReads).
LEMMA AnswerContinues ==
    ASSUME NEW d \in Seq(Receivable), NEW got \in Nat, NEW s \in Seq(Messages),
           NEW p \in Receivable, p.type # "publish", Continues(d, got, s)
    PROVE  /\ Continues(Append(d, p), got, s)
           /\ Completes(d, got, s) => Completes(Append(d, p), got, s)
<1> DEFINE e == Append(d, p)
<1>1. MessagesAt(e) = MessagesAt(d)
  BY AppendShifts
<1>2. \A i \in MessagesAt(d) : e[i] = d[i]
  BY AppendShifts DEF MessagesAt
<1> HIDE DEF e
<1>3. Continues(e, got, s)
  BY <1>1, <1>2 DEF Continues
<1>4. Completes(d, got, s) => Completes(e, got, s)
  BY <1>1, <1>2 DEF Completes
<1> QED
  BY <1>3, <1>4 DEF e

\* A message of the broker continues those before it (BrokerPublishes).
LEMMA MessageContinues ==
    ASSUME NEW d \in Seq(Receivable), NEW got \in Nat, NEW s \in Seq(Messages),
           NEW p \in Messages, p.n = Len(s) + 1, got <= Len(s),
           Continues(d, got, s), Completes(d, got, s)
    PROVE  Continues(Append(d, p), got, Append(s, p)) /\ Completes(Append(d, p), got, Append(s, p))
<1> DEFINE e == Append(d, p)
<1> DEFINE t == Append(s, p)
<1> DEFINE last == Len(d) + 1
<1>1. Len(d) \in Nat /\ Len(s) \in Nat
  BY LenProperties
<1>2. p \in Receivable /\ p.type = "publish"
  BY DEF Receivable, Messages
<1>3. MessagesAt(e) = MessagesAt(d) \cup {last} /\ e[last] = p
  BY <1>2, AppendShifts
<1>4. \A i \in MessagesAt(d) : i \in Nat /\ i < last /\ e[i] = d[i]
  BY <1>1, <1>2, AppendShifts DEF MessagesAt
<1>5. /\ Len(t) = Len(s) + 1 /\ t[Len(s) + 1] = p
      /\ \A i \in 1 .. Len(s) : t[i] = s[i]
  BY AppendProperties
<1>6. last \in Nat
  BY <1>1
<1> HIDE DEF e, t, last
<1>7. \A i \in MessagesAt(d) : d[i].n \in got + 1 .. Len(s) /\ d[i] = s[d[i].n]
  BY DEF Continues
<1>8. \A i \in MessagesAt(e) : e[i].n \in got + 1 .. Len(t) /\ e[i] = t[e[i].n]
  <2> SUFFICES ASSUME NEW i \in MessagesAt(e)
               PROVE  e[i].n \in got + 1 .. Len(t) /\ e[i] = t[e[i].n]
    OBVIOUS
  <2>1. CASE i = last
    BY <2>1, <1>1, <1>3, <1>5
  <2>2. CASE i # last
    <3>1. i \in MessagesAt(d) /\ e[i] = d[i]
      BY <2>2, <1>3, <1>4
    <3>2. d[i].n \in got + 1 .. Len(s) /\ d[i] = s[d[i].n]
      BY <3>1, <1>7
    <3>3. d[i].n \in 1 .. Len(s) /\ d[i].n \in got + 1 .. Len(s) + 1
      BY <3>2, <1>1
    <3> QED
      BY <3>1, <3>2, <3>3, <1>5
  <2> QED
    BY <2>1, <2>2
<1>9. \A i, j \in MessagesAt(e) : i < j => e[i].n < e[j].n
  <2> SUFFICES ASSUME NEW i \in MessagesAt(e), NEW j \in MessagesAt(e), i < j
               PROVE  e[i].n < e[j].n
    OBVIOUS
  <2>1. i # last
    BY <1>3, <1>4, <1>6
  <2>2. i \in MessagesAt(d) /\ e[i] = d[i] /\ d[i].n \in got + 1 .. Len(s)
    BY <2>1, <1>3, <1>4, <1>7
  <2>3. CASE j = last
    BY <2>2, <2>3, <1>1, <1>3
  <2>4. CASE j # last
    <3>1. j \in MessagesAt(d) /\ e[j] = d[j]
      BY <2>4, <1>3, <1>4
    <3> QED
      BY <2>2, <3>1 DEF Continues
  <2> QED
    BY <2>3, <2>4
<1>10. Completes(e, got, t)
  <2> SUFFICES ASSUME NEW n \in got + 1 .. Len(t) PROVE \E k \in MessagesAt(e) : e[k].n = n
    BY DEF Completes
  <2>1. CASE n = Len(s) + 1
    BY <2>1, <1>3
  <2>2. CASE n # Len(s) + 1
    <3>1. n \in got + 1 .. Len(s)
      BY <2>2, <1>1, <1>5
    <3>2. PICK k \in MessagesAt(d) : d[k].n = n
      BY <3>1 DEF Completes
    <3> QED
      BY <3>2, <1>3, <1>4
  <2> QED
    BY <2>1, <2>2
<1>11. \A i \in MessagesAt(e) : \A n \in got + 1 .. e[i].n : \E k \in MessagesAt(e) : k <= i /\ e[k].n = n
  <2> SUFFICES ASSUME NEW i \in MessagesAt(e), NEW n \in got + 1 .. e[i].n
               PROVE  \E k \in MessagesAt(e) : k <= i /\ e[k].n = n
    OBVIOUS
  <2>1. CASE i = last
    <3>1. n \in got + 1 .. Len(t)
      BY <2>1, <1>1, <1>3, <1>5
    <3>2. PICK k \in MessagesAt(e) : e[k].n = n
      BY <3>1, <1>10 DEF Completes
    <3>3. k <= last
      BY <1>3, <1>4, <1>6
    <3> QED
      BY <2>1, <3>2, <3>3
  <2>2. CASE i # last
    <3>1. i \in MessagesAt(d) /\ e[i] = d[i]
      BY <2>2, <1>3, <1>4
    <3>2. PICK k \in MessagesAt(d) : k <= i /\ d[k].n = n
      BY <3>1 DEF Continues
    <3> QED
      BY <3>2, <1>3, <1>4
  <2> QED
    BY <2>1, <2>2
<1> QED
  BY <1>8, <1>9, <1>10, <1>11 DEF Continues, e, t

-----------------------------------------------------------------------------
(* Every step keeps the types.                                             *)

\* A packet of the network has a type and a shape (_read_packet).
LEMMA ReadTypes ==
    ASSUME Shapes, NEW packet, Read(packet)
    PROVE  /\ down # << >> /\ packet = Head(down) /\ down' = Tail(down)
           /\ down' \in Seq(Receivable)
           /\ packet.type = "publish" => packet \in Messages
BY HeadOfDown DEF Read

\* The types survive every step of the client that reads.
LEMMA ReadStepTypes ==
    ASSUME TypeOK, Shapes, NEW packet,
           Answered(packet) \/ PassedOver(packet) \/ Unexpected(packet) \/ Dispatch(packet)
    PROVE  TypeOK' /\ Shapes'
<1> SUFFICES Typed'
  BY TypedMeans, PTL
<1>0. Read(packet) /\ pc \in Reading
  BY DEF Answered, PassedOver, Unexpected, Dispatch, Reading, Calls
<1>1. down' \in Seq(Receivable) /\ (packet.type = "publish" => packet \in Messages)
  BY <1>0, ReadTypes
<1> USE DEF Reading, Calls, Ended
<1>2. CASE Answered(packet)
  BY <1>1, <1>2 DEF Answered, Read, TypeOK, Shapes, Typed
<1>3. CASE PassedOver(packet)
  BY <1>1, <1>3 DEF PassedOver, Read, TypeOK, Shapes, Typed
<1>4. CASE Unexpected(packet)
  BY <1>1, <1>4 DEF Unexpected, Raise, Read, TypeOK, Shapes, Typed
<1>5. CASE Dispatch(packet)
  BY <1>1, <1>5 DEF Dispatch, Read, TypeOK, Shapes, Typed
<1> QED
  BY <1>2, <1>3, <1>4, <1>5

\* The types survive every step of the client that sends.
LEMMA SendStepTypes ==
    ASSUME TypeOK, Shapes, CallConnect \/ CallPublish \/ CallSubscribe \/ Handle \/ LoopTimeout
    PROVE  TypeOK' /\ Shapes'
<1> SUFFICES Typed'
  BY TypedMeans, PTL
<1>1. MaxId \in Nat /\ \A i \in Ids : i \in Nat
  BY MqttClientAssumption DEF Ids
<1> USE DEF Reading, Calls, Ended
<1>2. CASE CallConnect
  <2>1. up' \in Seq(UpPackets) /\ silent' = 0
    BY <1>2, SendTypes, ClientPackets DEF CallConnect
  <2> QED
    BY <1>2, <2>1 DEF CallConnect, TypeOK, Shapes, Typed
<1>3. CASE CallPublish
  <2>1. Publish(nextId) \in UpPackets
    BY ClientPackets DEF TypeOK
  <2>2. up' \in Seq(UpPackets) /\ silent' = 0
    BY <1>3, <2>1, SendTypes DEF CallPublish
  <2>3. nextId' \in Ids /\ packetId' \in Ids
    BY <1>3, AllocateTypes DEF CallPublish
  <2>4. calls' \in Seq(Nat)
    BY <1>3, AppendProperties, LenProperties DEF CallPublish, Shapes
  <2> QED
    BY <1>3, <2>2, <2>3, <2>4 DEF CallPublish, TypeOK, Shapes, Typed
<1>4. CASE CallSubscribe
  <2>1. Subscribe(nextId) \in UpPackets
    BY ClientPackets DEF TypeOK
  <2>2. up' \in Seq(UpPackets) /\ silent' = 0
    BY <1>4, <2>1, SendTypes DEF CallSubscribe
  <2>3. nextId' \in Ids /\ packetId' \in Ids
    BY <1>4, AllocateTypes DEF CallSubscribe
  <2> QED
    BY <1>4, <2>2, <2>3 DEF CallSubscribe, TypeOK, Shapes, Typed
<1>5. CASE Handle
  <2>1. handling \in Messages /\ handling.id \in Nat
    BY <1>5 DEF Handle, Shapes, Messages
  <2>2. delivered' \in Seq(Messages)
    BY <1>5, <2>1, AppendProperties DEF Handle, Shapes
  <2>3. PubAck(handling.id) \in UpPackets
    BY <2>1, ClientPackets
  <2>4. up' \in Seq(UpPackets) /\ silent' \in Nat
    <3>1. CASE NeedsAck(handling)
      BY <1>5, <2>3, <3>1, SendTypes DEF Handle
    <3>2. CASE ~NeedsAck(handling)
      BY <1>5, <3>2 DEF Handle, TypeOK, Shapes
    <3> QED
      BY <3>1, <3>2
  <2> QED
    BY <1>5, <2>2, <2>4 DEF Handle, TypeOK, Shapes, Typed
<1>6. CASE LoopTimeout
  <2>1. up' \in Seq(UpPackets) /\ silent' = 0
    BY <1>6, SendTypes, ClientPackets DEF LoopTimeout
  <2> QED
    BY <1>6, <2>1 DEF LoopTimeout, Resume, TypeOK, Shapes, Typed
<1> QED
  BY <1>2, <1>3, <1>4, <1>5, <1>6

\* The types survive every other step of the client.
LEMMA ClientStepTypes ==
    ASSUME TypeOK, Shapes,
           \/ CallDisconnect \/ SendError \/ ReadFirst \/ HandleError \/ Timeout
           \/ Misread \/ ReadError
    PROVE  TypeOK' /\ Shapes'
<1> SUFFICES Typed'
  BY TypedMeans, PTL
<1> USE DEF Reading, Calls, Ended
<1>1. CASE CallDisconnect \/ SendError \/ ReadFirst \/ Timeout \/ ReadError
  BY <1>1 DEF CallDisconnect, SendError, ReadFirst, Timeout, ReadError, Raise, TypeOK, Shapes, Typed
<1>2. CASE HandleError
  <2>1. handling \in Messages /\ delivered \in Seq(Messages)
    BY <1>2 DEF HandleError, Shapes
  <2>2. Append(delivered, handling) \in Seq(Messages)
    BY <2>1, AppendProperties
  <2>3. delivered' \in Seq(Messages)
    BY <1>2, <2>1, <2>2 DEF HandleError
  <2> QED
    BY <1>2, <2>3 DEF HandleError, Raise, TypeOK, Shapes, Typed
<1>3. ASSUME NEW i \in 0 .. Len(down), NEW part \in {"no", "yes"}, Swallow(i, part)
      PROVE  /\ down' \in Seq(Receivable) /\ partial' \in {"yes", "no"}
             /\ UNCHANGED <<role, nextId, packetId, up, subscribed, history, silent>>
             /\ wait' = 0 /\ quiet' = 0 /\ pc = "looping" /\ framing = "lost"
  <2>1. Len(down) \in Nat /\ down \in Seq(Receivable)
    BY LenProperties DEF Shapes
  <2>2. \A j \in i + 1 .. Len(down) : down[j] \in Receivable
    BY <2>1, ElementOfSeq
  <2>3. SubSeq(down, i + 1, Len(down)) \in Seq(Receivable)
    BY <2>1, <2>2, SubSeqProperties
  <2> QED
    BY <1>3, <2>3 DEF Swallow
<1>4. ASSUME NEW i \in 0 .. Len(down), NEW part \in {"no", "yes"},
             MisreadOn(i, part) \/ MisreadEnds(i, part)
      PROVE  Typed'
  <2>1. /\ framing' \in {"lost", "regained"} /\ pc' \in Reading \cup Ended
        /\ link' \in {link, "closed"}
    BY <1>3, <1>4 DEF MisreadOn, MisreadEnds, Raise
  <2>2. handling' = handling /\ (pc' = "handling" => pc = "handling")
    BY <1>3, <1>4 DEF MisreadOn, MisreadEnds, Raise
  <2> QED
    BY <1>3, <1>4, <2>1, <2>2 DEF MisreadOn, MisreadEnds, TypeOK, Shapes, Typed
<1>5. ASSUME NEW i \in 0 .. Len(down), NEW part \in {"no", "yes"}, NEW id \in 0 .. MaxMessages,
             MisreadMessage(i, part, id)
      PROVE  Typed'
  <2>1. MadeUp(id) \in Messages
    BY MqttClientAssumption DEF MadeUp, Messages
  <2>2. framing' \in {"lost", "regained"} /\ handling' = MadeUp(id) /\ pc' = "handling" /\ link' = link
    BY <1>5 DEF MisreadMessage
  <2> QED
    BY <1>3, <1>5, <2>1, <2>2 DEF MisreadMessage, TypeOK, Shapes, Typed
<1>6. CASE Misread
  BY <1>4, <1>5, <1>6 DEF Misread
<1> QED
  BY <1>1, <1>2, <1>6

\* The types survive every step of the broker, the network and time.
LEMMA OutsideStepTypes ==
    ASSUME TypeOK, Shapes,
           \/ \E packet \in ToSet(up) : BrokerReads(packet)
           \/ BrokerSubAck
           \/ \E q \in {0, 1} : BrokerPublishes(q)
           \/ BrokerDrops \/ NetworkBreaks \/ TcpGivesUp \/ Tick
    PROVE  TypeOK' /\ Shapes'
<1> SUFFICES Typed'
  BY TypedMeans, PTL
<1> USE DEF Reading, Calls, Ended
<1>0. ASSUME NEW p \in Receivable, BrokerSends(p) PROVE down' \in Seq(Receivable)
  BY <1>0, AppendShifts DEF BrokerSends, Shapes
<1>1. \A i \in Nat : ConnAck(i) \in Receivable /\ PubAck(i) \in Receivable
                     /\ SubAck(i) \in Receivable /\ Rejected(i) \in Receivable
  BY BrokerPackets DEF Receivable
<1>2. ASSUME NEW packet \in ToSet(up), BrokerReads(packet) PROVE Typed'
  <2>1. up # << >> /\ packet = Head(up) /\ up' = Tail(up)
    BY <1>2 DEF BrokerReads
  <2>2. packet \in UpPackets /\ up' \in Seq(UpPackets)
    BY <2>1, HeadTailProperties DEF Shapes
  <2>3. packet.id \in Nat
    BY <2>2 DEF UpPackets
  <2>4. down' \in Seq(Receivable)
    <3>1. CASE BrokerSends(ConnAck(0)) \/ BrokerSends(ConnAck(5))
      BY <3>1, <1>0, <1>1
    <3>2. CASE BrokerSends(PubAck(packet.id))
      BY <3>2, <2>3, <1>0, <1>1
    <3>3. CASE BrokerSends(PingResp)
      BY <3>3, <1>0, BrokerPackets DEF Receivable
    <3>4. CASE UNCHANGED down
      BY <3>4 DEF Shapes
    <3> QED
      BY <1>2, <3>1, <3>2, <3>3, <3>4 DEF BrokerReads
  <2>5. taken' \in Seq(Nat)
    BY <1>2, AppendProperties, LenProperties DEF BrokerReads, Shapes
  <2>6. acked' \in Seq(Nat)
    BY <1>2, <2>3, AppendProperties DEF BrokerReads, Shapes
  <2> QED
    BY <1>2, <2>2, <2>4, <2>5, <2>6 DEF BrokerReads, TypeOK, Shapes, Typed
<1>3. CASE BrokerSubAck
  <2>1. packetId \in Nat
    BY MqttClientAssumption DEF TypeOK, Ids
  <2>2. down' \in Seq(Receivable)
    BY <1>3, <2>1, <1>0, <1>1 DEF BrokerSubAck
  <2> QED
    BY <1>3, <2>2 DEF BrokerSubAck, TypeOK, Shapes, Typed
<1>4. ASSUME NEW q \in {0, 1}, BrokerPublishes(q) PROVE Typed'
  <2>1. Message(q, Len(sent) + 1) \in Messages
    BY LenProperties DEF Message, Messages, Shapes
  <2>2. down' \in Seq(Receivable)
    BY <1>4, <2>1, <1>0 DEF BrokerPublishes, Receivable
  <2>3. sent' \in Seq(Messages)
    BY <1>4, <2>1, AppendProperties DEF BrokerPublishes, Shapes
  <2> QED
    BY <1>4, <2>2, <2>3 DEF BrokerPublishes, TypeOK, Shapes, Typed
<1>5. CASE NetworkBreaks
  <2>1. down' \in Seq(Receivable)
    <3>1. PICK i \in 0 .. Len(down) : down' = SubSeq(down, 1, i)
      BY <1>5 DEF NetworkBreaks
    <3>2. Len(down) \in Nat /\ down \in Seq(Receivable)
      BY LenProperties DEF Shapes
    <3>3. \A j \in 1 .. i : down[j] \in Receivable
      BY <3>2, ElementOfSeq
    <3>4. SubSeq(down, 1, i) \in Seq(Receivable)
      BY <3>2, <3>3, SubSeqProperties
    <3> QED
      BY <3>1, <3>4
  <2> QED
    BY <1>5, <2>1 DEF NetworkBreaks, TypeOK, Shapes, Typed
<1>6. CASE BrokerDrops \/ TcpGivesUp
  BY <1>6 DEF BrokerDrops, TcpGivesUp, TypeOK, Shapes, Typed
<1>7. CASE Tick
  BY <1>7 DEF Tick, TypeOK, Shapes, Typed
<1> QED
  BY <1>2, <1>3, <1>4, <1>5, <1>6, <1>7

\* The types survive every step.
LEMMA TypeStep ==
    ASSUME TypeOK, Shapes, [Next]_vars
    PROVE  TypeOK' /\ Shapes'
<1>1. CASE \E packet \in ToSet(down) :
              Answered(packet) \/ PassedOver(packet) \/ Unexpected(packet) \/ Dispatch(packet)
  BY <1>1, ReadStepTypes
<1>2. CASE UNCHANGED vars
  BY <1>2 DEF vars, TypeOK, Shapes
<1> QED
  BY <1>1, <1>2, SendStepTypes, ClientStepTypes, OutsideStepTypes DEF Next, Run

-----------------------------------------------------------------------------
(* Every step keeps what is known of silence and of the publisher.         *)

\* Silence survives every step: whatever resets the wait is read or sends
\* (loop_forever).
LEMMA SilenceStep ==
    ASSUME TypeOK, Silence, [Next]_vars
    PROVE  Silence'
<1> USE DEF Reading, Calls, Ended
<1>1. CASE \/ \E packet \in ToSet(down) :
                  Answered(packet) \/ PassedOver(packet) \/ Unexpected(packet) \/ Dispatch(packet)
           \/ ReadFirst \/ Misread
  <2>1. wait' = 0 /\ quiet' = 0
    BY <1>1 DEF Answered, PassedOver, Unexpected, Dispatch, Read, ReadFirst,
                Misread, MisreadOn, MisreadMessage, MisreadEnds, Swallow
  <2> QED
    BY <2>1, MqttClientAssumption DEF Silence
<1>2. CASE CallConnect \/ CallPublish \/ CallSubscribe \/ Handle \/ LoopTimeout
  BY <1>2, MqttClientAssumption
     DEF CallConnect, CallPublish, CallSubscribe, Handle, LoopTimeout, Resume, Send, TypeOK, Silence
<1>3. CASE CallDisconnect \/ SendError \/ HandleError \/ Timeout \/ ReadError
  BY <1>3 DEF CallDisconnect, SendError, HandleError, Timeout, ReadError, Raise, TypeOK, Silence
<1>4. CASE \/ \E packet \in ToSet(up) : BrokerReads(packet)
           \/ BrokerSubAck
           \/ \E q \in {0, 1} : BrokerPublishes(q)
           \/ BrokerDrops \/ NetworkBreaks \/ TcpGivesUp \/ UNCHANGED vars
  BY <1>4 DEF BrokerReads, BrokerSubAck, BrokerPublishes, BrokerDrops, NetworkBreaks, TcpGivesUp,
              vars, Silence
<1>5. CASE Tick
  BY <1>5, MqttClientAssumption DEF Tick, SocketTimeout, TypeOK, Silence
<1> QED
  BY <1>1, <1>2, <1>3, <1>4, <1>5 DEF Next, Run

\* A sequence of a single packet.
LEMMA OnlyPacket ==
    ASSUME NEW p
    PROVE  /\ << p >> # << >> /\ Head(<< p >>) = p /\ Tail(<< p >>) = << >>
           /\ Append(<< >>, p) = << p >>
           /\ \A m \in 0 .. Len(<< p >>) : SubSeq(<< p >>, 1, m) \in {<< >>, << p >>}
<1>1. << p >> \in Seq({p}) /\ << p >> # << >> /\ Len(<< p >>) = 1 /\ Append(<< >>, p) = << p >>
  OBVIOUS
<1>2. Head(<< p >>) = p /\ Tail(<< p >>) = << >>
  OBVIOUS
<1>3. ASSUME NEW m \in 0 .. Len(<< p >>) PROVE SubSeq(<< p >>, 1, m) \in {<< >>, << p >>}
  <2>1. m \in {0, 1}
    BY <1>1
  <2>2. SubSeq(<< p >>, 1, 0) = << >>
    OBVIOUS
  <2>3. SubSeq(<< p >>, 1, 1) = << p >>
    BY <1>1, SubSeqFull
  <2> QED
    BY <2>1, <2>2, <2>3
<1> QED
  BY <1>1, <1>2, <1>3

\* Numbering goes on with the next number (publish; the broker).
LEMMA CountedGrows ==
    ASSUME NEW s \in Seq(Nat), Counted(s)
    PROVE  Counted(Append(s, Len(s) + 1)) /\ Len(Append(s, Len(s) + 1)) = Len(s) + 1
<1>1. Len(s) \in Nat
  BY LenProperties
<1>2. /\ Len(Append(s, Len(s) + 1)) = Len(s) + 1
      /\ \A i \in 1 .. Len(s) : Append(s, Len(s) + 1)[i] = s[i]
      /\ Append(s, Len(s) + 1)[Len(s) + 1] = Len(s) + 1
  BY <1>1, AppendProperties
<1> QED
  BY <1>1, <1>2 DEF Counted

\* A call of the publisher sends the only packet there is (connect, publish).
LEMMA CallCounts ==
    ASSUME TypeOK, Shapes, Counts, CallConnect \/ CallPublish \/ CallSubscribe
    PROVE  Counts'
<1> USE DEF Reading, Calls, Ended
<1>1. CASE CallConnect
  <2>1. role = "publisher" => up' = << Connect >>
    BY <1>1, OnlyPacket DEF CallConnect, Send, Counts
  <2> QED
    BY <1>1, <2>1 DEF CallConnect, Counts, Counted
<1>2. CASE CallPublish
  <2>1. up' = << Publish(packetId') >>
    BY <1>2, OnlyPacket DEF CallPublish, Allocate, Send, Counts
  <2>2. Counted(calls') /\ Len(calls') = Len(calls) + 1
    BY <1>2, CountedGrows DEF CallPublish, Counts, Shapes
  <2>3. Len(taken) \in Nat /\ Len(calls) \in Nat
    BY LenProperties DEF Shapes
  <2> QED
    BY <1>2, <2>1, <2>2, <2>3 DEF CallPublish, Counts, Counted
<1>3. CASE CallSubscribe
  BY <1>3 DEF CallSubscribe, Counts, Counted
<1> QED
  BY <1>1, <1>2, <1>3

\* What is read is the only packet there is (_read_packet).
LEMMA ReadCounts ==
    ASSUME TypeOK, Shapes, Counts, NEW packet,
           Answered(packet) \/ PassedOver(packet) \/ Unexpected(packet) \/ Dispatch(packet)
    PROVE  Counts'
<1> USE DEF Reading, Calls, Ended
<1>0. Read(packet) /\ down # << >> /\ packet = Head(down) /\ down' = Tail(down)
  BY ReadTypes DEF Answered, PassedOver, Unexpected, Dispatch
<1>1. CASE Unexpected(packet)
  BY <1>1 DEF Unexpected, Raise, Counts, Counted
<1>2. CASE Dispatch(packet)
  BY <1>2 DEF Dispatch, Counts, Counted
<1>3. CASE role = "publisher" /\ Answered(packet)
  <2>1. pc \in {"connack", "puback"}
    BY <1>3 DEF Answered, Answers, Counts
  <2>2. up = << >> /\ Len(taken) = Len(calls) /\ \E p : down = << p >>
    BY <1>0, <1>3, <2>1 DEF Counts
  <2>3. down' = << >>
    BY <1>0, <2>2, OnlyPacket
  <2> QED
    BY <1>3, <2>1, <2>2, <2>3 DEF Answered, Counts, Counted
<1>4. CASE role = "publisher" /\ PassedOver(packet)
  <2>1. pc = "puback" /\ packet = PingResp
    BY <1>4 DEF PassedOver, Counts
  <2>2. down = << PubAck(packetId) >>
    BY <1>0, <1>4, <2>1 DEF Counts
  <2>3. packet = PubAck(packetId)
    BY <1>0, <2>2, OnlyPacket
  <2> QED
    BY <2>1, <2>3 DEF PubAck, PingResp
<1>5. CASE role # "publisher" /\ (Answered(packet) \/ PassedOver(packet))
  BY <1>5 DEF Answered, PassedOver, Counts, Counted
<1> QED
  BY <1>1, <1>2, <1>3, <1>4, <1>5

\* The other steps of the client end the connection or are the subscriber's.
LEMMA ClientCounts ==
    ASSUME TypeOK, Shapes, Counts,
           \/ CallDisconnect \/ SendError \/ ReadFirst \/ Handle \/ HandleError \/ Timeout
           \/ LoopTimeout \/ Misread \/ ReadError
    PROVE  Counts'
<1> USE DEF Reading, Calls, Ended
<1>1. CASE CallDisconnect \/ SendError \/ HandleError \/ Timeout \/ ReadError
  BY <1>1 DEF CallDisconnect, SendError, HandleError, Timeout, ReadError, Raise, Counts, Counted
<1>2. CASE ReadFirst
  BY <1>2 DEF ReadFirst, Counts, Counted
<1>3. CASE Handle \/ LoopTimeout
  BY <1>3 DEF Handle, LoopTimeout, Counts, Counted
<1>4. CASE Misread
  <2>1. /\ pc = "looping" /\ UNCHANGED <<role, up, subscribed, calls, taken>>
        /\ pc' \in Ended => link' = "closed"
    BY <1>4 DEF Misread, MisreadOn, MisreadMessage, MisreadEnds, Swallow, Raise
  <2> QED
    BY <2>1 DEF Counts, Counted
<1> QED
  BY <1>1, <1>2, <1>3, <1>4

\* The broker takes and acknowledges the only packet there is.
LEMMA BrokerCounts ==
    ASSUME TypeOK, Shapes, Counts, NEW packet, BrokerReads(packet)
    PROVE  Counts'
<1> USE DEF Reading, Calls, Ended
<1>0. link = "up" /\ up # << >> /\ packet = Head(up) /\ up' = Tail(up) /\ pc \notin Ended
  BY DEF BrokerReads, Counts
<1>1. Counted(taken')
  BY CountedGrows DEF BrokerReads, Shapes, Counts, Counted
<1>2. CASE role # "publisher"
  BY <1>1, <1>2 DEF BrokerReads, Counts, Counted
<1>3. CASE role = "publisher" /\ pc = "connack"
  <2>1. up = << Connect >> /\ down = << >> /\ Len(taken) = Len(calls)
    BY <1>0, <1>3 DEF Counts
  <2>2. packet = Connect /\ up' = << >>
    BY <1>0, <2>1, OnlyPacket
  <2>3. packet.type = "connect"
    BY <2>2 DEF Connect
  <2>4. taken' = taken /\ subscribed' = subscribed
    BY <2>3 DEF BrokerReads
  <2>5. BrokerSends(ConnAck(0)) \/ BrokerSends(ConnAck(5))
    BY <2>3 DEF BrokerReads, PingReq
  <2>6. \E c \in {0, 5} : down' = << ConnAck(c) >>
    BY <2>1, <2>5, OnlyPacket DEF BrokerSends
  <2> QED
    BY <1>1, <1>3, <2>1, <2>2, <2>4, <2>6 DEF BrokerReads, Counts, Counted
<1>4. CASE role = "publisher" /\ pc = "puback"
  <2>1. up = << Publish(packetId) >> /\ down = << >> /\ Len(calls) = Len(taken) + 1
    BY <1>0, <1>4 DEF Counts
  <2>2. packet = Publish(packetId) /\ up' = << >>
    BY <1>0, <2>1, OnlyPacket
  <2>3. packet.type = "publish" /\ packet.id = packetId
    BY <2>2 DEF Publish
  <2>4. taken' = Append(taken, Len(taken) + 1) /\ subscribed' = subscribed
    BY <2>3 DEF BrokerReads
  <2>5. BrokerSends(PubAck(packetId))
    BY <2>3 DEF BrokerReads, PingReq, Connect
  <2>6. down' = << PubAck(packetId) >>
    BY <2>1, <2>5, OnlyPacket DEF BrokerSends
  <2>7. Len(taken') = Len(taken) + 1
    BY <2>4, CountedGrows DEF Shapes, Counts
  <2> QED
    BY <1>1, <1>4, <2>1, <2>2, <2>4, <2>6, <2>7 DEF BrokerReads, Counts, Counted
<1>5. role = "publisher" => pc \in {"connack", "puback"}
  BY <1>0 DEF Counts, TypeOK
<1> QED
  BY <1>2, <1>3, <1>4, <1>5

\* The other steps outside the client only shorten what is on its way, or are the
\* subscriber's.
LEMMA OutsideCounts ==
    ASSUME TypeOK, Shapes, Counts,
           \/ BrokerSubAck
           \/ \E q \in {0, 1} : BrokerPublishes(q)
           \/ BrokerDrops \/ NetworkBreaks \/ TcpGivesUp \/ Tick
    PROVE  Counts'
<1> USE DEF Reading, Calls, Ended
<1>1. CASE BrokerSubAck \/ \E q \in {0, 1} : BrokerPublishes(q)
  BY <1>1 DEF BrokerSubAck, BrokerPublishes, Counts, Counted
<1>2. CASE BrokerDrops \/ TcpGivesUp \/ Tick
  BY <1>2 DEF BrokerDrops, TcpGivesUp, Tick, Counts, Counted
<1>3. CASE NetworkBreaks
  <2>1. PICK m \in 0 .. Len(down) : down' = SubSeq(down, 1, m)
    BY <1>3 DEF NetworkBreaks
  <2>2. down = << >> => down' = << >>
    BY <2>1
  <2>3. \A p : down = << p >> => down' \in {<< >>, << p >>}
    BY <2>1, OnlyPacket
  <2> QED
    BY <1>3, <2>2, <2>3 DEF NetworkBreaks, Counts, Counted
<1> QED
  BY <1>1, <1>2, <1>3

\* A publisher's messages are counted by both sides, whatever happens.
LEMMA CountsStep ==
    ASSUME TypeOK, Shapes, Counts, [Next]_vars
    PROVE  Counts'
<1>1. CASE \E packet \in ToSet(down) :
              Answered(packet) \/ PassedOver(packet) \/ Unexpected(packet) \/ Dispatch(packet)
  BY <1>1, ReadCounts
<1>2. CASE UNCHANGED vars
  BY <1>2 DEF vars, Counts, Counted
<1> QED
  BY <1>1, <1>2, CallCounts, ClientCounts, BrokerCounts, OutsideCounts DEF Next, Run

-----------------------------------------------------------------------------
(* Every step keeps the order of messages.                                 *)

\* The types that the lemmas on the order ask for.
LEMMA OrderTypes ==
    ASSUME Shapes, Order, framing = "kept"
    PROVE  /\ down \in Seq(Receivable) /\ sent \in Seq(Messages) /\ delivered \in Seq(Messages)
           /\ Len(sent) \in Nat /\ Len(delivered) \in Nat /\ Len(delivered) <= Len(sent)
           /\ Got \in Nat /\ Got <= Len(sent)
<1>1. /\ down \in Seq(Receivable) /\ sent \in Seq(Messages) /\ delivered \in Seq(Messages)
      /\ Len(sent) \in Nat /\ Len(delivered) \in Nat
  BY LenProperties DEF Shapes
<1>2. Len(delivered) <= Len(sent)
  BY <1>1, PrefixPointwise DEF Order
<1> QED
  BY <1>1, <1>2 DEF Order, Got

\* Nothing is said of the order once framing was lost.
LEMMA OrderLost ==
    ASSUME Order, UNCHANGED sent, framing' # "kept"
    PROVE  Order'
BY DEF Order

\* Steps that leave the messages and what comes to the client alone.
LEMMA OrderUnmoved ==
    ASSUME Order, UNCHANGED <<down, sent, delivered, handling>>, Got' = Got,
           framing' = "kept" => framing = "kept",
           pc' = "handling" => pc = "handling",
           pc' \notin Ended => pc \notin Ended,
           link' = "up" => link = "up"
    PROVE  Order'
BY DEF Order

\* Reading a packet takes at most the next message (loop_forever).
LEMMA ReadOrder ==
    ASSUME Shapes, Counts, Order, NEW packet,
           Answered(packet) \/ PassedOver(packet) \/ Unexpected(packet) \/ Dispatch(packet)
    PROVE  Order'
<1> USE DEF Reading, Calls, Ended
<1>0. Read(packet) /\ down # << >> /\ packet = Head(down) /\ down' = Tail(down)
  BY ReadTypes DEF Answered, PassedOver, Unexpected, Dispatch
<1>1. UNCHANGED <<sent, delivered, framing>>
  BY DEF Answered, PassedOver, Unexpected, Dispatch
<1>2. CASE framing # "kept"
  BY <1>1, <1>2, OrderLost
<1>3. CASE framing = "kept" /\ Unexpected(packet)
  BY <1>1, <1>3 DEF Unexpected, Raise, Order
<1>4. ASSUME framing = "kept"
      PROVE  /\ down \in Seq(Receivable) /\ sent \in Seq(Messages) /\ delivered \in Seq(Messages)
             /\ Len(delivered) \in Nat /\ Got \in Nat
  BY <1>4, OrderTypes
<1>5. CASE framing = "kept" /\ (Answered(packet) \/ PassedOver(packet))
  <2>1. /\ pc \in Reading /\ pc' \notin Ended \cup {"handling"}
        /\ UNCHANGED <<link, handling>>
    BY <1>5 DEF Answered, PassedOver
  <2>2. Continues(down, Got, sent) /\ (link = "up" => Completes(down, Got, sent))
    BY <1>5, <2>1 DEF Order
  <2>3. packet.type # "publish"
    BY <1>5 DEF Answered, Answers, PassedOver, ConnAck, PubAck, SubAck, PingResp
  <2>4. /\ Continues(Tail(down), Got, sent)
        /\ Completes(down, Got, sent) => Completes(Tail(down), Got, sent)
    BY <1>0, <1>4, <1>5, <2>2, <2>3, TailSkips
  <2>5. Got' = Got
    BY <1>1, <2>1 DEF Got
  <2> QED
    BY <1>0, <1>1, <1>5, <2>1, <2>2, <2>4, <2>5 DEF Order
<1>6. CASE framing = "kept" /\ Dispatch(packet)
  <2>1. /\ pc = "looping" /\ pc' = "handling" /\ packet.type = "publish"
        /\ handling' = packet /\ UNCHANGED link
    BY <1>6 DEF Dispatch
  <2>2. Continues(down, Got, sent) /\ (link = "up" => Completes(down, Got, sent))
    BY <1>6, <2>1 DEF Order
  <2>3. /\ Got < Len(sent) /\ Head(down) = sent[Got + 1]
        /\ Continues(Tail(down), Got + 1, sent)
        /\ Completes(down, Got, sent) => Completes(Tail(down), Got + 1, sent)
    BY <1>0, <1>4, <1>6, <2>1, <2>2, TailTakes
  <2>4. Got = Len(delivered) /\ Got' = Got + 1
    BY <1>1, <2>1 DEF Got
  <2> QED
    BY <1>0, <1>1, <1>6, <2>1, <2>2, <2>3, <2>4 DEF Order
<1> QED
  BY <1>2, <1>3, <1>5, <1>6

\* What on_message is done with is the next message.
LEMMA HandleOrder ==
    ASSUME Shapes, Order, framing = "kept", pc = "handling"
    PROVE  /\ Append(delivered, handling) \in Seq(Messages)
           /\ Len(Append(delivered, handling)) = Len(delivered) + 1
           /\ IsPrefix(delivered, Append(delivered, handling))
           /\ IsPrefix(Append(delivered, handling), sent)
<1>1. handling \in Messages /\ delivered \in Seq(Messages) /\ sent \in Seq(Messages)
  BY DEF Shapes
<1>2. IsPrefix(delivered, sent) /\ Len(delivered) < Len(sent) /\ handling = sent[Len(delivered) + 1]
  BY DEF Order
<1>3. IsPrefix(Append(delivered, sent[Len(delivered) + 1]), sent)
  BY <1>1, <1>2, PrefixGrows
<1> QED
  BY <1>1, <1>2, <1>3, AppendProperties, PrefixOfAppend

\* The other steps of the client do not touch the order, or end it.
LEMMA ClientOrder ==
    ASSUME TypeOK, Shapes, Order,
           \/ CallConnect \/ CallPublish \/ CallSubscribe \/ CallDisconnect \/ SendError
           \/ ReadFirst \/ Handle \/ HandleError \/ Timeout \/ LoopTimeout \/ Misread \/ ReadError
    PROVE  Order'
<1> USE DEF Reading, Calls, Ended
<1>1. CASE CallConnect \/ CallPublish \/ CallSubscribe \/ ReadFirst \/ LoopTimeout
  <2>1. /\ UNCHANGED <<down, sent, delivered, handling, link>>
        /\ pc \notin Ended \cup {"handling"} /\ pc' \notin Ended \cup {"handling"}
        /\ framing' = "kept" => framing = "kept"
    BY <1>1 DEF CallConnect, CallPublish, CallSubscribe, ReadFirst, LoopTimeout, Resume
  <2>2. Got' = Got
    BY <2>1 DEF Got
  <2> QED
    BY <2>1, <2>2, OrderUnmoved
<1>2. CASE CallDisconnect \/ SendError \/ Timeout \/ ReadError
  BY <1>2 DEF CallDisconnect, SendError, Timeout, ReadError, Raise, Order
<1>3. CASE Misread
  <2>1. UNCHANGED sent /\ framing' \in {"lost", "regained"}
    BY <1>3 DEF Misread, MisreadOn, MisreadMessage, MisreadEnds, Swallow, Raise
  <2> QED
    BY <2>1, OrderLost
<1>4. CASE Handle
  <2>1. /\ delivered' = Append(delivered, handling) /\ pc = "handling" /\ pc' = "looping"
        /\ UNCHANGED <<sent, down, framing, link>>
    BY <1>4 DEF Handle
  <2>2. CASE framing = "kept"
    <3>1. IsPrefix(delivered', sent) /\ Len(delivered') = Len(delivered) + 1
      BY <2>1, <2>2, HandleOrder
    <3>2. Got' = Got
      BY <2>1, <3>1 DEF Got
    <3> QED
      BY <2>1, <2>2, <3>1, <3>2 DEF Order
  <2> QED
    BY <2>1, <2>2, OrderLost
<1>5. CASE HandleError
  <2>1. /\ delivered' \in {delivered, Append(delivered, handling)} /\ UNCHANGED <<sent, framing>>
        /\ pc = "handling" /\ pc' = "raised"
    BY <1>5 DEF HandleError, Raise
  <2>2. CASE framing = "kept"
    <3>1. IsPrefix(delivered', sent)
      BY <2>1, <2>2, HandleOrder DEF Order
    <3> QED
      BY <2>1, <3>1 DEF Order
  <2> QED
    BY <2>1, <2>2, OrderLost
<1> QED
  BY <1>1, <1>2, <1>3, <1>4, <1>5

\* The broker's answers do not touch the order.
LEMMA AnswerOrder ==
    ASSUME Shapes, Order, UNCHANGED <<pc, handling, framing, link, sent, delivered>>,
           \/ UNCHANGED down
           \/ \E p \in DownPackets : BrokerSends(p)
    PROVE  Order'
<1>1. Got' = Got
  BY DEF Got
<1>2. CASE UNCHANGED down
  BY <1>1, <1>2, OrderUnmoved
<1>3. ASSUME NEW p \in DownPackets, BrokerSends(p) PROVE Order'
  <2>1. p \in Receivable /\ p.type # "publish" /\ down' = Append(down, p)
    BY <1>3 DEF DownPackets, Receivable, BrokerSends
  <2>2. CASE framing = "kept" /\ pc \notin Ended
    <3>1. Continues(down, Got, sent) /\ (link = "up" => Completes(down, Got, sent))
      BY <2>2 DEF Order
    <3>2. /\ Continues(down', Got, sent)
          /\ Completes(down, Got, sent) => Completes(down', Got, sent)
      BY <2>1, <2>2, <3>1, OrderTypes, AnswerContinues
    <3> QED
      BY <1>1, <3>1, <3>2 DEF Order
  <2>3. CASE ~(framing = "kept" /\ pc \notin Ended)
    BY <2>3 DEF Order
  <2> QED
    BY <2>2, <2>3
<1> QED
  BY <1>2, <1>3

\* The broker, the network and time keep the messages in order.
LEMMA OutsideOrder ==
    ASSUME TypeOK, Shapes, Counts, Order,
           \/ \E packet \in ToSet(up) : BrokerReads(packet)
           \/ BrokerSubAck
           \/ \E q \in {0, 1} : BrokerPublishes(q)
           \/ BrokerDrops \/ NetworkBreaks \/ TcpGivesUp \/ Tick
    PROVE  Order'
<1>1. ASSUME NEW packet, BrokerReads(packet) PROVE Order'
  <2>1. up # << >> /\ packet = Head(up)
    BY <1>1 DEF BrokerReads
  <2>2. packet.id \in Nat
    BY <2>1, HeadTailProperties DEF Shapes, UpPackets
  <2>3. UNCHANGED down \/ \E p \in DownPackets : BrokerSends(p)
    BY <1>1, <2>2, BrokerPackets DEF BrokerReads
  <2>4. UNCHANGED <<pc, handling, framing, link, sent, delivered>>
    BY <1>1 DEF BrokerReads
  <2> QED
    BY <2>3, <2>4, AnswerOrder
<1>2. CASE BrokerSubAck
  <2>1. packetId \in Nat
    BY MqttClientAssumption DEF TypeOK, Ids
  <2>2. \E p \in DownPackets : BrokerSends(p)
    BY <1>2, <2>1, BrokerPackets DEF BrokerSubAck
  <2>3. UNCHANGED <<pc, handling, framing, link, sent, delivered>>
    BY <1>2 DEF BrokerSubAck
  <2> QED
    BY <2>2, <2>3, AnswerOrder
<1>3. ASSUME NEW q \in {0, 1}, BrokerPublishes(q) PROVE Order'
  <2> DEFINE p == Message(q, Len(sent) + 1)
  <2>0. sent \in Seq(Messages) /\ Len(sent) \in Nat
    BY LenProperties DEF Shapes
  <2>1. p \in Messages /\ p.n = Len(sent) + 1
    BY <2>0 DEF Message, Messages
  <2>2. /\ down' = Append(down, p) /\ sent' = Append(sent, p) /\ link = "up"
        /\ UNCHANGED <<pc, handling, framing, link, delivered>>
    BY <1>3 DEF BrokerPublishes, BrokerSends
  <2> HIDE DEF p
  <2>3. /\ sent' \in Seq(Messages) /\ Len(sent') = Len(sent) + 1
        /\ \A i \in 1 .. Len(sent) : sent'[i] = sent[i]
        /\ sent'[Len(sent) + 1] = p
    BY <2>0, <2>1, <2>2, AppendProperties
  <2>4. \A i \in 1 .. Len(sent') : sent'[i].n = i
    BY <2>0, <2>1, <2>3 DEF Order
  <2>5. CASE framing = "kept"
    <3>0. /\ down \in Seq(Receivable) /\ delivered \in Seq(Messages)
          /\ Len(delivered) \in Nat /\ Len(delivered) <= Len(sent)
          /\ Got \in Nat /\ Got <= Len(sent)
      BY <2>5, OrderTypes
    <3>1. IsPrefix(delivered, sent')
      <4>1. IsPrefix(sent, sent')
        BY <2>0, <2>1, <2>2, PrefixOfAppend
      <4>2. IsPrefix(delivered, sent)
        BY <2>5 DEF Order
      <4> QED
        BY <2>0, <2>3, <3>0, <4>1, <4>2, PrefixTransitive
    <3>2. pc = "handling" => Len(delivered) < Len(sent') /\ handling = sent'[Len(delivered) + 1]
      BY <2>0, <2>3, <2>5, <3>0 DEF Order
    <3>3. pc \notin Ended => Continues(down', Got, sent') /\ Completes(down', Got, sent')
      BY <2>0, <2>1, <2>2, <2>5, <3>0, MessageContinues DEF Order
    <3>4. Got' = Got
      BY <2>2 DEF Got
    <3> QED
      BY <2>2, <2>4, <3>1, <3>2, <3>3, <3>4 DEF Order
  <2>6. CASE framing # "kept"
    BY <2>2, <2>4, <2>6 DEF Order
  <2> QED
    BY <2>5, <2>6
<1>4. CASE NetworkBreaks
  <2>1. PICK m \in 0 .. Len(down) : down' = SubSeq(down, 1, m)
    BY <1>4 DEF NetworkBreaks
  <2>2. link' # "up" /\ UNCHANGED <<pc, handling, framing, sent, delivered>>
    BY <1>4 DEF NetworkBreaks
  <2>3. framing = "kept" /\ pc \notin Ended => Continues(down', Got, sent)
    BY <2>1, OrderTypes, CutContinues DEF Order
  <2>4. Got' = Got
    BY <2>2 DEF Got
  <2> QED
    BY <2>2, <2>3, <2>4 DEF Order
<1>5. CASE BrokerDrops \/ TcpGivesUp \/ Tick
  <2>1. /\ UNCHANGED <<pc, handling, framing, down, sent, delivered>>
        /\ link' = "up" => link = "up"
    BY <1>5 DEF BrokerDrops, TcpGivesUp, Tick
  <2>2. Got' = Got
    BY <2>1 DEF Got
  <2> QED
    BY <2>1, <2>2, OrderUnmoved
<1> QED
  BY <1>1, <1>2, <1>3, <1>4, <1>5

\* The messages stay in order, whatever happens.
LEMMA OrderStep ==
    ASSUME TypeOK, Shapes, Counts, Order, [Next]_vars
    PROVE  Order'
<1>1. CASE \E packet \in ToSet(down) :
              Answered(packet) \/ PassedOver(packet) \/ Unexpected(packet) \/ Dispatch(packet)
  BY <1>1, ReadOrder
<1>2. CASE UNCHANGED vars
  BY <1>2 DEF vars, Order, Got
<1> QED
  BY <1>1, <1>2, ClientOrder, OutsideOrder DEF Next, Run

-----------------------------------------------------------------------------
(* With or without framing: no message is repeated or overtaken.           *)

\* Genuine messages stay genuine when more are sent.
LEMMA GenuineLater ==
    ASSUME NEW t \in Seq(Messages), NEW s \in Seq(Messages), NEW p \in Messages, Genuine(t, s)
    PROVE  Genuine(t, Append(s, p))
<1>1. /\ Len(s) \in Nat /\ Len(Append(s, p)) = Len(s) + 1
      /\ \A i \in 1 .. Len(s) : Append(s, p)[i] = s[i]
  BY AppendProperties, LenProperties
<1> QED
  BY <1>1 DEF Genuine

\* The message that comes next is genuine, or nobody sent it.
LEMMA GenuineGrows ==
    ASSUME NEW t \in Seq(Messages), NEW s \in Seq(Messages), NEW m \in Messages, Genuine(t, s),
           m.n # 0 => /\ m.n \in 1 .. Len(s) /\ m = s[m.n]
                      /\ \A j \in 1 .. Len(t) : t[j].n < m.n
    PROVE  Append(t, m) \in Seq(Messages) /\ Genuine(Append(t, m), s)
<1> DEFINE u == Append(t, m)
<1>1. /\ u \in Seq(Messages) /\ Len(t) \in Nat /\ Len(u) = Len(t) + 1 /\ u[Len(t) + 1] = m
      /\ \A i \in 1 .. Len(t) : u[i] = t[i]
  BY AppendProperties, LenProperties
<1> HIDE DEF u
<1>2. ASSUME NEW i \in 1 .. Len(u), u[i].n # 0
      PROVE  /\ u[i].n \in 1 .. Len(s) /\ u[i] = s[u[i].n]
             /\ \A j \in 1 .. Len(u) : i < j /\ u[j].n # 0 => u[i].n < u[j].n
  <2>1. CASE i = Len(t) + 1
    BY <1>1, <1>2, <2>1
  <2>2. CASE i \in 1 .. Len(t)
    <3>1. u[i] = t[i] /\ t[i].n # 0
      BY <1>1, <1>2, <2>2
    <3>2. /\ u[i].n \in 1 .. Len(s) /\ u[i] = s[u[i].n]
      BY <2>2, <3>1 DEF Genuine
    <3>3. ASSUME NEW j \in 1 .. Len(u), i < j, u[j].n # 0 PROVE u[i].n < u[j].n
      <4>1. CASE j = Len(t) + 1
        BY <1>1, <2>2, <3>1, <3>3, <4>1
      <4>2. CASE j \in 1 .. Len(t)
        BY <1>1, <2>2, <3>1, <3>3, <4>2 DEF Genuine
      <4> QED
        BY <1>1, <4>1, <4>2
    <3> QED
      BY <3>2, <3>3
  <2> QED
    BY <1>1, <2>1, <2>2
<1> QED
  BY <1>1, <1>2 DEF Genuine, u

\* The messages in one part of what is on its way follow whatever all of them do.
LEMMA FollowsPart ==
    ASSUME NEW d \in Seq(Receivable), NEW t \in Seq(Messages), NEW s \in Seq(Messages),
           NEW e, NEW by \in Nat, Follows(d, t, s),
           \A i \in MessagesAt(e) : i \in Nat /\ i + by \in MessagesAt(d) /\ e[i] = d[i + by]
    PROVE  Follows(e, t, s)
<1> SUFFICES ASSUME NEW i \in MessagesAt(e)
             PROVE  /\ e[i].n \in 1 .. Len(s) /\ e[i] = s[e[i].n]
                    /\ \A j \in MessagesAt(e) : i < j => e[i].n < e[j].n
                    /\ \A j \in 1 .. Len(t) : t[j].n < e[i].n
  BY DEF Follows
<1>1. i + by \in MessagesAt(d) /\ e[i] = d[i + by] /\ i \in Nat
  OBVIOUS
<1>2. ASSUME NEW j \in MessagesAt(e), i < j PROVE e[i].n < e[j].n
  <2>1. j + by \in MessagesAt(d) /\ e[j] = d[j + by] /\ i + by < j + by
    BY <1>1, <1>2
  <2> QED
    BY <1>1, <2>1 DEF Follows
<1> QED
  BY <1>1, <1>2 DEF Follows

\* A packet is taken out of what is on its way.
LEMMA FollowsTail ==
    ASSUME NEW d \in Seq(Receivable), NEW t \in Seq(Messages), NEW s \in Seq(Messages),
           d # << >>, Follows(d, t, s)
    PROVE  /\ Follows(Tail(d), t, s)
           /\ Head(d).type = "publish" /\ Genuine(t, s) =>
                  /\ Genuine(Append(t, Head(d)), s)
                  /\ Follows(Tail(d), Append(t, Head(d)), s)
<1> DEFINE e == Tail(d)
<1> DEFINE m == Head(d)
<1>0. e \in Seq(Receivable) /\ m = d[1] /\ Len(d) \in Nat /\ Len(d) > 0
  BY HeadTailProperties, LenProperties, EmptySeq
<1>1. \A i \in MessagesAt(e) : i \in Nat /\ 1 <= i /\ i + 1 \in MessagesAt(d) /\ e[i] = d[i + 1]
  BY <1>0, TailShifts, MessagesTyped
<1> HIDE DEF e, m
<1>2. Follows(e, t, s)
  BY <1>1, FollowsPart
<1>3. ASSUME m.type = "publish", Genuine(t, s)
      PROVE  Genuine(Append(t, m), s) /\ Follows(e, Append(t, m), s)
  <2>1. 1 \in MessagesAt(d)
    BY <1>0, <1>3 DEF MessagesAt
  <2>2. m \in Messages
    BY <1>0, <2>1, MessagesTyped
  <2>3. m.n \in 1 .. Len(s) /\ m = s[m.n] /\ \A j \in 1 .. Len(t) : t[j].n < m.n
    BY <1>0, <2>1 DEF Follows
  <2>4. Genuine(Append(t, m), s)
    BY <1>3, <2>2, <2>3, GenuineGrows
  <2>5. \A i \in MessagesAt(e) : m.n < e[i].n
    <3> SUFFICES ASSUME NEW i \in MessagesAt(e) PROVE m.n < e[i].n
      OBVIOUS
    <3>1. i + 1 \in MessagesAt(d) /\ e[i] = d[i + 1] /\ 1 < i + 1
      BY <1>1
    <3> QED
      BY <1>0, <2>1, <3>1 DEF Follows
  <2>6. /\ Len(t) \in Nat /\ Len(Append(t, m)) = Len(t) + 1 /\ Append(t, m)[Len(t) + 1] = m
        /\ \A i \in 1 .. Len(t) : Append(t, m)[i] = t[i]
    BY <2>2, AppendProperties, LenProperties
  <2>7. \A i \in MessagesAt(e), j \in 1 .. Len(Append(t, m)) : Append(t, m)[j].n < e[i].n
    <3> SUFFICES ASSUME NEW i \in MessagesAt(e), NEW j \in 1 .. Len(Append(t, m))
                 PROVE  Append(t, m)[j].n < e[i].n
      OBVIOUS
    <3>1. CASE j = Len(t) + 1
      BY <2>5, <2>6, <3>1
    <3>2. CASE j \in 1 .. Len(t)
      BY <1>2, <2>6, <3>2 DEF Follows
    <3> QED
      BY <2>6, <3>1, <3>2
  <2>8. Follows(e, Append(t, m), s)
    BY <1>2, <2>7 DEF Follows
  <2> QED
    BY <2>4, <2>8
<1> QED
  BY <1>2, <1>3 DEF e, m

\* What is left of a sequence follows what all of it does (Swallow, NetworkBreaks).
LEMMA FollowsSubSeq ==
    ASSUME NEW d \in Seq(Receivable), NEW t \in Seq(Messages), NEW s \in Seq(Messages),
           Follows(d, t, s), NEW i \in 0 .. Len(d), NEW m \in 0 .. Len(d)
    PROVE  Follows(SubSeq(d, i + 1, m), t, s)
<1> DEFINE e == SubSeq(d, i + 1, m)
<1>1. Len(d) \in Nat /\ i \in Nat /\ m \in Nat
  BY LenProperties
<1>2. \A j \in i + 1 .. m : d[j] \in Receivable
  BY <1>1, ElementOfSeq
<1>3. /\ Len(e) = IF i + 1 <= m THEN m - i ELSE 0
      /\ \A j \in 1 .. Len(e) : e[j] = d[i + j]
  BY <1>1, <1>2, SubSeqProperties
<1> HIDE DEF e
<1>4. \A j \in MessagesAt(e) : j \in Nat /\ j + i \in MessagesAt(d) /\ e[j] = d[j + i]
  <2> SUFFICES ASSUME NEW j \in MessagesAt(e)
               PROVE  j \in Nat /\ j + i \in MessagesAt(d) /\ e[j] = d[j + i]
    OBVIOUS
  <2>1. j \in 1 .. Len(e) /\ e[j] = d[i + j] /\ e[j].type = "publish"
    BY <1>3 DEF MessagesAt
  <2>2. j \in Nat /\ j + i = i + j /\ i + j \in 1 .. Len(d)
    BY <1>1, <1>3, <2>1
  <2> QED
    BY <2>1, <2>2 DEF MessagesAt
<1> QED
  BY <1>1, <1>4, FollowsPart DEF e

\* A message that nobody sent makes no difference.
LEMMA FollowsMadeUp ==
    ASSUME NEW d \in Seq(Receivable), NEW t \in Seq(Messages), NEW s \in Seq(Messages),
           NEW m \in Messages, m.n = 0, Follows(d, t, s)
    PROVE  Follows(d, Append(t, m), s)
<1>1. /\ Len(t) \in Nat /\ Len(Append(t, m)) = Len(t) + 1 /\ Append(t, m)[Len(t) + 1] = m
      /\ \A i \in 1 .. Len(t) : Append(t, m)[i] = t[i]
  BY AppendProperties, LenProperties
<1>2. \A i \in MessagesAt(d), j \in 1 .. Len(Append(t, m)) : Append(t, m)[j].n < d[i].n
  <2> SUFFICES ASSUME NEW i \in MessagesAt(d), NEW j \in 1 .. Len(Append(t, m))
               PROVE  Append(t, m)[j].n < d[i].n
    OBVIOUS
  <2>1. CASE j = Len(t) + 1
    <3>1. d[i].n \in 1 .. Len(s) /\ Len(s) \in Nat
      BY LenProperties DEF Follows
    <3> QED
      BY <1>1, <2>1, <3>1
  <2>2. CASE j \in 1 .. Len(t)
    BY <1>1, <2>2 DEF Follows
  <2> QED
    BY <1>1, <2>1, <2>2
<1> QED
  BY <1>2 DEF Follows

\* What has been taken out are messages.
LEMMA OutTypes ==
    ASSUME Shapes
    PROVE  Out \in Seq(Messages) /\ sent \in Seq(Messages) /\ down \in Seq(Receivable)
BY AppendProperties DEF Shapes, Out

\* Steps that only shorten what comes, or leave it.
LEMMA RisingUnmoved ==
    ASSUME Rising, Shapes, Out' = Out, UNCHANGED sent, pc' \notin Ended => pc \notin Ended,
           down' = down \/ (down # << >> /\ down' = Tail(down))
           \/ \E i, m \in 0 .. Len(down) : down' = SubSeq(down, i + 1, m)
    PROVE  Rising'
<1>1. Follows(down, Out, sent) => Follows(down', Out, sent)
  BY OutTypes, FollowsTail, FollowsSubSeq
<1> QED
  BY <1>1 DEF Rising

\* The client hands on what comes, in its order, or makes something up
\* (loop_forever).
LEMMA ClientRising ==
    ASSUME TypeOK, Shapes, Rising,
           \/ CallConnect \/ CallPublish \/ CallSubscribe \/ CallDisconnect \/ SendError
           \/ ReadFirst \/ Handle \/ HandleError \/ Timeout \/ LoopTimeout \/ Misread \/ ReadError
           \/ \E packet \in ToSet(down) :
                  Answered(packet) \/ PassedOver(packet) \/ Unexpected(packet) \/ Dispatch(packet)
    PROVE  Rising'
<1> USE DEF Reading, Calls, Ended
<1>1. CASE \/ CallConnect \/ CallPublish \/ CallSubscribe \/ CallDisconnect \/ SendError
           \/ ReadFirst \/ Timeout \/ LoopTimeout \/ ReadError
  <2>1. /\ UNCHANGED <<sent, delivered, down>> /\ pc \notin Ended
        /\ pc # "handling" /\ pc' # "handling"
    BY <1>1 DEF CallConnect, CallPublish, CallSubscribe, CallDisconnect, SendError, ReadFirst,
                Timeout, LoopTimeout, ReadError, Raise
  <2>2. Out' = Out
    BY <2>1 DEF Out
  <2> QED
    BY <2>1, <2>2, RisingUnmoved
<1>2. CASE Handle
  <2>1. /\ UNCHANGED <<sent, down>> /\ pc = "handling" /\ pc' = "looping"
        /\ delivered' = Append(delivered, handling)
    BY <1>2 DEF Handle
  <2>2. Out' = Out
    BY <2>1 DEF Out
  <2> QED
    BY <2>1, <2>2, RisingUnmoved
<1>3. CASE HandleError
  <2>1. /\ sent' = sent /\ pc = "handling" /\ pc' = "raised"
        /\ delivered' = delivered \/ delivered' = Append(delivered, handling)
    BY <1>3 DEF HandleError, Raise
  <2>2. Genuine(Append(delivered, handling), sent)
    BY <2>1 DEF Rising, Out
  <2>3. Genuine(delivered, sent)
    <3>1. handling \in Messages /\ delivered \in Seq(Messages)
      BY <2>1 DEF Shapes
    <3>2. /\ Len(delivered) \in Nat /\ Len(Append(delivered, handling)) = Len(delivered) + 1
          /\ \A i \in 1 .. Len(delivered) : Append(delivered, handling)[i] = delivered[i]
      BY <3>1, AppendProperties, LenProperties
    <3> QED
      BY <2>2, <3>2 DEF Genuine
  <2> QED
    BY <2>1, <2>2, <2>3 DEF Rising, Out
<1>4. ASSUME NEW i \in 0 .. Len(down), NEW part \in {"no", "yes"},
             MisreadOn(i, part) \/ MisreadEnds(i, part)
      PROVE  Rising'
  <2>1. /\ UNCHANGED <<sent, delivered>> /\ pc = "looping" /\ pc' # "handling"
        /\ down' = SubSeq(down, i + 1, Len(down))
    BY <1>4 DEF MisreadOn, MisreadEnds, Swallow, Raise
  <2>2. Out' = Out
    BY <2>1 DEF Out
  <2>3. Len(down) \in 0 .. Len(down)
    BY LenProperties DEF Shapes
  <2> QED
    BY <2>1, <2>2, <2>3, RisingUnmoved
<1>5. ASSUME NEW i \in 0 .. Len(down), NEW part \in {"no", "yes"}, NEW id \in 0 .. MaxMessages,
             MisreadMessage(i, part, id)
      PROVE  Rising'
  <2>1. /\ UNCHANGED <<sent, delivered>> /\ pc = "looping" /\ pc' = "handling"
        /\ down' = SubSeq(down, i + 1, Len(down)) /\ handling' = MadeUp(id)
    BY <1>5 DEF MisreadMessage, Swallow
  <2>2. MadeUp(id) \in Messages /\ MadeUp(id).n = 0
    BY MqttClientAssumption DEF MadeUp, Messages
  <2>3. Out' = Append(delivered, MadeUp(id)) /\ Out = delivered
    BY <2>1 DEF Out
  <2>4. Len(down) \in 0 .. Len(down)
    BY LenProperties DEF Shapes
  <2>5. /\ delivered \in Seq(Messages) /\ sent \in Seq(Messages) /\ down \in Seq(Receivable)
        /\ Genuine(delivered, sent) /\ Follows(down, delivered, sent)
    BY <2>1, <2>3, OutTypes DEF Rising
  <2>6. Genuine(Append(delivered, MadeUp(id)), sent)
    BY <2>2, <2>5, GenuineGrows
  <2>7. Follows(down, Append(delivered, MadeUp(id)), sent)
    BY <2>2, <2>5, FollowsMadeUp
  <2>8. Follows(down', Append(delivered, MadeUp(id)), sent)
    BY <2>1, <2>2, <2>4, <2>5, <2>7, AppendProperties, FollowsSubSeq
  <2> QED
    BY <2>1, <2>3, <2>6, <2>8 DEF Rising
<1>6. ASSUME NEW packet,
             Answered(packet) \/ PassedOver(packet) \/ Unexpected(packet) \/ Dispatch(packet)
      PROVE  Rising'
  <2>0. /\ Read(packet) /\ down # << >> /\ packet = Head(down) /\ down' = Tail(down)
        /\ UNCHANGED <<sent, delivered>>
    BY <1>6, ReadTypes DEF Answered, PassedOver, Unexpected, Dispatch
  <2>1. CASE Answered(packet) \/ PassedOver(packet) \/ Unexpected(packet)
    <3>1. pc \notin Ended \cup {"handling"} /\ pc' # "handling"
      BY <2>1 DEF Answered, PassedOver, Unexpected, Raise
    <3>2. Out' = Out
      BY <2>0, <3>1 DEF Out
    <3> QED
      BY <2>0, <3>1, <3>2, RisingUnmoved
  <2>2. CASE Dispatch(packet)
    <3>1. pc = "looping" /\ pc' = "handling" /\ handling' = packet /\ packet.type = "publish"
      BY <2>2 DEF Dispatch
    <3>2. Out = delivered /\ Out' = Append(delivered, packet)
      BY <2>0, <3>1 DEF Out
    <3>3. /\ delivered \in Seq(Messages) /\ sent \in Seq(Messages) /\ down \in Seq(Receivable)
          /\ Genuine(delivered, sent) /\ Follows(down, delivered, sent)
      BY <3>1, <3>2, OutTypes DEF Rising
    <3>4. Genuine(Append(delivered, packet), sent) /\ Follows(down', Append(delivered, packet), sent)
      BY <2>0, <3>1, <3>3, FollowsTail
    <3> QED
      BY <2>0, <3>1, <3>2, <3>4 DEF Rising
  <2> QED
    BY <1>6, <2>1, <2>2
<1>7. CASE Misread
  BY <1>4, <1>5, <1>7 DEF Misread
<1> QED
  BY <1>1, <1>2, <1>3, <1>6, <1>7

\* What the broker sends comes after all that it has sent, and the network only cuts
\* off the end.
LEMMA OutsideRising ==
    ASSUME TypeOK, Shapes, Order, Rising,
           \/ \E packet \in ToSet(up) : BrokerReads(packet)
           \/ BrokerSubAck
           \/ \E q \in {0, 1} : BrokerPublishes(q)
           \/ BrokerDrops \/ NetworkBreaks \/ TcpGivesUp \/ Tick
    PROVE  Rising'
<1>1. ASSUME NEW p \in DownPackets, BrokerSends(p), UNCHANGED <<pc, handling, sent, delivered>>
      PROVE  Rising'
  <2>1. p \in Receivable /\ p.type # "publish" /\ down' = Append(down, p)
    BY <1>1 DEF DownPackets, Receivable, BrokerSends
  <2>2. Out' = Out
    BY <1>1 DEF Out
  <2>3. MessagesAt(down') = MessagesAt(down) /\ \A i \in MessagesAt(down) : down'[i] = down[i]
    BY <2>1, OutTypes, AppendShifts DEF MessagesAt
  <2>4. Follows(down, Out, sent) => Follows(down', Out, sent)
    BY <2>3 DEF Follows
  <2> QED
    BY <1>1, <2>2, <2>4 DEF Rising
<1>2. ASSUME UNCHANGED <<pc, handling, sent, delivered, down>> PROVE Rising'
  BY <1>2 DEF Rising, Out
<1>3. ASSUME NEW packet, BrokerReads(packet) PROVE Rising'
  <2>1. up # << >> /\ packet = Head(up)
    BY <1>3 DEF BrokerReads
  <2>2. packet.id \in Nat
    BY <2>1, HeadTailProperties DEF Shapes, UpPackets
  <2>3. UNCHANGED down \/ \E p \in DownPackets : BrokerSends(p)
    BY <1>3, <2>2, BrokerPackets DEF BrokerReads
  <2>4. UNCHANGED <<pc, handling, sent, delivered>>
    BY <1>3 DEF BrokerReads
  <2> QED
    BY <1>1, <1>2, <2>3, <2>4
<1>4. CASE BrokerSubAck
  <2>1. packetId \in Nat
    BY MqttClientAssumption DEF TypeOK, Ids
  <2>2. \E p \in DownPackets : BrokerSends(p)
    BY <1>4, <2>1, BrokerPackets DEF BrokerSubAck
  <2> QED
    BY <1>1, <1>4, <2>2 DEF BrokerSubAck
<1>5. ASSUME NEW q \in {0, 1}, BrokerPublishes(q) PROVE Rising'
  <2> DEFINE p == Message(q, Len(sent) + 1)
  <2> DEFINE last == Len(down) + 1
  <2>1. /\ Out \in Seq(Messages) /\ sent \in Seq(Messages) /\ down \in Seq(Receivable)
        /\ Len(sent) \in Nat /\ Len(down) \in Nat
    BY OutTypes, LenProperties
  <2>2. p \in Messages /\ p \in Receivable /\ p.type = "publish" /\ p.n = Len(sent) + 1
    BY <2>1 DEF Message, Messages, Receivable
  <2>3. /\ down' = Append(down, p) /\ sent' = Append(sent, p)
        /\ UNCHANGED <<pc, handling, delivered>>
    BY <1>5 DEF BrokerPublishes, BrokerSends
  <2> HIDE DEF p
  <2>4. Out' = Out
    BY <2>3 DEF Out
  <2>5. Genuine(Out, sent')
    BY <2>1, <2>2, <2>3, GenuineLater DEF Rising
  <2>6. /\ Len(sent') = Len(sent) + 1 /\ sent'[Len(sent) + 1] = p
        /\ \A i \in 1 .. Len(sent) : sent'[i] = sent[i]
    BY <2>1, <2>2, <2>3, AppendProperties
  <2>7. /\ MessagesAt(down') = MessagesAt(down) \cup {last} /\ down'[last] = p
        /\ \A i \in MessagesAt(down) : i \in Nat /\ i < last /\ down'[i] = down[i]
    BY <2>1, <2>2, <2>3, AppendShifts DEF MessagesAt
  <2>8. \A j \in 1 .. Len(Out) : Out[j].n < p.n
    <3> SUFFICES ASSUME NEW j \in 1 .. Len(Out) PROVE Out[j].n < p.n
      OBVIOUS
    <3>1. Out[j].n = 0 \/ Out[j].n \in 1 .. Len(sent)
      BY DEF Rising, Genuine
    <3> QED
      BY <2>1, <2>2, <3>1
  <2>9. ASSUME pc \notin Ended PROVE Follows(down', Out, sent')
    <3>1. Follows(down, Out, sent) /\ last \in Nat
      BY <2>1, <2>9 DEF Rising
    <3> HIDE DEF last
    <3>2. ASSUME NEW i \in MessagesAt(down')
          PROVE  /\ down'[i].n \in 1 .. Len(sent') /\ down'[i] = sent'[down'[i].n]
                 /\ \A j \in MessagesAt(down') : i < j => down'[i].n < down'[j].n
                 /\ \A j \in 1 .. Len(Out) : Out[j].n < down'[i].n
      <4>1. CASE i = last
        <5>1. \A j \in MessagesAt(down') : ~(i < j)
          BY <2>7, <3>1, <4>1
        <5> QED
          BY <2>1, <2>2, <2>6, <2>7, <2>8, <4>1, <5>1
      <4>2. CASE i \in MessagesAt(down)
        <5>1. /\ down[i].n \in 1 .. Len(sent) /\ down[i] = sent[down[i].n] /\ down'[i] = down[i]
              /\ \A j \in 1 .. Len(Out) : Out[j].n < down[i].n
              /\ \A j \in MessagesAt(down) : i < j => down[i].n < down[j].n
          BY <2>7, <3>1, <4>2 DEF Follows
        <5>2. down'[i].n \in 1 .. Len(sent') /\ down'[i] = sent'[down'[i].n]
          BY <2>1, <2>6, <5>1
        <5>3. ASSUME NEW j \in MessagesAt(down'), i < j PROVE down'[i].n < down'[j].n
          <6>1. CASE j = last
            BY <2>1, <2>2, <2>7, <5>1, <6>1
          <6>2. CASE j \in MessagesAt(down)
            BY <2>7, <5>1, <5>3, <6>2
          <6> QED
            BY <2>7, <6>1, <6>2
        <5> QED
          BY <5>1, <5>2, <5>3
      <4> QED
        BY <2>7, <4>1, <4>2
    <3> QED
      BY <3>2 DEF Follows
  <2> QED
    BY <2>3, <2>4, <2>5, <2>9 DEF Rising
<1>6. CASE NetworkBreaks
  <2>1. PICK m \in 0 .. Len(down) : down' = SubSeq(down, 1, m)
    BY <1>6 DEF NetworkBreaks
  <2>2. UNCHANGED <<pc, handling, sent, delivered>>
    BY <1>6 DEF NetworkBreaks
  <2>3. 0 \in 0 .. Len(down) /\ down' = SubSeq(down, 0 + 1, m)
    BY <2>1, LenProperties DEF Shapes
  <2>4. Out' = Out
    BY <2>2 DEF Out
  <2> QED
    BY <2>2, <2>3, <2>4, RisingUnmoved
<1>7. CASE BrokerDrops \/ TcpGivesUp \/ Tick
  BY <1>2, <1>7 DEF BrokerDrops, TcpGivesUp, Tick
<1> QED
  BY <1>3, <1>4, <1>5, <1>6, <1>7

\* No message is repeated or overtaken, whatever happens.
LEMMA RisingStep ==
    ASSUME TypeOK, Shapes, Order, Rising, [Next]_vars
    PROVE  Rising'
<1>1. CASE UNCHANGED vars
  BY <1>1 DEF vars, Rising, Out
<1> QED
  BY <1>1, ClientRising, OutsideRising DEF Next, Run

-----------------------------------------------------------------------------
(* Acknowledgements follow the handling of messages.                       *)

\* Sending anything else is no acknowledgement (_send).
LEMMA OtherSent ==
    ASSUME NEW u \in Seq(UpPackets), NEW p \in UpPackets, p.type # "puback", NEW a
    PROVE  /\ AcksSent(a, Append(u, p)) = AcksSent(a, u)
           /\ AcksRise(a, u) => AcksRise(a, Append(u, p))
<1> DEFINE v == Append(u, p)
<1>1. /\ Len(v) = Len(u) + 1 /\ Len(u) \in Nat /\ DOMAIN u = 1 .. Len(u) /\ DOMAIN v = 1 .. Len(v)
      /\ v[Len(u) + 1] = p /\ \A i \in 1 .. Len(u) : v[i] = u[i]
  BY AppendProperties, LenProperties
<1> HIDE DEF v
<1>2. AcksAt(v) = AcksAt(u) /\ \A i \in AcksAt(u) : v[i] = u[i]
  BY <1>1 DEF AcksAt
<1>3. AcksSent(a, v) = AcksSent(a, u)
  BY <1>2 DEF AcksSent
<1>4. AcksRise(a, u) => AcksRise(a, v)
  BY <1>2 DEF AcksRise
<1> QED
  BY <1>3, <1>4 DEF v

\* An acknowledgement of a later message keeps the order (loop_forever).
LEMMA AckSent ==
    ASSUME NEW u \in Seq(UpPackets), NEW a \in Seq(Nat), NEW n \in Nat
    PROVE  /\ AcksSent(a, Append(u, PubAck(n))) = AcksSent(a, u) \cup {n}
           /\ AcksRise(a, u) /\ (\A k \in AcksSent(a, u) : k < n) =>
                  AcksRise(a, Append(u, PubAck(n)))
<1> DEFINE p == PubAck(n)
<1> DEFINE v == Append(u, p)
<1> DEFINE last == Len(u) + 1
<1>1. p \in UpPackets /\ p.type = "puback" /\ p.id = n
  BY DEF PubAck, UpPackets, UpTypes
<1> HIDE DEF p
<1>2. /\ Len(v) = last /\ Len(u) \in Nat /\ DOMAIN u = 1 .. Len(u) /\ DOMAIN v = 1 .. Len(v)
      /\ v[last] = p /\ \A i \in 1 .. Len(u) : v[i] = u[i]
  BY <1>1, AppendProperties, LenProperties
<1> HIDE DEF v
<1>3. /\ AcksAt(v) = AcksAt(u) \cup {last}
      /\ \A i \in AcksAt(u) : v[i] = u[i] /\ i \in Nat /\ i < last
  BY <1>1, <1>2 DEF AcksAt
<1>4. last \in Nat
  BY <1>2
<1> HIDE DEF last
<1>5. AcksSent(a, v) = AcksSent(a, u) \cup {n}
  BY <1>1, <1>2, <1>3 DEF AcksSent
<1> SUFFICES ASSUME AcksRise(a, u), \A k \in AcksSent(a, u) : k < n
             PROVE  AcksRise(a, v)
  BY <1>5 DEF v, p
<1>6. \A i \in AcksAt(u) : u[i].id < n
  BY DEF AcksSent
<1>7. \A i \in DOMAIN a : a[i] < n
  BY DEF AcksSent, ToSet
<1>8. \A i, j \in AcksAt(v) : i < j => v[i].id < v[j].id
  <2> SUFFICES ASSUME NEW i \in AcksAt(v), NEW j \in AcksAt(v), i < j PROVE v[i].id < v[j].id
    OBVIOUS
  <2>1. i \in AcksAt(u) /\ v[i] = u[i]
    BY <1>3, <1>4
  <2>2. CASE j = last
    BY <2>1, <2>2, <1>1, <1>2, <1>6
  <2>3. CASE j # last
    BY <2>1, <2>3, <1>3 DEF AcksRise
  <2> QED
    BY <2>2, <2>3
<1>9. \A i \in DOMAIN a, j \in AcksAt(v) : a[i] < v[j].id
  BY <1>1, <1>2, <1>3, <1>7 DEF AcksRise
<1>10. \A i, j \in DOMAIN a : i < j => a[i] < a[j]
  BY DEF AcksRise
<1> QED
  BY <1>8, <1>9, <1>10 DEF AcksRise

\* Where acknowledgements are when the broker has read a packet (BrokerReads).
LEMMA AcksShift ==
    ASSUME NEW u \in Seq(UpPackets), u # << >>
    PROVE  /\ \A i \in AcksAt(Tail(u)) : i + 1 \in AcksAt(u) /\ Tail(u)[i] = u[i + 1] /\ i \in Nat /\ 1 <= i
           /\ \A k \in AcksAt(u) : k \in Nat /\ (k # 1 => k - 1 \in AcksAt(Tail(u)) /\ Tail(u)[k - 1] = u[k])
           /\ Head(u) = u[1] /\ (1 \in AcksAt(u) <=> Head(u).type = "puback")
<1> DEFINE v == Tail(u)
<1>1. /\ v \in Seq(UpPackets) /\ Len(v) = Len(u) - 1 /\ Len(u) \in Nat /\ Len(u) > 0
      /\ DOMAIN u = 1 .. Len(u) /\ DOMAIN v = 1 .. Len(v) /\ Head(u) = u[1]
      /\ \A i \in 1 .. Len(v) : v[i] = u[i + 1]
  BY HeadTailProperties, LenProperties, EmptySeq
<1> QED
  BY <1>1 DEF AcksAt

\* Anything else the broker reads is no acknowledgement.
LEMMA OtherRead ==
    ASSUME NEW u \in Seq(UpPackets), u # << >>, Head(u).type # "puback", NEW a
    PROVE  /\ AcksSent(a, Tail(u)) = AcksSent(a, u)
           /\ AcksRise(a, u) => AcksRise(a, Tail(u))
<1> DEFINE v == Tail(u)
<1>1. /\ \A i \in AcksAt(v) : i + 1 \in AcksAt(u) /\ v[i] = u[i + 1] /\ i \in Nat
      /\ \A k \in AcksAt(u) : k - 1 \in AcksAt(v) /\ v[k - 1] = u[k]
  BY AcksShift
<1> HIDE DEF v
<1>2. {v[i].id : i \in AcksAt(v)} = {u[i].id : i \in AcksAt(u)}
  <2>1. \A i \in AcksAt(v) : \E k \in AcksAt(u) : u[k].id = v[i].id
    BY <1>1
  <2>2. \A k \in AcksAt(u) : \E i \in AcksAt(v) : u[k].id = v[i].id
    BY <1>1
  <2> QED
    BY <2>1, <2>2
<1>3. AcksRise(a, u) => AcksRise(a, v)
  BY <1>1 DEF AcksRise
<1> QED
  BY <1>2, <1>3 DEF AcksSent, v

\* An acknowledgement the broker reads stays the same acknowledgement.
LEMMA AckRead ==
    ASSUME NEW u \in Seq(UpPackets), u # << >>, Head(u).type = "puback",
           NEW a \in Seq(Nat)
    PROVE  /\ AcksSent(Append(a, Head(u).id), Tail(u)) = AcksSent(a, u)
           /\ AcksRise(a, u) => AcksRise(Append(a, Head(u).id), Tail(u))
<1> DEFINE v == Tail(u)
<1> DEFINE n == Head(u).id
<1> DEFINE b == Append(a, n)
<1>0. n \in Nat
  BY HeadTailProperties DEF UpPackets
<1>1. /\ \A i \in AcksAt(v) : i + 1 \in AcksAt(u) /\ v[i] = u[i + 1] /\ i \in Nat /\ 1 <= i
      /\ \A k \in AcksAt(u) : k \in Nat /\ (k # 1 => k - 1 \in AcksAt(v) /\ v[k - 1] = u[k])
      /\ 1 \in AcksAt(u) /\ u[1].id = n
  BY AcksShift
<1>2. /\ Len(b) = Len(a) + 1 /\ Len(a) \in Nat /\ DOMAIN a = 1 .. Len(a) /\ DOMAIN b = 1 .. Len(b)
      /\ b[Len(a) + 1] = n /\ \A i \in 1 .. Len(a) : b[i] = a[i]
  BY <1>0, AppendProperties, LenProperties
<1>3. ToSet(b) = ToSet(a) \cup {n}
  BY <1>0, ElementsOfAppend
<1> HIDE DEF v, n, b
<1>4. AcksSent(b, v) = AcksSent(a, u)
  <2>1. \A i \in AcksAt(v) : \E k \in AcksAt(u) : u[k].id = v[i].id
    BY <1>1
  <2>2. \A k \in AcksAt(u) : u[k].id = n \/ \E i \in AcksAt(v) : u[k].id = v[i].id
    BY <1>1
  <2>3. \E k \in AcksAt(u) : u[k].id = n
    BY <1>1
  <2>4. {u[i].id : i \in AcksAt(u)} = {n} \cup {v[i].id : i \in AcksAt(v)}
    BY <2>1, <2>2, <2>3
  <2> QED
    BY <2>4, <1>3 DEF AcksSent
<1> SUFFICES ASSUME AcksRise(a, u) PROVE AcksRise(b, v)
  BY <1>4 DEF v, n, b
<1>5. \A i \in DOMAIN a : a[i] < n
  BY <1>1 DEF AcksRise
<1>6. \A i \in AcksAt(v) : n < v[i].id
  <2> SUFFICES ASSUME NEW i \in AcksAt(v) PROVE n < v[i].id
    OBVIOUS
  <2>1. i + 1 \in AcksAt(u) /\ v[i] = u[i + 1] /\ 1 < i + 1
    BY <1>1
  <2>2. u[1].id < u[i + 1].id
    BY <2>1, <1>1 DEF AcksRise
  <2> QED
    BY <2>1, <2>2, <1>1
<1>7. \A i, j \in DOMAIN b : i < j => b[i] < b[j]
  BY <1>2, <1>5 DEF AcksRise
<1>8. \A i, j \in AcksAt(v) : i < j => v[i].id < v[j].id
  <2> SUFFICES ASSUME NEW i \in AcksAt(v), NEW j \in AcksAt(v), i < j PROVE v[i].id < v[j].id
    OBVIOUS
  <2>1. /\ i + 1 \in AcksAt(u) /\ v[i] = u[i + 1]
        /\ j + 1 \in AcksAt(u) /\ v[j] = u[j + 1]
    BY <1>1
  <2>2. i + 1 < j + 1
    BY <1>1
  <2> QED
    BY <2>1, <2>2 DEF AcksRise
<1>9. \A i \in DOMAIN b, j \in AcksAt(v) : b[i] < v[j].id
  <2> SUFFICES ASSUME NEW i \in DOMAIN b, NEW j \in AcksAt(v) PROVE b[i] < v[j].id
    OBVIOUS
  <2>1. CASE i \in DOMAIN a
    <3>1. b[i] = a[i] /\ j + 1 \in AcksAt(u) /\ v[j] = u[j + 1]
      BY <2>1, <1>1, <1>2
    <3> QED
      BY <2>1, <3>1 DEF AcksRise
  <2>2. CASE i \notin DOMAIN a
    <3>1. i = Len(a) + 1
      BY <2>2, <1>2
    <3> QED
      BY <3>1, <1>2, <1>6
  <2> QED
    BY <2>1, <2>2
<1> QED
  BY <1>7, <1>8, <1>9 DEF AcksRise

\* What on_message is done with when it is done with one more message.
LEMMA DoneGrows ==
    ASSUME NEW d \in Seq(Messages), NEW m \in Messages
    PROVE  Done(Append(d, m)) = IF NeedsAck(m) THEN Done(d) \cup {m.id} ELSE Done(d)
<1> DEFINE e == Append(d, m)
<1>1. /\ Len(e) = Len(d) + 1 /\ Len(d) \in Nat /\ DOMAIN d = 1 .. Len(d) /\ DOMAIN e = 1 .. Len(e)
      /\ e[Len(d) + 1] = m /\ \A i \in 1 .. Len(d) : e[i] = d[i]
  BY AppendProperties, LenProperties
<1> HIDE DEF e
<1>2. DOMAIN e = DOMAIN d \cup {Len(d) + 1} /\ \A i \in DOMAIN d : e[i] = d[i]
  BY <1>1
<1> DEFINE D == {k \in DOMAIN d : NeedsAck(d[k])}
<1>3. {k \in DOMAIN e : NeedsAck(e[k])} = D \cup {k \in {Len(d) + 1} : NeedsAck(m)}
  BY <1>1, <1>2
<1>4. CASE NeedsAck(m)
  <2>1. {k \in DOMAIN e : NeedsAck(e[k])} = D \cup {Len(d) + 1}
    BY <1>3, <1>4
  <2>2. \A k \in D : e[k] = d[k]
    BY <1>2
  <2> QED
    BY <1>1, <1>4, <2>1, <2>2 DEF Done, e
<1>5. CASE ~NeedsAck(m)
  <2>1. {k \in DOMAIN e : NeedsAck(e[k])} = D
    BY <1>3, <1>5
  <2>2. \A k \in D : e[k] = d[k]
    BY <1>2
  <2> QED
    BY <1>5, <2>1, <2>2 DEF Done, e
<1> QED
  BY <1>4, <1>5

\* The messages on_message is done with come before the one it is called with.
LEMMA DoneBefore ==
    ASSUME Shapes, Order, Acknowledging, framing = "kept"
    PROVE  \A k \in Done(delivered) : k \in Nat /\ k <= Len(delivered)
<1> SUFFICES ASSUME NEW i \in DOMAIN delivered, NeedsAck(delivered[i])
             PROVE  delivered[i].id \in Nat /\ delivered[i].id <= Len(delivered)
  BY DEF Done
<1>1. /\ DOMAIN delivered = 1 .. Len(delivered) /\ Len(delivered) \in Nat /\ Len(sent) \in Nat
      /\ Len(delivered) <= Len(sent) /\ \A j \in 1 .. Len(delivered) : delivered[j] = sent[j]
  BY LenProperties, PrefixPointwise DEF Shapes, Order
<1>2. delivered[i].id \in {0, i}
  BY <1>1 DEF Acknowledging
<1> QED
  BY <1>1, <1>2 DEF NeedsAck

\* Steps that leave what is acknowledged and handled as it is.
LEMMA AcksUnmoved ==
    ASSUME Acknowledging, UNCHANGED <<sent, delivered>>,
           AcksSent(acked', up') = AcksSent(acked, up),
           AcksRise(acked, up) => AcksRise(acked', up'),
           framing' = "kept" => framing = "kept",
           link' = "up" => link = "up",
           link' = "closed" => pc' \in Ended,
           link' # "closed" => link # "closed",
           link' # "up" /\ up' = << >> => up = << >>
    PROVE  Acknowledging'
BY DEF Acknowledging, AcksFollowHandling

\* What Send does to acknowledgements if the packet is none.
LEMMA SendAcks ==
    ASSUME Shapes, Acknowledging, NEW p \in UpPackets, p.type # "puback", Send(p),
           acked' = acked
    PROVE  /\ AcksSent(acked', up') = AcksSent(acked, up)
           /\ AcksRise(acked, up) => AcksRise(acked', up')
           /\ up' # << >>
<1>2. CASE up' = Append(up, p)
  <2>1. up \in Seq(UpPackets) /\ Len(up) \in Nat /\ Len(up') = Len(up) + 1
    BY <1>2, AppendProperties, LenProperties DEF Shapes
  <2>2. up' # << >>
    BY <2>1, EmptySeq
  <2> QED
    BY <1>2, <2>2, OtherSent DEF Shapes
<1>3. CASE up' = up /\ up # << >>
  BY <1>3
<1> QED
  BY <1>2, <1>3 DEF Send

\* The client's other steps acknowledge nothing.
LEMMA ClientAcks ==
    ASSUME TypeOK, Shapes, Order, Acknowledging,
           \/ CallConnect \/ CallPublish \/ CallSubscribe \/ CallDisconnect \/ SendError
           \/ ReadFirst \/ Timeout \/ LoopTimeout \/ Misread \/ ReadError
           \/ \E packet \in ToSet(down) :
                  Answered(packet) \/ PassedOver(packet) \/ Unexpected(packet) \/ Dispatch(packet)
    PROVE  Acknowledging'
<1> USE DEF Reading, Calls, Ended
<1>0. link = "closed" => pc \in Ended
  BY DEF Acknowledging
<1>1. CASE CallConnect \/ CallPublish \/ CallSubscribe \/ LoopTimeout
  <2>1. /\ UNCHANGED <<sent, delivered, acked, link>> /\ pc \notin Ended
        /\ framing' = "kept" => framing = "kept"
        /\ \E p \in UpPackets : p.type # "puback" /\ Send(p)
    <3>1. /\ Connect.type # "puback" /\ PingReq.type # "puback"
          /\ Publish(nextId).type # "puback" /\ Subscribe(nextId).type # "puback"
      BY DEF Connect, PingReq, Publish, Subscribe
    <3>2. nextId \in Ids
      BY DEF TypeOK
    <3> QED
      BY <1>1, <3>1, <3>2, ClientPackets DEF CallConnect, CallPublish, CallSubscribe, LoopTimeout, Resume
  <2>2. /\ AcksSent(acked', up') = AcksSent(acked, up) /\ up' # << >>
        /\ AcksRise(acked, up) => AcksRise(acked', up')
    BY <2>1, SendAcks
  <2> QED
    BY <2>1, <2>2, <1>0, AcksUnmoved
<1>2. CASE CallDisconnect \/ SendError \/ Timeout \/ ReadError
  BY <1>0, <1>2, AcksUnmoved DEF CallDisconnect, SendError, Timeout, ReadError, Raise
<1>3. CASE ReadFirst
  BY <1>0, <1>3, AcksUnmoved DEF ReadFirst
<1>4. CASE Misread
  <2>1. /\ UNCHANGED <<sent, delivered, acked, up>> /\ pc \notin Ended
        /\ framing' # "kept"
        /\ link' = link \/ (link' = "closed" /\ pc' \in Ended)
    BY <1>4 DEF Misread, MisreadOn, MisreadMessage, MisreadEnds, Swallow, Raise
  <2> QED
    BY <1>0, <2>1, AcksUnmoved
<1>5. ASSUME NEW packet,
             Answered(packet) \/ PassedOver(packet) \/ Unexpected(packet) \/ Dispatch(packet)
      PROVE  Acknowledging'
  <2>1. UNCHANGED <<sent, delivered, acked, up, framing>>
    BY <1>5 DEF Answered, PassedOver, Unexpected, Dispatch
  <2>2. CASE Unexpected(packet)
    BY <1>0, <2>1, <2>2, AcksUnmoved DEF Unexpected, Raise
  <2>3. CASE Answered(packet) \/ PassedOver(packet) \/ Dispatch(packet)
    <3>1. link' = link /\ pc \notin Ended
      BY <2>3 DEF Answered, PassedOver, Dispatch
    <3> QED
      BY <1>0, <2>1, <3>1, AcksUnmoved
  <2> QED
    BY <1>5, <2>2, <2>3
<1> QED
  BY <1>1, <1>2, <1>3, <1>4, <1>5

\* The message that on_message returns from is the next, and is acknowledged unless
\* its acknowledgement is stuck behind a lost connection (loop_forever).
LEMMA HandleAcks ==
    ASSUME Shapes, Order, Acknowledging, Handle \/ HandleError
    PROVE  Acknowledging'
<1> DEFINE L == Len(delivered)
<1> DEFINE acks == AcksSent(acked, up)
<1> DEFINE done == Done(delivered)
<1> DEFINE id == handling.id
<1>1. /\ pc = "handling" /\ UNCHANGED <<sent, acked, framing>>
      /\ handling \in Messages /\ delivered \in Seq(Messages) /\ up \in Seq(UpPackets)
      /\ acked \in Seq(Nat) /\ L \in Nat /\ id \in Nat
  BY LenProperties DEF Handle, HandleError, Shapes, Messages
<1>2. framing = "kept" /\ NeedsAck(handling) => id = L + 1
  <2> SUFFICES ASSUME framing = "kept", NeedsAck(handling) PROVE id = L + 1
    OBVIOUS
  <2>1. Len(sent) \in Nat /\ L < Len(sent) /\ handling = sent[L + 1]
    BY <1>1, LenProperties DEF Order, Shapes
  <2> QED
    BY <1>1, <2>1 DEF Acknowledging, NeedsAck
<1>3. framing = "kept" => \A k \in done : k \in Nat /\ k <= L
  BY DoneBefore
<1>4. /\ acks \subseteq done /\ link # "closed"
      /\ framing = "kept" =>
             /\ \A a \in acks, d \in done : d < a => d \in acks
             /\ AcksRise(acked, up)
             /\ link = "up" \/ up = << >> => acks = done
  BY <1>1 DEF Acknowledging, AcksFollowHandling, Ended
<1>5. delivered' = delivered \/ delivered' = Append(delivered, handling)
  BY DEF Handle, HandleError
<1>6. /\ delivered' = Append(delivered, handling) =>
             Done(delivered') = IF NeedsAck(handling) THEN done \cup {id} ELSE done
      /\ delivered' = delivered => Done(delivered') = done
  BY <1>1, DoneGrows
<1> HIDE DEF acks, done, L, id
<1>7. Done(delivered') = done \/ (NeedsAck(handling) /\ Done(delivered') = done \cup {id})
  BY <1>5, <1>6
<1>8. /\ acks \subseteq Done(delivered')
      /\ framing = "kept" => \A a \in acks, d \in Done(delivered') : d < a => d \in acks
  <2>1. acks \subseteq Done(delivered')
    BY <1>4, <1>7
  <2>2. ASSUME framing = "kept", NEW a \in acks, NEW d \in Done(delivered'), d < a
        PROVE  d \in acks
    <3>1. a \in Nat /\ a <= L
      BY <1>3, <1>4, <2>2
    <3>2. d # L + 1
      BY <1>1, <2>2, <3>1
    <3>3. d \in done
      BY <1>2, <1>7, <2>2, <3>2
    <3> QED
      BY <1>4, <2>2, <3>3
  <2> QED
    BY <2>1, <2>2
<1>9. CASE HandleError
  <2>1. /\ up' = up /\ link' = "closed" /\ pc' \in Ended
    BY <1>9 DEF HandleError, Raise, Ended
  <2> QED
    BY <1>1, <1>4, <1>8, <2>1 DEF Acknowledging, AcksFollowHandling, acks
<1>10. CASE Handle
  <2>1. /\ delivered' = Append(delivered, handling) /\ link' = link
        /\ IF NeedsAck(handling) THEN Send(PubAck(id)) ELSE up' = up
    BY <1>10 DEF Handle, id
  <2>2. CASE NeedsAck(handling) /\ (link = "up" \/ up = << >>)
    <3>1. up' = Append(up, PubAck(id))
      BY <2>1, <2>2 DEF Send
    <3>2. framing = "kept" => \A k \in acks : k < id
      BY <1>1, <1>2, <1>3, <1>4, <2>2
    <3>3. AcksSent(acked, up') = acks \cup {id} /\ (framing = "kept" => AcksRise(acked, up'))
      BY <1>1, <1>4, <3>1, <3>2, AckSent DEF acks
    <3>4. Done(delivered') = done \cup {id} /\ (framing = "kept" => acks = done)
      BY <1>4, <1>6, <2>1, <2>2
    <3> QED
      BY <1>1, <1>4, <2>1, <3>3, <3>4 DEF Acknowledging, AcksFollowHandling
  <2>3. CASE ~(NeedsAck(handling) /\ (link = "up" \/ up = << >>))
    <3>1. up' = up
      BY <2>1, <2>3 DEF Send
    <3>2. link = "up" \/ up = << >> => Done(delivered') = done
      BY <1>6, <2>1, <2>3
    <3> QED
      BY <1>1, <1>4, <1>8, <2>1, <3>1, <3>2 DEF Acknowledging, AcksFollowHandling, acks
  <2> QED
    BY <2>2, <2>3
<1> QED
  BY <1>9, <1>10

\* The broker takes acknowledgements in order; the network and time add none.
LEMMA OutsideAcks ==
    ASSUME TypeOK, Shapes, Acknowledging,
           \/ \E packet \in ToSet(up) : BrokerReads(packet)
           \/ BrokerSubAck
           \/ \E q \in {0, 1} : BrokerPublishes(q)
           \/ BrokerDrops \/ NetworkBreaks \/ TcpGivesUp \/ Tick
    PROVE  Acknowledging'
<1>0. link = "closed" => pc \in Ended
  BY DEF Acknowledging
<1>1. ASSUME NEW packet, BrokerReads(packet) PROVE Acknowledging'
  <2>1. /\ link = "up" /\ up # << >> /\ packet = Head(up) /\ up' = Tail(up)
        /\ UNCHANGED <<sent, delivered, link, pc, framing>>
        /\ acked' = IF packet.type = "puback" THEN Append(acked, packet.id) ELSE acked
    BY <1>1 DEF BrokerReads
  <2>2. /\ AcksSent(acked', up') = AcksSent(acked, up)
        /\ AcksRise(acked, up) => AcksRise(acked', up')
    BY <2>1, AckRead, OtherRead DEF Shapes
  <2> QED
    BY <1>0, <2>1, <2>2, AcksUnmoved
<1>2. ASSUME NEW q \in {0, 1}, BrokerPublishes(q) PROVE Acknowledging'
  <2>1. /\ sent \in Seq(Messages) /\ Len(sent) \in Nat
        /\ sent' = Append(sent, Message(q, Len(sent) + 1))
        /\ UNCHANGED <<delivered, acked, up, link, pc, framing>>
    BY <1>2, LenProperties DEF BrokerPublishes, Shapes
  <2> DEFINE p == Message(q, Len(sent) + 1)
  <2>2. p \in Messages /\ p.id \in {0, Len(sent) + 1}
    BY <2>1 DEF Message, Messages
  <2> HIDE DEF p
  <2>3. /\ Len(sent') = Len(sent) + 1 /\ sent'[Len(sent) + 1] = p
        /\ \A i \in 1 .. Len(sent) : sent'[i] = sent[i]
    BY <2>1, <2>2, AppendProperties DEF p
  <2>4. \A i \in 1 .. Len(sent') : sent'[i].id \in {0, i}
    <3> SUFFICES ASSUME NEW i \in 1 .. Len(sent') PROVE sent'[i].id \in {0, i}
      OBVIOUS
    <3>1. i \in 1 .. Len(sent) \/ i = Len(sent) + 1
      BY <2>1, <2>3
    <3> QED
      BY <2>2, <2>3, <3>1 DEF Acknowledging
  <2> QED
    BY <2>1, <2>4 DEF Acknowledging, AcksFollowHandling
<1>3. CASE BrokerSubAck \/ BrokerDrops \/ NetworkBreaks \/ TcpGivesUp \/ Tick
  <2>1. /\ UNCHANGED <<sent, delivered, acked, up, pc, framing>>
        /\ link' = link \/ (link # "closed" /\ link' \in {"broken", "lost"})
    <3>1. CASE BrokerSubAck \/ Tick
      BY <3>1 DEF BrokerSubAck, Tick
    <3>2. CASE BrokerDrops \/ NetworkBreaks \/ TcpGivesUp
      BY <3>2 DEF BrokerDrops, NetworkBreaks, TcpGivesUp
    <3> QED
      BY <1>3, <3>1, <3>2
  <2> QED
    BY <1>0, <2>1, AcksUnmoved
<1> QED
  BY <1>1, <1>2, <1>3

\* Acknowledgements follow handling, whatever happens.
LEMMA AcksStep ==
    ASSUME TypeOK, Shapes, Order, Acknowledging, [Next]_vars
    PROVE  Acknowledging'
<1>1. CASE UNCHANGED vars
  BY <1>1 DEF vars, Acknowledging, AcksFollowHandling
<1> QED
  BY <1>1, ClientAcks, HandleAcks, OutsideAcks DEF Next, Run

-----------------------------------------------------------------------------
(* The invariant, and what follows from it.                                *)

\* The invariant holds before connect().
LEMMA InitHolds == Init => MInv
<1> SUFFICES ASSUME Init PROVE MInv
  OBVIOUS
<1>1. Typed
  BY EmptySeq, MqttClientAssumption DEF Init, Typed, Shapes, Ids
<1>2. Silence /\ Counts
  BY DEF Init, Silence, Counts, Counted, Ended
<1>3. Order
  <2>1. << >> \in Seq(Messages) /\ MessagesAt(<< >>) = {}
    BY EmptySeq DEF MessagesAt
  <2>2. IsPrefix(<< >>, << >>)
    BY <2>1, PrefixReflexive
  <2> QED
    BY <2>1, <2>2 DEF Init, Order, Continues, Completes, Got
<1>4. Acknowledging
  <2>1. << >> \in Seq(Nat) /\ Len(<< >>) = 0 /\ ToSet(<< >>) = {} /\ AcksAt(<< >>) = {}
    BY EmptySeq, ElementsOfEmpty DEF AcksAt
  <2>2. AcksSent(<< >>, << >>) = {} /\ AcksRise(<< >>, << >>) /\ Done(<< >>) = {}
    BY <2>1 DEF AcksSent, AcksRise, Done
  <2>3. acked = << >> /\ up = << >> /\ delivered = << >> /\ sent = << >> /\ link = "up"
    BY DEF Init
  <2>4. AcksFollowHandling
    BY <2>2, <2>3 DEF AcksFollowHandling
  <2>5. AcksSent(acked, up) = Done(delivered)
    BY <2>2, <2>3
  <2> QED
    BY <2>1, <2>3, <2>4, <2>5 DEF Acknowledging
<1>5. Rising
  <2>1. MessagesAt(<< >>) = {} /\ 1 .. Len(<< >>) = {}
    BY EmptySeq DEF MessagesAt
  <2> QED
    BY <2>1 DEF Init, Rising, Genuine, Follows, Out
<1> QED
  BY <1>1, <1>2, <1>3, <1>4, <1>5, TypedMeans DEF MInv

\* The invariant holds throughout.
LEMMA InvariantHolds == Spec => []MInv
<1>1. MInv /\ [Next]_vars => MInv'
  BY TypeStep, SilenceStep, CountsStep, OrderStep, RisingStep, AcksStep DEF MInv
<1> QED
  BY InitHolds, <1>1, PTL DEF Spec

\* Packet ids stay between 1 and the largest, however often they wrap
\* (_allocate_packet_id).
THEOREM MqttTypes == Spec => []TypeOK
<1>1. MInv => TypeOK
  BY DEF MInv
<1> QED
  BY <1>1, InvariantHolds, PTL

\* publish() returns only when the broker has taken everything published so far, and
\* when it raises at most the last message is in doubt.
THEOREM AckMeansTakenTheorem == Spec => []AckMeansTaken
<1>1. MInv => AckMeansTaken
  <2> SUFFICES ASSUME MInv, role = "publisher"
               PROVE  /\ taken = calls \/ (calls # << >> /\ taken = Front(calls))
                      /\ pc = "idle" /\ link = "up" => taken = calls /\ up = << >> /\ down = << >>
    BY DEF AckMeansTaken
  <2>1. /\ calls \in Seq(Nat) /\ taken \in Seq(Nat) /\ Len(calls) \in Nat /\ Len(taken) \in Nat
        /\ \A i \in 1 .. Len(calls) : calls[i] = i
        /\ \A i \in 1 .. Len(taken) : taken[i] = i
    BY LenProperties DEF MInv, Shapes, Counts, Counted
  <2>2. Len(taken) = Len(calls) => taken = calls
    <3> SUFFICES ASSUME Len(taken) = Len(calls) PROVE taken = calls
      OBVIOUS
    <3>1. \A i \in 1 .. Len(taken) : taken[i] = calls[i]
      BY <2>1
    <3> QED
      BY <2>1, <3>1, SeqEqual
  <2>3. Len(calls) = Len(taken) + 1 => calls # << >> /\ taken = Front(calls)
    <3> SUFFICES ASSUME Len(calls) = Len(taken) + 1 PROVE calls # << >> /\ taken = Front(calls)
      OBVIOUS
    <3> DEFINE f == SubSeq(calls, 1, Len(calls) - 1)
    <3>1. \A i \in 1 .. Len(calls) - 1 : calls[i] \in Nat
      BY <2>1
    <3>2. /\ f \in Seq(Nat) /\ Len(f) = Len(calls) - 1
          /\ \A i \in 1 .. Len(calls) - 1 : f[i] = calls[i]
      BY <2>1, <3>1, SubSeqProperties
    <3> HIDE DEF f
    <3>3. Len(taken) = Len(f) /\ \A i \in 1 .. Len(taken) : taken[i] = f[i]
      BY <2>1, <3>2
    <3>4. taken = f
      BY <2>1, <3>2, <3>3, SeqEqual
    <3>5. calls # << >>
      BY <2>1, EmptySeq
    <3> QED
      BY <3>4, <3>5 DEF f, Front
  <2> QED
    BY <2>2, <2>3 DEF MInv, Counts
<1> QED
  BY <1>1, InvariantHolds, PTL

\* Nothing is acknowledged before on_message is done with it; and until a timeout comes
\* inside a packet the broker has, or will have, the acknowledgement of exactly the
\* messages that on_message is done with, in their order (loop_forever).
THEOREM AcksFollow == Spec => []AcksFollowHandling
<1>1. MInv => AcksFollowHandling
  BY DEF MInv, Acknowledging
<1> QED
  BY <1>1, InvariantHolds, PTL

\* In loop_forever() the client never goes without sending and without reading for
\* longer than the keep-alive interval, however often it has done so before.
THEOREM PingsTheorem == Spec => []PingsWhenSilent
<1>1. MInv => PingsWhenSilent
  BY MqttClientAssumption DEF MInv, Silence, TypeOK, PingsWhenSilent
<1> QED
  BY <1>1, InvariantHolds, PTL

\* Until a timeout comes inside a packet, on_message gets the broker's messages in
\* order, each once and without a gap; after it, messages may be missing and others
\* made up, but none of the broker's is repeated or overtaken, whatever is misread
\* (loop_forever, _read_packet).
THEOREM DeliversInOrderTheorem == Spec => []DeliversInOrder
<1>1. MInv => DeliversInOrder
  <2> SUFFICES ASSUME MInv PROVE DeliversInOrder
    OBVIOUS
  <2>1. /\ delivered \in Seq(Messages) /\ sent \in Seq(Messages)
        /\ DOMAIN delivered = 1 .. Len(delivered) /\ DOMAIN sent = 1 .. Len(sent)
    BY LenProperties DEF MInv, Shapes
  <2>2. Genuine(delivered, sent)
    <3>1. CASE pc # "handling"
      BY <3>1 DEF MInv, Rising, Out
    <3>2. CASE pc = "handling"
      <4>1. handling \in Messages
        BY <3>2 DEF MInv, Shapes
      <4>2. /\ Len(delivered) \in Nat /\ Len(Append(delivered, handling)) = Len(delivered) + 1
            /\ \A i \in 1 .. Len(delivered) : Append(delivered, handling)[i] = delivered[i]
        BY <2>1, <4>1, AppendProperties, LenProperties
      <4>3. Genuine(Append(delivered, handling), sent)
        BY <3>2 DEF MInv, Rising, Out
      <4> QED
        BY <4>2, <4>3 DEF Genuine
    <3> QED
      BY <3>1, <3>2
  <2>3. framing = "kept" => IsPrefix(delivered, sent)
    BY DEF MInv, Order
  <2> QED
    BY <2>1, <2>2, <2>3 DEF DeliversInOrder, Genuine
<1> QED
  BY <1>1, InvariantHolds, PTL

=============================================================================
