----------------------------- MODULE MqttClient -----------------------------
(***************************************************************************)
(* One connection of the Python MQTT client (mqtt.py), from connect() to   *)
(* its end, as its two kinds of users drive it: a publisher calls          *)
(* publish() again and again and then disconnect(), the collector calls    *)
(* subscribe() and then loop_forever().                                    *)
(*                                                                         *)
(* Packets from the broker are read in two pieces, the first byte and the  *)
(* rest, and every recv() waits at most for the socket timeout.  A timeout *)
(* raises, except in loop_forever(), which takes it for a quiet moment and *)
(* sends PINGREQ, even if it comes inside a packet: then the next byte     *)
(* read is not the first of a packet, and what follows is taken for        *)
(* whatever it looks like until the reader meets the beginning of a packet *)
(* again, by chance or because everything sent has been read.              *)
(*                                                                         *)
(* The broker is as MQTT 3.1.1 allows it: it may send messages before the  *)
(* SUBACK, and it drops a client that is silent for one and a half         *)
(* keep-alive intervals.  The network may break off with an error, or      *)
(* without one: then only unacknowledged data tells, in the end.           *)
(***************************************************************************)
EXTENDS Naturals, Sequences, SequencesExt

CONSTANTS
    MaxId,          \* the largest packet id
    ConnectTimeout, \* the socket timeout of connect(), in ticks
    KeepAlive,      \* the keep-alive interval and the socket timeout from then on
    MaxPublishes,   \* bound: how often publish() is called
    MaxMessages,    \* bound: how many messages the broker sends
    MaxForged,      \* bound: how many messages that nobody sent it takes packets for
    MaxInFlight     \* bound: how many packets each side has yet to read

ASSUME MqttClientAssumption ==
    /\ MaxId \in Nat /\ MaxId > 1
    /\ ConnectTimeout \in Nat \ {0}
    /\ KeepAlive \in Nat \ {0}
    /\ MaxPublishes \in Nat
    /\ MaxMessages \in Nat
    /\ MaxForged \in Nat
    /\ MaxInFlight \in Nat

VARIABLES
    role,        \* whose client it is: "publisher" or "subscriber"
    pc,          \* the call it is in, and what that waits for
    nextId,      \* _next_packet_id
    packetId,    \* the id of the packet whose acknowledgement is waited for
    partial,     \* some of Head(down) has been read: "yes" or "no"
    framing,     \* whether the reader knows where packets begin: "kept", "lost" or
                 \* "regained", that is, lost once and known again
    handling,    \* the message on_message is called with
    up,          \* packets to the broker that it has not read
    down,        \* packets to the client that it has not read to the end
    link,        \* "up", "lost" without an error, "broken", or "closed"
    subscribed,  \* the broker's subscription: "no", "pending" or "yes"
    calls,       \* the messages given to publish()
    taken,       \* those the broker has taken
    sent,        \* the messages the broker has sent
    delivered,   \* those on_message has handled
    acked,       \* those the broker has had acknowledged
    wait,        \* how long recv() has been waiting
    silent,      \* how long the client has sent nothing
    quiet        \* ghost: how long the client has read nothing

client  == <<pc, nextId, packetId, partial, framing, handling>>
network == <<up, down, link>>
history == <<calls, taken, sent, delivered, acked>>
clocks  == <<wait, silent, quiet>>
vars    == <<role, client, network, subscribed, history, clocks>>

-----------------------------------------------------------------------------
(* Packets.                                                                *)

Connect      == [type |-> "connect", id |-> 0]
ConnAck(c)   == [type |-> "connack", id |-> c]
Publish(i)   == [type |-> "publish", id |-> i]
PubAck(i)    == [type |-> "puback", id |-> i]
Subscribe(i) == [type |-> "subscribe", id |-> i]
SubAck(i)    == [type |-> "suback", id |-> i]
Rejected(i)  == [type |-> "rejected", id |-> i]
PingReq      == [type |-> "pingreq", id |-> 0]
PingResp     == [type |-> "pingresp", id |-> 0]

\* A message of the broker: its packet id, or 0 for QoS 0, and which one it is.
Message(q, n) == [type |-> "publish", id |-> IF q = 1 THEN n ELSE 0, n |-> n]

NoMessage == [type |-> "none", id |-> 0]

Ended   == {"raised", "returned", "closed"}
Calls   == {"connack", "puback", "suback"}
Reading == Calls \cup {"looping"}

\* settimeout(): connect() sets another timeout once it is connected.
SocketTimeout == IF pc = "connack" THEN ConnectTimeout ELSE KeepAlive

\* recv() has waited that long for an answer; a broken connection it reports at once.
TimedOut == link # "broken" /\ wait = SocketTimeout

Init ==
    /\ role \in {"publisher", "subscriber"}
    /\ pc = "new" /\ nextId = 1 /\ packetId = 0
    /\ partial = "no" /\ framing = "kept" /\ handling = NoMessage
    /\ up = << >> /\ down = << >> /\ link = "up" /\ subscribed = "no"
    /\ calls = << >> /\ taken = << >> /\ sent = << >> /\ delivered = << >> /\ acked = << >>
    /\ wait = 0 /\ silent = 0 /\ quiet = 0

-----------------------------------------------------------------------------
(* Sending.                                                                *)

\* sendall().  Without a link the data stays unacknowledged in the socket.
Send(packet) ==
    /\ up' = IF link = "up" \/ up = << >> THEN Append(up, packet) ELSE up
    /\ silent' = 0

\* Mutant: the packet id wraps to 0.
AllocateFromZero ==
    /\ packetId' = nextId
    /\ nextId' = IF nextId + 1 > MaxId THEN 0 ELSE nextId + 1

\* _allocate_packet_id.
Allocate ==
    /\ packetId' = nextId
    /\ nextId' = IF nextId + 1 > MaxId THEN 1 ELSE nextId + 1

CallConnect ==
    /\ pc = "new"
    /\ pc' = "connack"
    /\ Send(Connect)
    /\ wait' = 0
    /\ UNCHANGED <<role, nextId, packetId, partial, framing, handling, down, link, subscribed, history, quiet>>

CallPublish ==
    /\ role = "publisher" /\ pc = "idle"
    /\ Len(calls) < MaxPublishes
    /\ Allocate
    /\ Send(Publish(nextId))
    /\ calls' = Append(calls, Len(calls) + 1)
    /\ pc' = "puback"
    /\ wait' = 0
    /\ UNCHANGED <<role, partial, framing, handling, down, link, subscribed, taken, sent, delivered, acked, quiet>>

CallSubscribe ==
    /\ role = "subscriber" /\ pc = "idle"
    /\ Allocate
    /\ Send(Subscribe(nextId))
    /\ pc' = "suback"
    /\ wait' = 0
    /\ UNCHANGED <<role, partial, framing, handling, down, link, subscribed, history, quiet>>

CallDisconnect ==
    /\ role = "publisher" /\ pc = "idle"
    /\ pc' = "closed"
    /\ link' = "closed"
    /\ UNCHANGED <<role, nextId, packetId, partial, framing, handling, up, down, subscribed, history, clocks>>

\* The exception leaves every method of the client; its user gives it up.
Raise ==
    /\ pc' = "raised"
    /\ link' = "closed"

\* TCP has reported the end of the connection: sending raises.
SendError ==
    /\ link = "broken"
    /\ pc \in {"new", "idle"}
    /\ Raise
    /\ UNCHANGED <<role, nextId, packetId, partial, framing, handling, up, down, subscribed, history, clocks>>

-----------------------------------------------------------------------------
(* Receiving.                                                              *)

\* _read_packet gets the first byte.
ReadFirst ==
    /\ pc \in Reading
    /\ framing # "lost" /\ partial = "no"
    /\ down # << >>
    /\ partial' = "yes"
    /\ wait' = 0 /\ quiet' = 0
    /\ UNCHANGED <<role, pc, nextId, packetId, framing, handling, network, subscribed, history, silent>>

\* It gets the rest, and returns the packet.
Read(packet) ==
    /\ framing # "lost" /\ partial = "yes"
    /\ down # << >>
    /\ packet = Head(down)
    /\ down' = Tail(down)
    /\ partial' = "no"
    /\ wait' = 0 /\ quiet' = 0

\* Mutant: any acknowledgement will do.
AnswersAny(packet) ==
    \/ pc = "connack" /\ packet = ConnAck(0)
    \/ pc = "puback" /\ packet.type = "puback"
    \/ pc = "suback" /\ packet.type \in {"suback", "publish"}

\* The packet that the call is waiting for.
Answers(packet) ==
    \/ pc = "connack" /\ packet = ConnAck(0)
    \/ pc = "puback" /\ packet = PubAck(packetId)
    \/ pc = "suback" /\ packet = SubAck(packetId)

\* The call returns; after subscribe() the collector calls loop_forever().
Answered(packet) ==
    /\ pc \in Reading
    /\ Read(packet)
    /\ Answers(packet)
    /\ pc' = IF pc = "suback" THEN "looping" ELSE "idle"
    /\ UNCHANGED <<role, nextId, packetId, framing, handling, up, link, subscribed, history, silent>>

\* publish() and loop_forever() pass over PINGRESP; loop_forever() over anything
\* that is no PUBLISH and no DISCONNECT.
PassedOver(packet) ==
    /\ \/ pc = "puback" /\ packet = PingResp
       \/ pc = "looping" /\ packet.type # "publish"
    /\ Read(packet)
    /\ UNCHANGED <<role, pc, nextId, packetId, framing, handling, up, link, subscribed, history, silent>>

\* Any other packet makes connect(), publish() and subscribe() raise.
Unexpected(packet) ==
    /\ pc \in Calls
    /\ Read(packet)
    /\ ~Answers(packet)
    /\ ~(pc = "puback" /\ packet = PingResp)
    /\ Raise
    /\ UNCHANGED <<role, nextId, packetId, framing, handling, up, subscribed, history, silent>>

\* Mutant: a message is acknowledged before it is handled.
DispatchAcknowledged(packet) ==
    /\ pc = "looping"
    /\ packet.type = "publish"
    /\ Read(packet)
    /\ handling' = [packet EXCEPT !.id = 0]
    /\ pc' = "handling"
    /\ IF packet.id # 0 THEN Send(PubAck(packet.id)) ELSE UNCHANGED <<up, silent>>
    /\ UNCHANGED <<role, nextId, packetId, framing, link, subscribed, history>>

\* loop_forever() calls on_message.
Dispatch(packet) ==
    /\ pc = "looping"
    /\ packet.type = "publish"
    /\ Read(packet)
    /\ handling' = packet
    /\ pc' = "handling"
    /\ UNCHANGED <<role, nextId, packetId, framing, up, link, subscribed, history, silent>>

NeedsAck(message) == message.id # 0

\* on_message returns, and a message with QoS 1 is acknowledged.
Handle ==
    /\ pc = "handling"
    /\ delivered' = Append(delivered, handling)
    /\ IF NeedsAck(handling) THEN Send(PubAck(handling.id))
       ELSE UNCHANGED <<up, silent>>
    /\ handling' = NoMessage
    /\ pc' = "looping"
    /\ UNCHANGED <<role, nextId, packetId, partial, framing, down, link, subscribed, calls, taken, sent, acked, wait, quiet>>

\* on_message raises, or acknowledging does.
HandleError ==
    /\ pc = "handling"
    /\ Raise
    /\ delivered' \in {delivered, Append(delivered, handling)}
    /\ UNCHANGED <<role, nextId, packetId, partial, framing, handling, up, down, subscribed, calls, taken, sent, acked, clocks>>

\* Mutant: publish() takes a timeout for an acknowledgement.
TimeoutIgnored ==
    /\ pc \in Calls
    /\ TimedOut
    /\ pc' = "idle"
    /\ UNCHANGED <<role, nextId, packetId, partial, framing, handling, network, subscribed, history, clocks>>

\* recv() times out in connect(), publish() or subscribe().
Timeout ==
    /\ pc \in Calls
    /\ TimedOut
    /\ Raise
    /\ UNCHANGED <<role, nextId, packetId, partial, framing, handling, up, down, subscribed, history, clocks>>

\* What was read of a packet is forgotten: unless no packet was begun, the next byte
\* is not the first of one.
Resume ==
    /\ wait' = 0
    /\ framing' = IF partial = "yes" THEN "lost"
                  ELSE IF framing = "lost" THEN "regained"
                  ELSE framing

\* Mutant: loop_forever() only goes on waiting.
LoopTimeoutSilent ==
    /\ pc = "looping"
    /\ TimedOut
    /\ Resume
    /\ UNCHANGED <<role, pc, nextId, packetId, partial, handling, network, subscribed, history, silent, quiet>>

\* recv() times out in loop_forever(): PINGREQ.
LoopTimeout ==
    /\ pc = "looping"
    /\ TimedOut
    /\ Send(PingReq)
    /\ Resume
    /\ UNCHANGED <<role, pc, nextId, packetId, partial, handling, down, link, subscribed, history, quiet>>

\* A message that nobody sent, with an id that the broker may be using.
MadeUp(id) == [type |-> "publish", id |-> id, n |-> 0]

\* The reader has lost its place: it reads i packets to the end, and some of the next
\* one if part = "yes".
Swallow(i, part) ==
    /\ pc = "looping" /\ framing = "lost"
    /\ down # << >>
    /\ part = "yes" => i < Len(down)
    /\ i = 0 => part = "yes"
    /\ down' = SubSeq(down, i + 1, Len(down))
    /\ partial' = part
    /\ wait' = 0 /\ quiet' = 0
    /\ UNCHANGED <<role, nextId, packetId, up, subscribed, history, silent>>

\* What it has read looks like no packet yet, or like one that is passed over.
MisreadOn(i, part) ==
    /\ Swallow(i, part)
    /\ i > 0 \/ partial = "no"
    /\ framing' \in IF part = "yes" THEN {"lost"} ELSE {"lost", "regained"}
    /\ UNCHANGED <<pc, handling, link>>

\* It looks like a PUBLISH: on_message is called with it.
MisreadMessage(i, part, id) ==
    /\ Swallow(i, part)
    /\ Cardinality({k \in DOMAIN delivered : delivered[k].n = 0}) < MaxForged
    /\ framing' = IF part = "yes" THEN "lost" ELSE "regained"
    /\ handling' = MadeUp(id)
    /\ pc' = "handling"
    /\ UNCHANGED link

\* It looks like DISCONNECT, and loop_forever() returns, or cannot be parsed.
MisreadEnds(i, part) ==
    /\ Swallow(i, part)
    /\ Raise \/ (pc' = "returned" /\ link' = "closed")
    /\ UNCHANGED <<framing, handling>>

Misread ==
    \E i \in 0 .. Len(down), part \in {"no", "yes"} :
        \/ MisreadOn(i, part) \/ MisreadEnds(i, part)
        \/ \E id \in 0 .. MaxMessages : MisreadMessage(i, part, id)

\* recv() reports the end of the connection.
ReadError ==
    /\ pc \in Reading
    /\ link = "broken"
    /\ Raise
    /\ UNCHANGED <<role, nextId, packetId, partial, framing, handling, up, down, subscribed, history, clocks>>

Run ==
    \/ CallConnect \/ CallSubscribe \/ SendError \/ ReadFirst
    \/ \E packet \in ToSet(down) :
           Answered(packet) \/ PassedOver(packet) \/ Unexpected(packet) \/ Dispatch(packet)
    \/ Handle \/ HandleError \/ Timeout \/ LoopTimeout \/ Misread \/ ReadError

-----------------------------------------------------------------------------
(* The broker, the network and time.                                       *)

BrokerSends(packet) ==
    /\ Len(down) < MaxInFlight
    /\ down' = Append(down, packet)

\* The broker reads the next packet and answers it.
BrokerReads(packet) ==
    /\ link = "up"
    /\ up # << >> /\ packet = Head(up)
    /\ up' = Tail(up)
    /\ \/ packet = Connect /\ (BrokerSends(ConnAck(0)) \/ BrokerSends(ConnAck(5)))
       \/ packet.type = "publish" /\ BrokerSends(PubAck(packet.id))
       \/ packet.type = "subscribe" /\ UNCHANGED down
       \/ packet = PingReq /\ BrokerSends(PingResp)
       \/ packet.type = "puback" /\ UNCHANGED down
    /\ subscribed' = IF packet.type = "subscribe" THEN "pending" ELSE subscribed
    /\ taken' = IF packet.type = "publish" THEN Append(taken, Len(taken) + 1) ELSE taken
    /\ acked' = IF packet.type = "puback" THEN Append(acked, packet.id) ELSE acked
    /\ UNCHANGED <<role, client, link, calls, sent, delivered, clocks>>

BrokerSubAck ==
    /\ link = "up" /\ subscribed = "pending"
    /\ BrokerSends(SubAck(packetId)) \/ BrokerSends(Rejected(packetId))
    /\ subscribed' = "yes"
    /\ UNCHANGED <<role, client, up, link, history, clocks>>

\* A message for the subscriber, retained or live, with QoS 0 or 1.
BrokerPublishes(q) ==
    /\ link = "up" /\ subscribed # "no"
    /\ Len(sent) < MaxMessages
    /\ sent' = Append(sent, Message(q, Len(sent) + 1))
    /\ BrokerSends(Message(q, Len(sent) + 1))
    /\ UNCHANGED <<role, client, up, link, subscribed, calls, taken, delivered, acked, clocks>>

\* The broker drops a client that is silent for too long.
BrokerDrops ==
    /\ link = "up"
    /\ 2 * silent > 3 * KeepAlive
    /\ link' = "broken"
    /\ UNCHANGED <<role, client, up, down, subscribed, history, clocks>>

\* The connection breaks, and some of what was on its way is lost.
NetworkBreaks ==
    /\ link = "up" /\ pc \notin Ended
    /\ link' \in {"broken", "lost"}
    /\ \E i \in 0 .. Len(down) : down' = SubSeq(down, 1, i)
    /\ UNCHANGED <<role, client, up, subscribed, history, clocks>>

\* TCP gives up on data that is never acknowledged.
TcpGivesUp ==
    /\ link = "lost" /\ up # << >>
    /\ link' = "broken"
    /\ UNCHANGED <<role, client, up, down, subscribed, history, clocks>>

\* Time passes while the client waits.
Tick ==
    /\ pc \in Reading \cup {"idle"}
    /\ Len(up) < MaxInFlight
    /\ pc \in Reading => wait < SocketTimeout
    /\ wait' = IF pc \in Reading THEN wait + 1 ELSE wait
    /\ silent' = IF silent > 2 * KeepAlive THEN silent ELSE silent + 1
    /\ quiet' = IF quiet > KeepAlive THEN quiet ELSE quiet + 1
    /\ UNCHANGED <<role, client, network, subscribed, history>>

Next ==
    \/ Run \/ CallPublish \/ CallDisconnect
    \/ \E packet \in ToSet(up) : BrokerReads(packet)
    \/ BrokerSubAck
    \/ \E q \in {0, 1} : BrokerPublishes(q)
    \/ BrokerDrops \/ NetworkBreaks \/ TcpGivesUp \/ Tick

Spec == Init /\ [][Next]_vars /\ WF_vars(Run) /\ WF_vars(Tick) /\ WF_vars(TcpGivesUp)

-----------------------------------------------------------------------------
(* Properties.                                                             *)

Ids == 1 .. MaxId

TypeOK ==
    /\ role \in {"publisher", "subscriber"}
    /\ pc \in Reading \cup Ended \cup {"new", "idle", "handling"}
    /\ nextId \in Ids
    /\ packetId \in Ids \cup {0}
    /\ partial \in {"yes", "no"}
    /\ framing \in {"kept", "lost", "regained"}
    /\ link \in {"up", "lost", "broken", "closed"}
    /\ subscribed \in {"no", "pending", "yes"}
    /\ wait \in Nat
    /\ silent \in Nat
    /\ quiet \in Nat
    /\ \A i \in 1 .. Len(up) :
           up[i].type \in {"publish", "subscribe"} => up[i].id \in Ids

\* When publish() returns, the broker has taken exactly the messages published so
\* far, in order, and the client is not left with an answer to an earlier call; when
\* it does not return, at most the last one is in doubt.
AckMeansTaken ==
    role = "publisher" =>
        /\ taken = calls \/ (calls # << >> /\ taken = Front(calls))
        /\ pc = "idle" /\ link = "up" => taken = calls /\ up = << >> /\ down = << >>

\* on_message gets the messages in the order in which the broker sent them, none
\* twice and none left out in between, retained ones that come before the SUBACK
\* included: they make subscribe() raise and are not swallowed.  A timeout inside a
\* packet ends that: from then on messages may be missing, and some may be handled
\* that nobody sent; but those that are real still come in order and only once.
DeliversInOrder ==
    LET real == {i \in DOMAIN delivered : delivered[i].n # 0}
    IN  /\ framing = "kept" => IsPrefix(delivered, sent)
        /\ \A i \in real : delivered[i].n \in DOMAIN sent /\ delivered[i] = sent[delivered[i].n]
        /\ \A i, j \in real : i < j => delivered[i].n < delivered[j].n

\* Where acknowledgements are among packets.
AcksAt(packets) == {i \in DOMAIN packets : packets[i].type = "puback"}

\* The messages acknowledged to the broker, or with the acknowledgement on its way.
AcksSent(read, packets) == ToSet(read) \cup {packets[i].id : i \in AcksAt(packets)}

\* Acknowledgements go out in the order of the messages, each once.
AcksRise(read, packets) ==
    /\ \A i, j \in DOMAIN read : i < j => read[i] < read[j]
    /\ \A i, j \in AcksAt(packets) : i < j => packets[i].id < packets[j].id
    /\ \A i \in DOMAIN read, j \in AcksAt(packets) : read[i] < packets[j].id

\* The messages with QoS 1 that on_message is done with.
Done(messages) == {messages[i].id : i \in {k \in DOMAIN messages : NeedsAck(messages[k])}}

\* The broker has acknowledged to it, or has on the way, exactly the messages with
\* QoS 1 that on_message is done with: none that may yet fail, none twice, none before
\* an earlier one, and all of them while there is a connection.  After a timeout
\* inside a packet only this is left: nothing is acknowledged before on_message is
\* done with something of that id, which may be a message nobody sent, so that the
\* broker takes one that it did send for handled.
AcksFollowHandling ==
    LET acks == AcksSent(acked, up)
        done == Done(delivered)
    IN  /\ acks \subseteq done
        /\ framing = "kept" =>
               /\ \A a \in acks, d \in done : d < a => d \in acks
               /\ AcksRise(acked, up)
               /\ link = "up" => acks = done

\* In loop_forever() silence is bridged with PINGREQ, again and again: never has the
\* client neither sent nor read anything for longer than the keep-alive interval.
\* What it reads puts the ping off, and the time on_message takes is not counted.
PingsWhenSilent ==
    pc \in {"looping", "handling"} => silent <= KeepAlive \/ quiet <= KeepAlive

\* No wait is endless: connect(), publish() and subscribe() end, whatever the broker
\* does, and loop_forever() ends after its connection, even when nothing reports its
\* loss: PINGREQ is what finds out.
WaitsEnd ==
    []<>(/\ pc \notin Calls
         /\ role = "subscriber" => link \notin {"lost", "broken"})

=============================================================================
