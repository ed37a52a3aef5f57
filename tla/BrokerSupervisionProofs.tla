---------------------- MODULE BrokerSupervisionProofs ----------------------
(***************************************************************************)
(* The safety properties of BrokerSupervision, for any number of client    *)
(* objects and any length of the main queue.                               *)
(*                                                                         *)
(* The argument is about what the blocks in the queue will have made of    *)
(* the flag at any point: Says(p, c, flag, n, v).  The whole queue says    *)
(* how the connection is, and the part before a message says "connected".  *)
(***************************************************************************)
EXTENDS BrokerSupervision, TLAPS

IsReport(block, c) == block.client = c /\ block.kind # "message"

\* When the first n blocks of p have run, starting with flag, the app takes c to be
\* v, "up" or "down".
Says(p, c, flag, n, v) ==
    IF \A i \in 1 .. n : ~IsReport(p[i], c)
    THEN flag = (v = "up")
    ELSE \E k \in 1 .. n : /\ IsReport(p[k], c)
                           /\ \A j \in 1 .. n : IsReport(p[j], c) => j <= k
                           /\ p[k].kind = v

\* One client at a time: whatever is not current is cancelled or gone.
OneClient ==
    /\ current # Null => conn[current] # "gone"
    /\ current \notin cancelled
    /\ \A c \in Clients : conn[c] # "gone" /\ c \notin cancelled => c = current

\* The work item the app holds is the only one that is scheduled.
OneRetry ==
    /\ scheduled = IF retry THEN 1 ELSE 0
    /\ retry => ~connected

\* What the flags have to do with each other.
Flags ==
    /\ connected => established /\ appState = "idle"
    /\ gremlins # {} => established

\* The whole queue says how the connection is.
QueueSaysUp ==
    Says(posted, current, connected, Len(posted), IF IsUp(current) THEN "up" ELSE "down")

\* A message of the current client finds the app connected.
MessagesFindConnection ==
    \A i \in 1 .. Len(posted) :
        posted[i] = [client |-> current, kind |-> "message"]
            => Says(posted, current, connected, i - 1, "up")

IInv ==
    /\ TypeOK
    /\ OneClient
    /\ OneRetry
    /\ Flags
    /\ QueueSaysUp
    /\ MessagesFindConnection
    /\ NeverStranded
    /\ GremlinsAgree

-----------------------------------------------------------------------------
(* Lemmas about queues of blocks.                                          *)

\* What Append does to a queue.
LEMMA AppendBlock ==
    ASSUME NEW p \in Seq(Blocks), NEW b \in Blocks
    PROVE  /\ Append(p, b) \in Seq(Blocks)
           /\ Len(p) \in Nat /\ Len(Append(p, b)) = Len(p) + 1
           /\ Append(p, b)[Len(p) + 1] = b
           /\ \A i \in 1 .. Len(p) : Append(p, b)[i] = p[i]
OBVIOUS

\* What the first blocks say does not depend on a block after them.
LEMMA SaysAppend ==
    ASSUME NEW p \in Seq(Blocks), NEW b \in Blocks, NEW c, NEW flag, NEW v,
           NEW n \in 0 .. Len(p), Says(p, c, flag, n, v)
    PROVE  Says(Append(p, b), c, flag, n, v)
<1>1. \A i \in 1 .. n : Append(p, b)[i] = p[i]
  OBVIOUS
<1> QED
  BY <1>1 DEF Says

\* A report at the end says how things are.
LEMMA SaysReport ==
    ASSUME NEW p \in Seq(Blocks), NEW b \in Blocks, NEW c, NEW flag, NEW v,
           IsReport(b, c), b.kind = v
    PROVE  Says(Append(p, b), c, flag, Len(Append(p, b)), v)
<1>1. Len(Append(p, b)) = Len(p) + 1 /\ Append(p, b)[Len(p) + 1] = b
  OBVIOUS
<1>2. Len(p) \in Nat
  OBVIOUS
<1> QED
  BY <1>1, <1>2 DEF Says

\* Any other block at the end changes nothing.
LEMMA SaysNoReport ==
    ASSUME NEW p \in Seq(Blocks), NEW b \in Blocks, NEW c, NEW flag, NEW v,
           ~IsReport(b, c), Says(p, c, flag, Len(p), v)
    PROVE  Says(Append(p, b), c, flag, Len(Append(p, b)), v)
<1>1. Len(Append(p, b)) = Len(p) + 1 /\ Append(p, b)[Len(p) + 1] = b
  OBVIOUS
<1>2. \A i \in 1 .. Len(p) : Append(p, b)[i] = p[i]
  OBVIOUS
<1>3. Len(p) \in Nat
  OBVIOUS
<1> QED
  BY <1>1, <1>2, <1>3 DEF Says

\* Running the first block leaves what the queue says.
LEMMA SaysTail ==
    ASSUME NEW p \in Seq(Blocks), p # <<>>, NEW c, NEW flag, NEW g, NEW v,
           NEW n \in 1 .. Len(p), Says(p, c, flag, n, v),
           IsReport(Head(p), c) => g = (Head(p).kind = "up"),
           ~IsReport(Head(p), c) => g = flag
    PROVE  Says(Tail(p), c, g, n - 1, v)
<1>1. Head(p) = p[1] /\ Len(Tail(p)) = Len(p) - 1 /\ Len(p) \in Nat \ {0}
  OBVIOUS
<1>2. \A i \in 1 .. n - 1 : Tail(p)[i] = p[i + 1]
  BY <1>1
<1>3. CASE \A i \in 1 .. n : ~IsReport(p[i], c)
  <2>1. \A i \in 1 .. n - 1 : ~IsReport(Tail(p)[i], c)
    BY <1>1, <1>2, <1>3
  <2>2. g = (v = "up")
    BY <1>1, <1>3 DEF Says
  <2> QED
    BY <2>1, <2>2 DEF Says
<1>4. CASE ~ \A i \in 1 .. n : ~IsReport(p[i], c)
  <2>1. PICK k \in 1 .. n : /\ IsReport(p[k], c)
                            /\ \A j \in 1 .. n : IsReport(p[j], c) => j <= k
                            /\ p[k].kind = v
    BY <1>4 DEF Says
  <2>2. CASE k = 1
    <3>1. \A i \in 1 .. n - 1 : ~IsReport(Tail(p)[i], c)
      BY <1>1, <1>2, <2>1, <2>2
    <3>2. g = (v = "up")
      BY <1>1, <2>1, <2>2
    <3> QED
      BY <3>1, <3>2 DEF Says
  <2>3. CASE k # 1
    <3>1. k - 1 \in 1 .. n - 1 /\ Tail(p)[k - 1] = p[k]
      BY <1>1, <1>2, <2>3
    <3>2. \A j \in 1 .. n - 1 : IsReport(Tail(p)[j], c) => j <= k - 1
      BY <1>1, <1>2, <2>1
    <3> QED
      BY <2>1, <3>1, <3>2 DEF Says
  <2> QED
    BY <2>2, <2>3
<1> QED
  BY <1>3, <1>4

\* A queue without blocks of c leaves the flag alone.
LEMMA SaysNothing ==
    ASSUME NEW p, NEW c, NEW flag, NEW n, NEW v, flag = (v = "up"),
           \A i \in 1 .. n : p[i].client # c
    PROVE  Says(p, c, flag, n, v)
BY DEF Says, IsReport

-----------------------------------------------------------------------------
(* The client's queue keeps the invariant.                                 *)

\* The properties of a run say the same as the parts of the invariant.
LEMMA QueueSaysUpIsFlagFollows ==
    ASSUME TypeOK, QueueSaysUp
    PROVE  FlagFollowsConnection
<1> DEFINE v == IF IsUp(current) THEN "up" ELSE "down"
<1>1. DOMAIN posted = 1 .. Len(posted)
  BY DEF TypeOK
<1>2. CASE \A i \in 1 .. Len(posted) : ~IsReport(posted[i], current)
  BY <1>1, <1>2 DEF QueueSaysUp, FlagFollowsConnection, Says, Reports, IsReport, IsUp
<1>3. CASE ~ \A i \in 1 .. Len(posted) : ~IsReport(posted[i], current)
  <2>1. PICK k \in 1 .. Len(posted) :
              /\ IsReport(posted[k], current)
              /\ \A j \in 1 .. Len(posted) : IsReport(posted[j], current) => j <= k
              /\ posted[k].kind = v
    BY <1>3 DEF QueueSaysUp, Says
  <2>2. (posted[k].kind = "up") = IsUp(current)
    BY <2>1 DEF IsUp
  <2>3. k \in Reports /\ \A j \in Reports : j <= k
    BY <1>1, <2>1 DEF Reports, IsReport
  <2> QED
    BY <2>2, <2>3 DEF FlagFollowsConnection
<1> QED
  BY <1>2, <1>3

\* A step that reports nothing and does not cross CONNACK.
LEMMA AdvanceKeeps ==
    ASSUME IInv, NEW c \in Clients, NEW phase \in {"handshake", "listening", "deaf"},
           conn[c] # "gone", Advance(c, phase), (conn[c] \in Up) = (phase \in Up)
    PROVE  IInv'
<1> USE DEF IInv, Advance, network, supervisor, flags, app
<1>1. c = current /\ c # Null /\ c \notin cancelled
  BY SupervisionAssumption DEF OneClient
<1>2. conn' = [conn EXCEPT ![c] = phase] /\ phase \in Phases /\ phase # "gone"
  BY DEF Phases, Up
<1>3. TypeOK'
  BY <1>2 DEF TypeOK
<1>4. OneClient'
  BY <1>1, <1>2 DEF OneClient, TypeOK
<1>5. IsUp(current)' = IsUp(current)
  BY <1>1, <1>2 DEF IsUp, TypeOK
<1>6. QueueSaysUp'
  BY <1>5 DEF QueueSaysUp, Says, IsReport
<1>7. MessagesFindConnection'
  BY DEF MessagesFindConnection, Says, IsReport
<1>8. NeverStranded'
  BY <1>1, <1>2 DEF NeverStranded, Reports, TypeOK, Up
<1>9. OneRetry' /\ Flags' /\ GremlinsAgree'
  BY DEF OneRetry, Flags, GremlinsAgree
<1> QED
  BY <1>3, <1>4, <1>6, <1>7, <1>8, <1>9

\* The messages that wait are not affected by a block after them.
LEMMA AppendKeepsMessages ==
    ASSUME posted \in Seq(Blocks), NEW b \in Blocks, posted' = Append(posted, b),
           MessagesFindConnection, UNCHANGED <<current, connected>>,
           b = [client |-> current, kind |-> "message"]
               => Says(posted, current, connected, Len(posted), "up")
    PROVE  MessagesFindConnection'
<1> SUFFICES ASSUME NEW i \in 1 .. Len(posted'),
                    posted'[i] = [client |-> current, kind |-> "message"]
             PROVE  Says(posted', current, connected, i - 1, "up")
  BY DEF MessagesFindConnection, Says, IsReport
<1>1. Len(posted') = Len(posted) + 1 /\ Len(posted) \in Nat /\ i - 1 \in 0 .. Len(posted)
  BY AppendBlock
<1>2. Says(posted, current, connected, i - 1, "up")
  <2>1. CASE i \in 1 .. Len(posted)
    <3>1. posted'[i] = posted[i]
      BY <2>1, AppendBlock
    <3> QED
      BY <2>1, <3>1 DEF MessagesFindConnection
  <2>2. CASE i = Len(posted) + 1
    <3>1. posted'[i] = b
      BY <2>2, AppendBlock
    <3> QED
      BY <1>1, <2>2, <3>1
  <2> QED
    BY <1>1, <2>1, <2>2
<1> QED
  BY <1>1, <1>2, SaysAppend

\* A step that reports how the connection now is.
LEMMA ReportKeeps ==
    ASSUME IInv, NEW c \in Clients, NEW phase \in Phases \ {"gone"}, NEW kind \in {"up", "down"},
           conn[c] # "gone", AdvanceAndReport(c, phase, kind), (kind = "up") = (phase \in Up)
    PROVE  IInv'
<1> USE DEF IInv, AdvanceAndReport, Post, network, supervisor, flags, app
<1> DEFINE b == [client |-> c, kind |-> kind]
<1>1. c = current /\ c # Null /\ c \notin cancelled
  BY SupervisionAssumption DEF OneClient
<1>2. /\ conn' = [conn EXCEPT ![c] = phase] /\ phase \in Phases /\ phase # "gone"
      /\ posted' = Append(posted, b) /\ b \in Blocks /\ posted \in Seq(Blocks)
  BY DEF Blocks, TypeOK
<1>3. TypeOK'
  BY <1>2 DEF TypeOK
<1>4. OneClient'
  BY <1>1, <1>2 DEF OneClient, TypeOK
<1>5. (IF IsUp(current) THEN "up" ELSE "down")' = kind
  BY <1>1, <1>2 DEF IsUp, TypeOK
<1>6. QueueSaysUp'
  <2>1. IsReport(b, current)
    BY <1>1 DEF IsReport
  <2>2. Says(posted', current, connected, Len(posted'), kind)
    BY <1>2, <2>1, SaysReport
  <2> QED
    BY <1>5, <2>2 DEF QueueSaysUp
<1>7. MessagesFindConnection'
  BY <1>2, AppendKeepsMessages
<1>8. NeverStranded'
  <2>1. Len(posted') \in DOMAIN posted' /\ posted'[Len(posted')] = b
    BY <1>2
  <2>2. Reports' # {}
    BY <1>1, <2>1 DEF Reports
  <2> QED
    BY <2>2 DEF NeverStranded
<1>9. OneRetry' /\ Flags' /\ GremlinsAgree'
  BY DEF OneRetry, Flags, GremlinsAgree
<1> QED
  BY <1>3, <1>4, <1>6, <1>7, <1>8, <1>9

\* A message arrives on a connection that is up.
LEMMA MessageKeeps ==
    ASSUME IInv, NEW c \in Clients, Message(c)
    PROVE  IInv'
<1> USE DEF IInv, Message, AdvanceAndReport, Post, network, supervisor, flags, app
<1> DEFINE b == [client |-> c, kind |-> "message"]
<1>1. c = current /\ c # Null /\ c \notin cancelled /\ conn[c] \in Up
  BY SupervisionAssumption DEF OneClient, Up
<1>2. /\ conn' = conn
      /\ posted' = Append(posted, b) /\ b \in Blocks /\ posted \in Seq(Blocks)
  BY DEF Blocks, TypeOK
<1>3. TypeOK'
  BY <1>2 DEF TypeOK
<1>4. OneClient'
  BY <1>2 DEF OneClient
<1>5. IsUp(current) /\ IsUp(current)'
  BY <1>1, <1>2 DEF IsUp
<1>6. Says(posted, current, connected, Len(posted), "up")
  BY <1>5 DEF QueueSaysUp
<1>7. QueueSaysUp'
  <2>1. ~IsReport(b, current)
    BY DEF IsReport
  <2>2. Says(posted', current, connected, Len(posted'), "up")
    BY <1>2, <1>6, <2>1, SaysNoReport
  <2> QED
    BY <1>5, <2>2 DEF QueueSaysUp
<1>8. MessagesFindConnection'
  BY <1>2, <1>6, AppendKeepsMessages
<1>9. NeverStranded'
  <2>1. Reports \subseteq Reports'
    BY <1>2, AppendBlock DEF Reports
  <2> QED
    BY <1>2, <2>1 DEF NeverStranded
<1>10. OneRetry' /\ Flags' /\ GremlinsAgree'
  BY DEF OneRetry, Flags, GremlinsAgree
<1> QED
  BY <1>3, <1>4, <1>7, <1>8, <1>9, <1>10

\* A replaced client ends.
LEMMA CancelledKeeps ==
    ASSUME IInv, NEW c \in Clients, Cancelled(c)
    PROVE  IInv'
<1> USE DEF IInv, Cancelled, Post, app
<1> DEFINE b == [client |-> c, kind |-> "down"]
<1>1. c # current
  BY DEF OneClient
<1>2. /\ conn' = [conn EXCEPT ![c] = "gone"] /\ cancelled' = cancelled \ {c}
      /\ posted' = Append(posted, b) /\ b \in Blocks /\ posted \in Seq(Blocks)
  BY DEF Blocks, TypeOK
<1>3. TypeOK'
  BY <1>2 DEF TypeOK, Phases
<1>4. OneClient'
  BY <1>1, <1>2, SupervisionAssumption DEF OneClient, TypeOK
<1>5. IsUp(current)' = IsUp(current)
  BY <1>1, <1>2 DEF IsUp, TypeOK
<1>6. QueueSaysUp'
  <2> DEFINE v == IF IsUp(current) THEN "up" ELSE "down"
  <2>1. ~IsReport(b, current)
    BY <1>1 DEF IsReport
  <2>2. Says(posted', current, connected, Len(posted'), v)
    <3>1. Says(posted, current, connected, Len(posted), v)
      BY DEF QueueSaysUp
    <3> HIDE DEF v
    <3> QED
      BY <1>2, <2>1, <3>1, SaysNoReport
  <2> QED
    BY <1>5, <2>2 DEF QueueSaysUp
<1>7. MessagesFindConnection'
  BY <1>1, <1>2, AppendKeepsMessages
<1>8. NeverStranded'
  <2>1. Reports \subseteq Reports'
    BY <1>2, AppendBlock DEF Reports
  <2>2. current # Null => conn'[current] = conn[current]
    BY <1>1, <1>2 DEF TypeOK
  <2> QED
    BY <1>2, <2>1, <2>2 DEF NeverStranded
<1>9. OneRetry' /\ Flags' /\ GremlinsAgree'
  BY DEF OneRetry, Flags, GremlinsAgree
<1> QED
  BY <1>3, <1>4, <1>6, <1>7, <1>8, <1>9

-----------------------------------------------------------------------------
(* The main queue keeps the invariant.                                     *)

\* Replacing the client by one without blocks leaves no block of the current client.
LEMMA ReplaceForgets ==
    ASSUME TypeOK, NEW next, next # current, Replace(next),
           \A i \in DOMAIN posted : posted[i].client # next
    PROVE  /\ posted' \in Seq(Blocks)
           /\ \A i \in 1 .. Len(posted') : posted'[i].client # current'
<1>1. CASE current = Null
  BY <1>1 DEF Replace, TypeOK
<1>2. CASE current # Null
  <2> DEFINE b == [client |-> current, kind |-> "down"]
  <2>1. posted' = Append(posted, b) /\ b \in Blocks /\ posted \in Seq(Blocks)
    BY <1>2 DEF Replace, Post, Blocks, TypeOK
  <2>2. \A i \in 1 .. Len(posted') :
            posted'[i] = b \/ \E k \in DOMAIN posted : posted'[i] = posted[k]
    BY <2>1, AppendBlock
  <2>3. current' = next
    BY DEF Replace
  <2> QED
    BY <2>1, <2>2, <2>3, AppendBlock
<1> QED
  BY <1>1, <1>2

\* The clients told to disconnect exist.
LEMMA ReplaceCancels ==
    ASSUME TypeOK, OneClient, NEW next, Replace(next)
    PROVE  /\ cancelled' \subseteq {x \in Clients : conn[x] # "gone"}
           /\ cancelled' = IF current = Null THEN cancelled ELSE cancelled \cup {current}
<1>1. CASE current = Null
  BY <1>1 DEF Replace, TypeOK
<1>2. CASE current # Null
  <2>1. current \in Clients /\ conn[current] # "gone"
    BY <1>2 DEF OneClient, TypeOK
  <2> QED
    BY <1>2, <2>1 DEF Replace, TypeOK
<1> QED
  BY <1>1, <1>2

\* connect(), called with at most one retry scheduled.
LEMMA ConnectKeeps ==
    ASSUME IInv, NEW held \in BOOLEAN, NEW count, count = IF held THEN 1 ELSE 0,
           Connect(held, count)
    PROVE  IInv'
<1> USE DEF IInv
<1>1. LeftByCancel(held, count) = 0
  BY DEF LeftByCancel
<1>2. posted \in Seq(Blocks) /\ DOMAIN posted = 1 .. Len(posted)
  BY DEF TypeOK
<1>3. CASE ~host
  <2>1. /\ Replace(Null) /\ conn' = conn /\ established' = established
        /\ host' = host /\ calm' = calm
        /\ HandleBrokerConnectionFailed(FALSE, LeftByCancel(held, count))
    BY <1>3 DEF Connect
  <2>2. /\ connected' = FALSE /\ appState' = "error" /\ current' = Null
        /\ gremlins' = IF gremlins = {} THEN {} ELSE {"error"}
        /\ retry' \in BOOLEAN /\ (retry' <=> established)
        /\ scheduled' = IF established THEN 1 ELSE 0
    <3>1. HandleBrokerConnectionFailed(FALSE, 0)
      BY <1>1, <2>1
    <3>2. current' = Null
      BY <2>1 DEF Replace
    <3>3. /\ connected' = FALSE /\ appState' = "error"
          /\ gremlins' = IF gremlins = {} THEN {} ELSE {"error"}
      BY <3>1 DEF HandleBrokerConnectionFailed, Paint
    <3>4. CASE established
      BY <3>1, <3>2, <3>3, <3>4 DEF HandleBrokerConnectionFailed, ScheduleBrokerRetry
    <3>5. CASE ~established
      BY <3>1, <3>2, <3>3, <3>5 DEF HandleBrokerConnectionFailed, TypeOK
    <3> QED
      BY <3>4, <3>5
  <2>3. /\ posted' \in Seq(Blocks)
        /\ \A i \in 1 .. Len(posted') : posted'[i].client # current'
    <3>1. \A i \in 1 .. Len(posted) : posted[i] \in Blocks
      BY <1>2
    <3>2. \A i \in 1 .. Len(posted) : posted[i].client # Null
      BY <3>1, SupervisionAssumption DEF Blocks
    <3>3. CASE current = Null
      <4>1. posted' = posted /\ current' = Null
        BY <2>1, <3>3 DEF Replace
      <4> QED
        BY <1>2, <3>2, <4>1
    <3>4. CASE current # Null
      BY <1>2, <2>1, <3>2, <3>4, ReplaceForgets
    <3> QED
      BY <3>3, <3>4
  <2>4. TypeOK'
    <3>1. cancelled' \subseteq {x \in Clients : conn'[x] # "gone"}
      BY <2>1, ReplaceCancels
    <3>2. gremlins' \subseteq Displays /\ scheduled' \in Nat
      BY <2>2 DEF Displays
    <3> QED
      BY <2>1, <2>2, <2>3, <3>1, <3>2 DEF TypeOK
  <2>5. OneClient'
    <3>1. Null \notin cancelled'
      BY <2>1, ReplaceCancels, SupervisionAssumption
    <3>2. \A x \in Clients : conn'[x] # "gone" => x \in cancelled'
      BY <2>1, ReplaceCancels, SupervisionAssumption DEF OneClient
    <3> QED
      BY <2>2, <3>1, <3>2 DEF OneClient
  <2>6. OneRetry' /\ Flags' /\ NeverStranded' /\ GremlinsAgree'
    BY <2>1, <2>2 DEF OneRetry, Flags, NeverStranded, GremlinsAgree, TypeOK
  <2>7. QueueSaysUp'
    <3>1. ~IsUp(current)'
      BY <2>2 DEF IsUp
    <3> QED
      BY <2>2, <2>3, <3>1, SaysNothing DEF QueueSaysUp
  <2>8. MessagesFindConnection'
    BY <2>3 DEF MessagesFindConnection
  <2> QED
    BY <2>4, <2>5, <2>6, <2>7, <2>8
<1>4. CASE host
  <2>1. PICK c \in Clients :
              /\ Fresh(c) /\ Replace(c) /\ conn' = [conn EXCEPT ![c] = "preparing"]
    BY <1>4 DEF Connect
  <2>2. /\ connected' = FALSE /\ appState' = "starting" /\ current' = c
        /\ retry' = FALSE /\ scheduled' = 0
        /\ established' = established /\ host' = host /\ calm' = calm
        /\ gremlins' = IF established /\ gremlins # {} THEN {"starting"} ELSE gremlins
    BY <1>1, <1>4, <2>1 DEF Connect, CancelBrokerRetry, Paint, Replace
  <2>3. c # current /\ c # Null /\ c \notin cancelled /\ conn[c] = "gone"
    BY <2>1, SupervisionAssumption DEF Fresh, OneClient, TypeOK
  <2>4. /\ posted' \in Seq(Blocks)
        /\ \A i \in 1 .. Len(posted') : posted'[i].client # current'
    BY <2>1, <2>3, ReplaceForgets DEF Fresh
  <2>5. conn' \in [Clients -> Phases] /\ conn'[c] = "preparing"
    BY <2>1 DEF TypeOK, Phases
  <2>6. TypeOK'
    <3>1. cancelled' \subseteq {x \in Clients : conn[x] # "gone"}
      BY <2>1, ReplaceCancels
    <3>2. \A x \in Clients : x # c => conn'[x] = conn[x]
      BY <2>1 DEF TypeOK
    <3>3. cancelled' \subseteq {x \in Clients : conn'[x] # "gone"}
      BY <2>3, <3>1, <3>2
    <3>4. gremlins' \subseteq Displays
      BY <2>2 DEF Displays, TypeOK
    <3> QED
      BY <2>2, <2>4, <2>5, <3>3, <3>4 DEF TypeOK
  <2>7. OneClient'
    <3>1. c \notin cancelled'
      BY <2>1, <2>3, ReplaceCancels
    <3>2. \A x \in Clients : x # c /\ conn'[x] # "gone" => x \in cancelled'
      <4>1. \A x \in Clients : x # c => conn'[x] = conn[x]
        BY <2>1 DEF TypeOK
      <4> QED
        BY <2>1, <4>1, ReplaceCancels, SupervisionAssumption DEF OneClient
    <3> QED
      BY <2>2, <2>5, <3>1, <3>2 DEF OneClient
  <2>8. OneRetry' /\ Flags' /\ NeverStranded' /\ GremlinsAgree'
    BY <2>2, <2>3, <2>5 DEF OneRetry, Flags, NeverStranded, GremlinsAgree
  <2>9. QueueSaysUp'
    <3>1. ~IsUp(current)'
      BY <2>2, <2>5 DEF IsUp, Up
    <3> QED
      BY <2>2, <2>4, <3>1, SaysNothing DEF QueueSaysUp
  <2>10. MessagesFindConnection'
    BY <2>4 DEF MessagesFindConnection
  <2> QED
    BY <2>6, <2>7, <2>8, <2>9, <2>10
<1> QED
  BY <1>3, <1>4

\* The main queue runs a block.
LEMMA RunBlockKeeps ==
    ASSUME IInv, RunBlock
    PROVE  IInv'
<1> USE DEF IInv, app
<1> DEFINE block == Head(posted)
<1>1. /\ posted \in Seq(Blocks) /\ posted # <<>> /\ posted' = Tail(posted)
      /\ conn' = conn /\ cancelled' = cancelled /\ current' = current
      /\ host' = host /\ calm' = calm
  BY DEF RunBlock, TypeOK
<1>2. /\ block \in Blocks /\ block = posted[1]
      /\ Len(posted) \in Nat \ {0} /\ Len(posted') = Len(posted) - 1
      /\ posted' \in Seq(Blocks)
      /\ DOMAIN posted = 1 .. Len(posted) /\ DOMAIN posted' = 1 .. Len(posted')
      /\ \A i \in 1 .. Len(posted') : posted'[i] = posted[i + 1]
  BY <1>1
<1>3. IsUp(current)' = IsUp(current)
  BY <1>1 DEF IsUp
<1>4. \/ FromCurrent(block) /\ block.kind = "up" /\ OnUp
      \/ FromCurrent(block) /\ block.kind = "down" /\ OnDown
      \/ FromCurrent(block) /\ block.kind = "message" /\ OnMessage
      \/ ~FromCurrent(block) /\ UNCHANGED app
  BY DEF RunBlock
<1>5. /\ IsReport(block, current) => connected' = (block.kind = "up")
      /\ ~IsReport(block, current) => connected' = connected
      /\ connected' \in BOOLEAN
  BY <1>4 DEF FromCurrent, IsReport, OnUp, OnDown, OnMessage, HandleBrokerConnectionFailed, TypeOK
<1>6. QueueSaysUp'
  <2> DEFINE v == IF IsUp(current) THEN "up" ELSE "down"
  <2>1. Says(posted, current, connected, Len(posted), v)
    BY DEF QueueSaysUp
  <2>2. Len(posted) \in 1 .. Len(posted)
    BY <1>2
  <2> HIDE DEF v
  <2>3. Says(posted', current, connected', Len(posted) - 1, v)
    BY <1>1, <1>5, <2>1, <2>2, SaysTail
  <2> USE DEF v
  <2> QED
    BY <1>1, <1>2, <1>3, <2>3 DEF QueueSaysUp
<1>7. MessagesFindConnection'
  <2> SUFFICES ASSUME NEW i \in 1 .. Len(posted'),
                      posted'[i] = [client |-> current, kind |-> "message"]
               PROVE  Says(posted', current, connected', i - 1, "up")
    BY <1>1 DEF MessagesFindConnection
  <2>1. i + 1 \in 1 .. Len(posted) /\ posted[i + 1] = [client |-> current, kind |-> "message"]
    BY <1>2
  <2>2. Says(posted, current, connected, i, "up")
    BY <2>1 DEF MessagesFindConnection
  <2>3. i \in 1 .. Len(posted)
    BY <1>2
  <2> QED
    BY <1>1, <1>5, <2>2, <2>3, SaysTail
<1>8. OneClient'
  BY <1>1 DEF OneClient
<1>9. block = [client |-> current, kind |-> "message"] => connected
  <2> SUFFICES ASSUME block = [client |-> current, kind |-> "message"] PROVE connected
    OBVIOUS
  <2>1. 1 \in 1 .. Len(posted) /\ posted[1] = [client |-> current, kind |-> "message"]
    BY <1>2
  <2>2. Says(posted, current, connected, 1 - 1, "up")
    BY <2>1 DEF MessagesFindConnection
  <2>3. \A i \in 1 .. 1 - 1 : ~IsReport(posted[i], current)
    OBVIOUS
  <2> QED
    BY <2>2, <2>3 DEF Says
<1>10. ~IsReport(block, current) /\ Reports # {} => Reports' # {}
  <2> SUFFICES ASSUME ~IsReport(block, current), NEW i \in Reports
               PROVE  i - 1 \in Reports'
    OBVIOUS
  <2>1. i \in 1 .. Len(posted) /\ i # 1
    BY <1>2 DEF Reports, IsReport
  <2>2. i - 1 \in 1 .. Len(posted') /\ posted'[i - 1] = posted[i]
    BY <1>2, <2>1
  <2> QED
    BY <1>1, <1>2, <2>2 DEF Reports
<1>11. CASE FromCurrent(block) /\ block.kind = "up" /\ OnUp
  <2>1. /\ connected' = TRUE /\ established' = TRUE /\ retry' = FALSE /\ scheduled' = 0
        /\ appState' = "idle" /\ gremlins' = IF gremlins = {} THEN {} ELSE {"lifecycle"}
    BY <1>11 DEF OnUp, CancelBrokerRetry, LeftByCancel, Paint, OneRetry, TypeOK
  <2>2. TypeOK'
    BY <1>1, <1>2, <2>1 DEF TypeOK, Displays
  <2> QED
    BY <1>6, <1>7, <1>8, <2>1, <2>2 DEF OneRetry, Flags, NeverStranded, GremlinsAgree
<1>12. CASE FromCurrent(block) /\ block.kind = "down" /\ OnDown
  <2>1. /\ connected' = FALSE /\ appState' = "error" /\ established' = established
        /\ gremlins' = IF gremlins = {} THEN {} ELSE {"error"}
    BY <1>12 DEF OnDown, HandleBrokerConnectionFailed, Paint
  <2>2. /\ retry' \in BOOLEAN /\ scheduled' = IF retry' THEN 1 ELSE 0
        /\ established => scheduled' = 1
    <3>1. CASE established
      BY <1>12, <3>1 DEF OnDown, HandleBrokerConnectionFailed, ScheduleBrokerRetry, OneRetry
    <3>2. CASE ~established
      BY <1>12, <3>2 DEF OnDown, HandleBrokerConnectionFailed, OneRetry, TypeOK
    <3> QED
      BY <3>1, <3>2
  <2>3. TypeOK'
    BY <1>1, <1>2, <2>1, <2>2 DEF TypeOK, Displays
  <2> QED
    BY <1>6, <1>7, <1>8, <2>1, <2>2, <2>3 DEF OneRetry, Flags, NeverStranded, GremlinsAgree
<1>13. CASE FromCurrent(block) /\ block.kind = "message" /\ OnMessage
  <2>1. block = [client |-> current, kind |-> "message"]
    BY <1>2, <1>13 DEF FromCurrent, Blocks
  <2>2. connected /\ ~IsReport(block, current)
    BY <1>9, <2>1 DEF IsReport
  <2>3. /\ connected' = connected /\ established' = established /\ retry' = retry
        /\ scheduled' = scheduled /\ appState' = appState
        /\ gremlins' = gremlins \cup {"lifecycle"}
    BY <1>13 DEF OnMessage
  <2>4. TypeOK'
    BY <1>1, <1>2, <2>3 DEF TypeOK, Displays
  <2> QED
    BY <1>6, <1>7, <1>8, <2>2, <2>3, <2>4 DEF OneRetry, Flags, NeverStranded, GremlinsAgree
<1>14. CASE ~FromCurrent(block) /\ UNCHANGED app
  <2>1. ~IsReport(block, current)
    BY <1>14 DEF FromCurrent, IsReport
  <2>2. TypeOK'
    BY <1>1, <1>2, <1>14 DEF TypeOK
  <2>3. NeverStranded'
    BY <1>1, <1>10, <1>14, <2>1 DEF NeverStranded
  <2> QED
    BY <1>6, <1>7, <1>8, <1>14, <2>2, <2>3 DEF OneRetry, Flags, GremlinsAgree
<1> QED
  BY <1>4, <1>11, <1>12, <1>13, <1>14

-----------------------------------------------------------------------------
(* The theorems.                                                           *)

\* The app starts without a client.
LEMMA InitEstablishes == Init => IInv
<1> SUFFICES ASSUME Init PROVE IInv
  OBVIOUS
<1> USE DEF Init
<1>1. TypeOK
  <2>1. conn \in [Clients -> Phases] /\ posted \in Seq(Blocks)
    BY DEF Phases
  <2>2. scheduled \in Nat /\ current \in Clients \cup {Null}
    OBVIOUS
  <2>3. host \in BOOLEAN /\ calm \in BOOLEAN /\ connected \in BOOLEAN
        /\ established \in BOOLEAN /\ retry \in BOOLEAN
    OBVIOUS
  <2>4. cancelled \subseteq {c \in Clients : conn[c] # "gone"} /\ gremlins \subseteq Displays
    OBVIOUS
  <2> QED
    BY <2>1, <2>2, <2>3, <2>4 DEF TypeOK
<1>2. OneClient /\ OneRetry /\ Flags
  BY SupervisionAssumption DEF OneClient, OneRetry, Flags
<1>3. QueueSaysUp /\ MessagesFindConnection
  <2>1. Len(posted) = 0 /\ ~IsUp(current) /\ connected = FALSE
    BY DEF IsUp
  <2>2. \A i \in 1 .. Len(posted) : posted[i].client # current
    BY <2>1
  <2>3. Says(posted, current, connected, Len(posted), "down")
    BY <2>1, <2>2, SaysNothing
  <2> QED
    BY <2>1, <2>2, <2>3 DEF QueueSaysUp, MessagesFindConnection
<1>4. NeverStranded /\ GremlinsAgree
  BY DEF NeverStranded, GremlinsAgree
<1> QED
  BY <1>1, <1>2, <1>3, <1>4 DEF IInv

\* Whatever the network does to one client.
LEMMA ClientStepKeeps ==
    ASSUME IInv, NEW c \in Clients, ClientStep(c)
    PROVE  IInv'
<1>1. CASE Ready(c) \/ Suback(c) \/ OtherThanSuback(c)
  <2>1. CASE Ready(c)
    BY <2>1, AdvanceKeeps DEF Ready, Up
  <2>2. CASE Suback(c)
    BY <2>2, AdvanceKeeps DEF Suback, Up
  <2>3. CASE OtherThanSuback(c)
    BY <2>3, AdvanceKeeps DEF OtherThanSuback, Up
  <2> QED
    BY <1>1, <2>1, <2>2, <2>3
<1>2. CASE Accepted(c)
  BY <1>2, ReportKeeps DEF Accepted, Up, Phases
<1>3. CASE Waiting(c)
  BY <1>3, ReportKeeps DEF Waiting, Up, Phases
<1>4. CASE Refused(c)
  BY <1>4, ReportKeeps DEF Refused, Up, Phases
<1>5. CASE Lost(c)
  BY <1>5, ReportKeeps DEF Lost, Up, Phases
<1>6. CASE Failed(c)
  BY <1>6, ReportKeeps DEF Failed, Up, Phases
<1> QED
  BY <1>1, <1>2, <1>3, <1>4, <1>5, <1>6, MessageKeeps, CancelledKeeps DEF ClientStep

\* Steps that touch neither the queue nor the flags.
LEMMA RestKeeps ==
    ASSUME IInv,
           EditHost \/ RefreshSessionLiveness \/ KillSession \/ Settle \/ UNCHANGED vars
    PROVE  IInv'
<1> USE DEF IInv, network, supervisor, flags, app
<1>1. /\ UNCHANGED <<conn, posted, cancelled, current, connected, established,
                      retry, scheduled, appState>>
      /\ host' \in BOOLEAN /\ calm' \in BOOLEAN
      /\ \/ gremlins' = gremlins \/ gremlins' = {}
         \/ connected /\ gremlins # {} /\ gremlins' = {"lifecycle"}
  BY DEF EditHost, RefreshSessionLiveness, KillSession, Settle, vars, Paint, TypeOK
<1>2. TypeOK'
  BY <1>1 DEF TypeOK, Displays
<1>3. OneClient' /\ OneRetry' /\ Flags' /\ GremlinsAgree'
  BY <1>1 DEF OneClient, OneRetry, Flags, GremlinsAgree
<1>4. QueueSaysUp' /\ MessagesFindConnection'
  BY <1>1 DEF QueueSaysUp, MessagesFindConnection, Says, IsReport, IsUp
<1>5. NeverStranded'
  BY <1>1 DEF NeverStranded, Reports
<1> QED
  BY <1>2, <1>3, <1>4, <1>5

\* Every step keeps the invariant.
LEMMA NextKeeps == IInv /\ [Next]_vars => IInv'
<1> SUFFICES ASSUME IInv, [Next]_vars PROVE IInv'
  OBVIOUS
<1>1. CASE Reconnect
  <2>1. retry \in BOOLEAN /\ scheduled = IF retry THEN 1 ELSE 0
    BY DEF IInv, TypeOK, OneRetry
  <2> QED
    BY <1>1, <2>1, ConnectKeeps DEF Reconnect
<1>2. CASE RetryFires
  <2>1. scheduled - 1 = IF FALSE THEN 1 ELSE 0
    BY <1>2 DEF IInv, TypeOK, OneRetry, RetryFires
  <2> QED
    BY <1>2, <2>1, ConnectKeeps DEF RetryFires
<1> QED
  BY <1>1, <1>2, ClientStepKeeps, RunBlockKeeps, RestKeeps DEF Next

\* The invariant holds of every behaviour of the app and its clients.
THEOREM SupervisionInvariant == Spec => []IInv
BY InitEstablishes, NextKeeps, PTL DEF Spec

\* The variables have their types (the state of MenagerieApp.swift:23-29).
THEOREM TypesHold == Spec => []TypeOK
<1>1. IInv => TypeOK
  BY DEF IInv
<1> QED
  BY <1>1, SupervisionInvariant, PTL

\* model.connected follows the connection, late but never wrongly, whatever reports
\* of replaced clients are still on the way.
THEOREM FlagFollows == Spec => []FlagFollowsConnection
<1>1. IInv => FlagFollowsConnection
  BY QueueSaysUpIsFlagFollows DEF IInv
<1> QED
  BY <1>1, SupervisionInvariant, PTL

\* scheduleBrokerRetry and cancelBrokerRetry leave no retry that could cut a working
\* connection.
THEOREM RetriesAreSafe == Spec => []RetryOnlyWhenDown
<1>1. IInv => RetryOnlyWhenDown
  BY DEF IInv, OneRetry, RetryOnlyWhenDown
<1> QED
  BY <1>1, SupervisionInvariant, PTL

\* Once connected, the app never rests without a connection, a retry or an attempt.
THEOREM NotStranded == Spec => []NeverStranded
<1>1. IInv => NeverStranded
  BY DEF IInv
<1> QED
  BY <1>1, SupervisionInvariant, PTL

\* No gremlin shows its session while the app shows an error or a reconnect.
THEOREM GremlinsFollowApp == Spec => []GremlinsAgree
<1>1. IInv => GremlinsAgree
  BY DEF IInv
<1> QED
  BY <1>1, SupervisionInvariant, PTL

=============================================================================
