--------------------------- MODULE CollectorProofs ---------------------------
(***************************************************************************)
(* The two tables of the collector agree, for any publishers, any          *)
(* interleaving of their documents, any loss, reconnect or broker crash.    *)
(* A status row stays equal to the event row of its id because two         *)
(* documents with one id belong to one session and either both update the  *)
(* status or are the same document: whatever replaces the event row        *)
(* replaces the status row in the same transaction.                        *)
(***************************************************************************)
EXTENDS Collector, SequenceLemmas

\* Only documents that update the status are in the status table.
Indexed ==
    \A k \in DOMAIN current : UpdatesStatus(Topic(current[k]), current[k])

CInv ==
    /\ TypeOK
    /\ IsFiniteSet(DOMAIN retained)
    /\ IsFiniteSet(DOMAIN saved)
    /\ Indexed
    /\ StatusInHistory

-----------------------------------------------------------------------------
(* Lemmas about documents.                                                 *)

\* The documents of a source, one by one.
LEMMA DocumentsOf ==
    ASSUME NEW n \in Sources
    PROVE  /\ Len(Documents(n)) \in 0 .. 3
           /\ DOMAIN Documents(n) = 1 .. Len(Documents(n))
           /\ \A i \in 1 .. Len(Documents(n)) :
                 LET d == Documents(n)[i] IN
                 \/ d = EventDoc(n) /\ Kind[n] = "event"
                 \/ d = StateDoc(n) /\ Kind[n] = "event" /\ State[n] # Null
                 \/ d = SessionHealthDoc(n)
                 \/ d = ProfileDoc(n)
                 \/ d = ClientHealthDoc(n)
<1>1. CASE Documents(n) = <<EventDoc(n)>> /\ Kind[n] = "event"
  BY <1>1
<1>2. CASE Documents(n) = <<ProfileDoc(n)>>
  BY <1>2
<1>3. CASE Documents(n) = <<ClientHealthDoc(n)>>
  BY <1>3
<1>4. CASE /\ Documents(n) = <<EventDoc(n), StateDoc(n), SessionHealthDoc(n)>>
           /\ Kind[n] = "event" /\ State[n] # Null
  <2>1. /\ Len(Documents(n)) = 3 /\ DOMAIN Documents(n) = 1 .. 3
        /\ Documents(n)[1] = EventDoc(n) /\ Documents(n)[2] = StateDoc(n)
        /\ Documents(n)[3] = SessionHealthDoc(n)
    BY <1>4
  <2>2. \A i \in 1 .. 3 : i = 1 \/ i = 2 \/ i = 3
    OBVIOUS
  <2> QED
    BY <1>4, <2>1, <2>2
<1> QED
  BY <1>1, <1>2, <1>3, <1>4, DocumentsAssumption DEF Documents

\* A published document is one of the five kinds of some source.
LEMMA DocumentKinds ==
    ASSUME NEW d \in AllDocs
    PROVE  \E n \in Sources :
              \/ d = EventDoc(n)
              \/ d = StateDoc(n) /\ State[n] # Null
              \/ d = SessionHealthDoc(n)
              \/ d = ProfileDoc(n)
              \/ d = ClientHealthDoc(n)
<1>1. PICK n \in Sources : \E i \in DOMAIN Documents(n) : d = Documents(n)[i]
  BY DEF AllDocs
<1> QED
  BY <1>1, DocumentsOf

\* Documents with one id are of one session, and are the same or both carry a
\* state.
LEMMA SameId ==
    ASSUME NEW c \in AllDocs, NEW d \in AllDocs, c.id = d.id
    PROVE  /\ c.key = d.key
           /\ c = d \/ (c.state # Null /\ d.state # Null)
<1>1. PICK n \in Sources :
              \/ c = EventDoc(n)
              \/ c = StateDoc(n) /\ State[n] # Null
              \/ c = SessionHealthDoc(n)
              \/ c = ProfileDoc(n)
              \/ c = ClientHealthDoc(n)
  BY DocumentKinds
<1>2. PICK m \in Sources :
              \/ d = EventDoc(m)
              \/ d = StateDoc(m) /\ State[m] # Null
              \/ d = SessionHealthDoc(m)
              \/ d = ProfileDoc(m)
              \/ d = ClientHealthDoc(m)
  BY DocumentKinds
<1> QED
  BY <1>1, <1>2 DEF EventDoc, StateDoc, SessionHealthDoc, ProfileDoc, ClientHealthDoc, Document

\* Publishing the next document hands a proper document to the broker.
LEMMA NextDocument ==
    ASSUME TypeOK, NEW n \in Sources, stage[n] < Len(Documents(n))
    PROVE  /\ Documents(n)[stage[n] + 1] \in AllDocs
           /\ stage[n] + 1 \in 0 .. 3
<1>1. stage[n] \in 0 .. 3 /\ Len(Documents(n)) \in 0 .. 3
  BY DocumentsOf DEF TypeOK
<1>2. stage[n] + 1 \in DOMAIN Documents(n)
  BY <1>1, DocumentsOf
<1> QED
  BY <1>1, <1>2 DEF AllDocs

\* Delivering a message keeps the queue a sequence of messages within its limit.
LEMMA Delivery ==
    ASSUME TypeOK, NEW m \in Messages, Deliver(m), UNCHANGED link
    PROVE  /\ queue' \in Seq(Messages)
           /\ Len(queue') <= MaxQueued
           /\ overflow' \in BOOLEAN
           /\ link' = "down" => queue' = << >>
<1>1. CASE link = "down"
  BY <1>1 DEF Deliver, TypeOK
<1>2. CASE link # "down" /\ Len(queue) < MaxQueued
  <2>1. queue' = Append(queue, m) /\ overflow' = overflow
    BY <1>2 DEF Deliver
  <2>2. Append(queue, m) \in Seq(Messages) /\ Len(Append(queue, m)) = Len(queue) + 1
    BY AppendProperties DEF TypeOK
  <2>3. Len(queue) \in Nat /\ MaxQueued \in Nat
    BY LenProperties, CollectorAssumption DEF TypeOK
  <2> QED
    BY <1>2, <2>1, <2>2, <2>3 DEF TypeOK
<1>3. CASE link # "down" /\ ~(Len(queue) < MaxQueued)
  BY <1>3 DEF Deliver, TypeOK
<1> QED
  BY <1>1, <1>2, <1>3

\* What a SUBSCRIBE brings are the retained documents under the filters, each of them
\* and nothing else.
LEMMA BurstTopics ==
    ASSUME IsFiniteSet(DOMAIN retained), NEW burst \in Bursts(retained)
    PROVE  /\ burst \in Seq(DOMAIN retained)
           /\ ToSet(burst) =
                 {t \in DOMAIN retained : retained[t].type \in {"state", "health", "client", "profile"}}
<1> DEFINE Under(types) == {t \in DOMAIN retained : retained[t].type \in types}
<1>1. PICK s \in RetainedUnder(retained, {"state"}), h \in RetainedUnder(retained, {"health", "client"}),
           p \in RetainedUnder(retained, {"profile"}) : burst = s \o h \o p
  BY DEF Bursts
<1>2. /\ s \o h \o p \in Seq(DOMAIN retained)
      /\ ToSet(s \o h \o p) =
            Under({"state"}) \cup Under({"health", "client"}) \cup Under({"profile"})
  <2>1. /\ s \in SetToSeqs(Under({"state"})) /\ h \in SetToSeqs(Under({"health", "client"}))
        /\ p \in SetToSeqs(Under({"profile"}))
    BY <1>1 DEF RetainedUnder
  <2>2. \A types : Under(types) \in SUBSET DOMAIN retained
    OBVIOUS
  <2> HIDE DEF Under
  <2> QED
    BY <2>1, <2>2, OrdersInThreeParts
<1>3. Under({"state"}) \cup Under({"health", "client"}) \cup Under({"profile"}) =
          Under({"state", "health", "client", "profile"})
  OBVIOUS
<1> QED
  BY <1>1, <1>2, <1>3

-----------------------------------------------------------------------------
(* The actions.                                                            *)

\* A document reaching the broker (publish_event in publisher.py, main in
\* jsonl_adapter.py) keeps the invariant: the tables are not touched.
LEMMA PublishStep ==
    ASSUME CInv, NEW n \in Sources, Publish(n)
    PROVE  CInv'
<1> DEFINE doc == Documents(n)[stage[n] + 1]
<1>1. /\ doc \in AllDocs
      /\ stage' = [stage EXCEPT ![n] = @ + 1] /\ stage[n] + 1 \in 0 .. 3
  BY NextDocument DEF Publish, CInv
<1> HIDE DEF doc
<1>2. /\ retained' = IF doc.type = "event" THEN retained ELSE With(retained, Topic(doc), doc)
      /\ Deliver(Message(Topic(doc), doc))
      /\ UNCHANGED <<link, inherited, events, current, saved, cut>>
  BY DEF Publish, tables, disk, doc
<1>3. Message(Topic(doc), doc) \in Messages
  BY <1>1 DEF Messages
<1>4. /\ IsFiniteSet(DOMAIN retained')
      /\ \A t \in DOMAIN retained' : retained'[t] \in AllDocs /\ Topic(retained'[t]) = t
  <2>1. CASE doc.type = "event"
    BY <1>2, <2>1 DEF CInv, TypeOK
  <2>2. CASE doc.type # "event"
    <3>1. DOMAIN retained' = DOMAIN retained \cup {Topic(doc)}
      BY <1>2, <2>2 DEF With
    <3>2. \A t \in DOMAIN retained' :
              retained'[t] = IF t = Topic(doc) THEN doc ELSE retained[t]
      BY <1>2, <2>2 DEF With
    <3> QED
      BY <1>1, <3>1, <3>2, FS_AddElement DEF CInv, TypeOK
  <2> QED
    BY <2>1, <2>2
<1>5. TypeOK'
  <2>1. /\ queue' \in Seq(Messages) /\ Len(queue') <= MaxQueued
        /\ overflow' \in BOOLEAN /\ (link' = "down" => queue' = << >>)
    BY <1>2, <1>3, Delivery DEF CInv
  <2> QED
    BY <1>1, <1>2, <1>4, <2>1 DEF CInv, TypeOK
<1> QED
  BY <1>2, <1>4, <1>5 DEF CInv, Indexed, StatusInHistory

\* A deletion by the app (killSession in MenagerieApp.swift) keeps the invariant:
\* it only queues an empty payload.
LEMMA DeleteStep ==
    ASSUME CInv, NEW k \in Keys,
           NEW topic \in {StateTopic(k), SessionHealthTopic(k), ProfileTopic(k)}, Delete(topic)
    PROVE  CInv'
<1>1. /\ retained' = Without(retained, topic) /\ Deliver(Message(topic, Null))
      /\ UNCHANGED <<stage, link, inherited, events, current, saved, cut>>
  BY DEF Delete, tables, disk
<1>2. Message(topic, Null) \in Messages
  BY DEF Messages
<1>3. /\ DOMAIN retained' = DOMAIN retained \ {topic}
      /\ \A t \in DOMAIN retained' : retained'[t] = retained[t]
  BY <1>1 DEF Without
<1>4. IsFiniteSet(DOMAIN retained')
  BY <1>3, FS_RemoveElement DEF CInv
<1>5. TypeOK'
  <2>1. /\ queue' \in Seq(Messages) /\ Len(queue') <= MaxQueued
        /\ overflow' \in BOOLEAN /\ (link' = "down" => queue' = << >>)
    BY <1>1, <1>2, Delivery DEF CInv
  <2> QED
    BY <1>1, <1>3, <2>1 DEF CInv, TypeOK
<1> QED
  BY <1>1, <1>4, <1>5 DEF CInv, Indexed, StatusInHistory

\* A new subscription (run_mqtt) keeps the invariant: what it queues are retained
\* documents, cut to the limit of the queue.
LEMMA ConnectStep ==
    ASSUME CInv, Connect
    PROVE  CInv'
<1>1. /\ UNCHANGED <<stage, retained, events, current, saved, cut>>
      /\ link' = "up" /\ inherited' = DOMAIN current
  BY DEF Connect, tables, disk
<1>2. PICK burst \in Bursts(retained) :
          /\ queue' = [i \in 1 .. AtMost(Len(burst), MaxQueued) |->
                          Message(burst[i], retained[burst[i]])]
          /\ overflow' = (Len(burst) > MaxQueued)
  BY DEF Connect
<1>3. burst \in Seq(DOMAIN retained)
  BY BurstTopics DEF CInv
<1> DEFINE n == AtMost(Len(burst), MaxQueued)
<1>4. n \in Nat /\ n <= MaxQueued /\ n <= Len(burst)
  BY <1>3, LenProperties, CollectorAssumption DEF AtMost
<1>5. \A i \in 1 .. n : Message(burst[i], retained[burst[i]]) \in Messages
  <2> TAKE i \in 1 .. n
  <2>1. burst[i] \in DOMAIN retained
    <3>1. Len(burst) \in Nat
      BY <1>3, LenProperties
    <3>2. i \in 1 .. Len(burst)
      BY <1>4, <3>1
    <3> QED
      BY <1>3, <3>2, ElementOfSeq
  <2>2. retained[burst[i]] \in AllDocs /\ Topic(retained[burst[i]]) = burst[i]
    BY <2>1 DEF CInv, TypeOK
  <2> QED
    BY <2>2 DEF Messages
<1> HIDE DEF n
<1>6. queue' \in [1 .. n -> Messages]
  BY <1>2, <1>5 DEF n
<1>7. queue' \in Seq(Messages) /\ Len(queue') = n
  <2>1. queue' \in Seq(Messages)
    BY <1>4, <1>6, SeqDef
  <2>2. DOMAIN queue' = 1 .. n /\ DOMAIN queue' = 1 .. Len(queue') /\ Len(queue') \in Nat
    BY <1>6, <2>1, LenProperties
  <2> QED
    BY <1>4, <2>1, <2>2
<1>8. TypeOK'
  <2>1. overflow' \in BOOLEAN
    BY <1>2
  <2>2. Len(queue') <= MaxQueued
    BY <1>4, <1>7
  <2>3. link' \in {"down", "up"} /\ (link' = "down" => queue' = << >>)
    BY <1>1
  <2> QED
    BY <1>1, <1>7, <2>1, <2>2, <2>3 DEF CInv, TypeOK
<1> QED
  BY <1>1, <1>8 DEF CInv, Indexed, StatusInHistory

\* A lost connection keeps the invariant: the tables outlive it.
LEMMA DropStep ==
    ASSUME CInv, Drop
    PROVE  CInv'
<1>1. queue' = << >> /\ << >> \in Seq(Messages) /\ Len(<< >>) = 0
  BY EmptySeq DEF Drop
<1>2. Len(queue') <= MaxQueued
  BY <1>1, CollectorAssumption
<1>3. overflow' \in BOOLEAN /\ link' = "down"
  BY DEF Drop
<1>4. TypeOK'
  BY <1>1, <1>2, <1>3 DEF CInv, TypeOK, Drop, tables, disk
<1> QED
  BY <1>4 DEF Drop, tables, disk, CInv, Indexed, StatusInHistory

\* Writing the retained documents to disk (autosave_interval in mosquitto.conf)
\* keeps the invariant.
LEMMA AutosaveStep ==
    ASSUME CInv, Autosave
    PROVE  CInv'
<1>1. /\ saved' = retained
      /\ UNCHANGED <<stage, retained, link, queue, overflow, inherited, events, current, cut>>
  BY DEF Autosave, network, tables
<1>2. TypeOK'
  BY <1>1 DEF CInv, TypeOK
<1> QED
  BY <1>1, <1>2 DEF CInv, Indexed, StatusInHistory

\* A broker that falls back to what it has on disk keeps the invariant: the tables do
\* not depend on what is retained.
LEMMA CrashStep ==
    ASSUME CInv, Crash
    PROVE  CInv'
<1>1. /\ retained' = saved /\ cut' \subseteq Sources
      /\ link' = "down" /\ queue' = << >> /\ overflow' = FALSE
      /\ UNCHANGED <<stage, inherited, events, current, saved>>
  BY DEF Crash, tables, CInv, TypeOK
<1>2. queue' \in Seq(Messages) /\ Len(queue') <= MaxQueued
  <2>1. << >> \in Seq(Messages) /\ Len(<< >>) = 0
    BY EmptySeq
  <2> QED
    BY <1>1, <2>1, CollectorAssumption
<1>3. overflow' \in BOOLEAN
  BY <1>1
<1>4. TypeOK'
  BY <1>1, <1>2, <1>3 DEF CInv, TypeOK
<1> QED
  BY <1>1, <1>4 DEF CInv, Indexed, StatusInHistory

\* add() keeps the tables in agreement.
LEMMA AddStep ==
    ASSUME CInv, NEW doc \in AllDocs, Add(Topic(doc), doc)
    PROVE  /\ \A id \in DOMAIN events' : events'[id] \in AllDocs /\ events'[id].id = id
           /\ \A k \in DOMAIN current' : current'[k] \in AllDocs /\ current'[k].key = k
           /\ inherited' \subseteq DOMAIN current'
           /\ Indexed'
           /\ StatusInHistory'
<1>1. /\ DOMAIN events' = DOMAIN events \cup {doc.id}
      /\ \A id \in DOMAIN events' : events'[id] = IF id = doc.id THEN doc ELSE events[id]
  BY DEF Add, With
<1>2. CASE UpdatesStatus(Topic(doc), doc)
  <2>1. /\ DOMAIN current' = DOMAIN current \cup {doc.key}
        /\ \A k \in DOMAIN current' : current'[k] = IF k = doc.key THEN doc ELSE current[k]
        /\ inherited' = inherited \ {doc.key}
    BY <1>2 DEF Add, With
  <2>2. StatusInHistory'
    <3> SUFFICES ASSUME NEW k \in DOMAIN current'
                 PROVE  current'[k].id \in DOMAIN events' /\ events'[current'[k].id] = current'[k]
      BY DEF StatusInHistory
    <3>1. CASE k = doc.key
      BY <1>1, <2>1, <3>1
    <3>2. CASE k # doc.key
      <4>1. k \in DOMAIN current /\ current'[k] = current[k]
        BY <2>1, <3>2
      <4>2. current[k].id # doc.id
        BY <3>2, <4>1, SameId DEF CInv, TypeOK
      <4> QED
        BY <1>1, <4>1, <4>2 DEF CInv, StatusInHistory
    <3> QED
      BY <3>1, <3>2
  <2>3. Indexed'
    BY <1>2, <2>1 DEF CInv, Indexed, UpdatesStatus
  <2> QED
    BY <1>1, <2>1, <2>2, <2>3 DEF CInv, TypeOK
<1>3. CASE ~UpdatesStatus(Topic(doc), doc)
  <2>1. UNCHANGED <<current, inherited>>
    BY <1>3 DEF Add
  <2>2. StatusInHistory'
    <3> SUFFICES ASSUME NEW k \in DOMAIN current
                 PROVE  current[k].id \in DOMAIN events' /\ events'[current[k].id] = current[k]
      BY <2>1 DEF StatusInHistory
    <3>1. current[k] \in AllDocs /\ current[k].key = k /\ UpdatesStatus(Topic(current[k]), current[k])
      BY DEF CInv, TypeOK, Indexed
    <3>2. current[k].id # doc.id
      <4> SUFFICES ASSUME current[k].id = doc.id PROVE FALSE
        OBVIOUS
      <4>1. current[k].key = doc.key /\ (current[k] = doc \/ doc.state # Null)
        BY <3>1, SameId
      <4> QED
        BY <1>3, <3>1, <4>1 DEF UpdatesStatus
    <3> QED
      BY <1>1, <3>2 DEF CInv, StatusInHistory
  <2> QED
    BY <1>1, <2>1, <2>2 DEF CInv, TypeOK, Indexed, UpdatesStatus
<1> QED
  BY <1>2, <1>3

\* handle_message keeps the invariant, for a document as for an empty payload.
LEMMA HandleStep ==
    ASSUME CInv, Handle
    PROVE  CInv'
<1> DEFINE m == Head(queue)
<1>1. /\ queue # << >> /\ queue' = Tail(queue)
      /\ UNCHANGED <<stage, retained, link, overflow, saved, cut>>
  BY DEF Handle, disk
<1>2. m \in Messages /\ queue' \in Seq(Messages) /\ Len(queue') <= MaxQueued
      /\ (link' = "down" => queue' = << >>)
  BY <1>1, HeadTailProperties, LenProperties, CollectorAssumption DEF CInv, TypeOK
<1> HIDE DEF m
<1>3. /\ \A id \in DOMAIN events' : events'[id] \in AllDocs /\ events'[id].id = id
      /\ \A k \in DOMAIN current' : current'[k] \in AllDocs /\ current'[k].key = k
      /\ inherited' \subseteq DOMAIN current'
      /\ Indexed'
      /\ StatusInHistory'
  <2>1. CASE m.doc = Null
    <3>1. DeleteRetained(m.topic)
      BY <2>1 DEF Handle, m
    <3>2. CASE UNCHANGED <<events, current, inherited>>
      BY <3>2 DEF CInv, TypeOK, Indexed, StatusInHistory
    <3>3. CASE \E key : /\ current' = Without(current, key) /\ inherited' = inherited \ {key}
                       /\ UNCHANGED events
      <4>1. PICK key : /\ current' = Without(current, key) /\ inherited' = inherited \ {key}
                       /\ UNCHANGED events
        BY <3>3
      <4>2. /\ DOMAIN current' = DOMAIN current \ {key}
            /\ \A k \in DOMAIN current' : current'[k] = current[k]
        BY <4>1 DEF Without
      <4> QED
        BY <4>1, <4>2 DEF CInv, TypeOK, Indexed, StatusInHistory, UpdatesStatus
    <3> QED
      BY <3>1, <3>2, <3>3 DEF DeleteRetained
  <2>2. CASE m.doc # Null
    <3>1. m.doc \in AllDocs /\ m.topic = Topic(m.doc)
      BY <1>2, <2>2 DEF Messages, Message
    <3>2. Add(Topic(m.doc), m.doc)
      BY <2>2, <3>1 DEF Handle, m
    <3> QED
      BY <3>1, <3>2, AddStep
  <2> QED
    BY <2>1, <2>2
<1> QED
  BY <1>1, <1>2, <1>3 DEF CInv, TypeOK

-----------------------------------------------------------------------------
(* The theorems.                                                           *)

\* The invariant holds of an empty database (EventStore._init).
LEMMA InitHolds == Init => CInv
<1> SUFFICES ASSUME Init PROVE CInv
  OBVIOUS
<1>1. DOMAIN << >> = {} /\ << >> \in Seq(Messages) /\ Len(<< >>) = 0
  BY EmptySeq
<1>2. IsFiniteSet(DOMAIN retained) /\ IsFiniteSet(DOMAIN saved)
  BY <1>1, FS_EmptySet DEF Init
<1>3. TypeOK
  <2>1. queue \in Seq(Messages) /\ Len(queue) <= MaxQueued
    BY <1>1, CollectorAssumption DEF Init
  <2>2. stage \in [Sources -> 0 .. 3] /\ overflow \in BOOLEAN
    <3>1. stage = [n \in Sources |-> 0] /\ 0 \in 0 .. 3
      BY DEF Init
    <3>2. overflow = FALSE
      BY DEF Init
    <3>3. stage \in [Sources -> 0 .. 3]
      BY <3>1
    <3> QED
      BY <3>2, <3>3, Zenon
  <2>3. DOMAIN retained = {} /\ DOMAIN events = {} /\ DOMAIN current = {} /\ inherited = {}
        /\ DOMAIN saved = {} /\ cut = {}
    BY <1>1 DEF Init
  <2>4. link = "down" /\ queue = << >>
    BY DEF Init
  <2> QED
    BY <2>1, <2>2, <2>3, <2>4 DEF TypeOK
<1> QED
  BY <1>1, <1>2, <1>3 DEF Init, CInv, Indexed, StatusInHistory

\* The inductive invariant: the types, the index of each table by its key, and
\* the agreement of the two tables.
THEOREM CollectorInvariant == Spec => []CInv
<1>1. CInv /\ [Next]_vars => CInv'
  <2> SUFFICES ASSUME CInv, [Next]_vars PROVE CInv'
    OBVIOUS
  <2>1. CASE UNCHANGED vars
    BY <2>1 DEF vars, network, tables, disk, CInv, TypeOK, Indexed, StatusInHistory
  <2> QED
    BY <2>1, PublishStep, DeleteStep, AutosaveStep, CrashStep, ConnectStep, DropStep, HandleStep DEF Next
<1> QED
  BY InitHolds, <1>1, PTL DEF Spec

\* Queue, tables and retained documents hold published documents, and the broker's
\* queue keeps its limit (collector.py with mosquitto.conf).
THEOREM CollectorTypes == Spec => []TypeOK
BY CollectorInvariant, PTL DEF CInv

\* The document behind a status row is the one stored under its id, whatever is
\* replayed, lost or deleted: EventStore.add writes both tables at once.
THEOREM TablesAgree == Spec => []StatusInHistory
BY CollectorInvariant, PTL DEF CInv

\* Unless a workspace is called state, every row of /v1/status carries a state:
\* the condition in EventStore.add lets nothing else through.
THEOREM RowsAreStates ==
    ASSUME \A n \in Sources : Key[n] # Null => Key[n][1] # "state"
    PROVE  Spec => []StatusRowsAreStates
<1>1. CInv => StatusRowsAreStates
  <2> SUFFICES ASSUME CInv, NEW k \in DOMAIN current, current[k].state = Null PROVE FALSE
    BY DEF StatusRowsAreStates
  <2> DEFINE d == current[k]
  <2>1. d \in AllDocs /\ UpdatesStatus(Topic(d), d) /\ d.state = Null
    BY DEF CInv, TypeOK, Indexed
  <2> HIDE DEF d
  <2>2. PICK n \in Sources :
              \/ d = EventDoc(n)
              \/ d = StateDoc(n) /\ State[n] # Null
              \/ d = SessionHealthDoc(n)
              \/ d = ProfileDoc(n)
              \/ d = ClientHealthDoc(n)
    BY <2>1, DocumentKinds
  <2>3. d.key = Key[n] /\ Key[n] # Null /\ InStateTree(Topic(d))
    BY <2>1, <2>2 DEF UpdatesStatus, EventDoc, StateDoc, SessionHealthDoc, ProfileDoc,
                      ClientHealthDoc, Document
  <2>4. d.type \in {"event", "health", "profile", "client"}
    BY <2>1, <2>2 DEF EventDoc, StateDoc, SessionHealthDoc, ProfileDoc, ClientHealthDoc, Document
  <2>5. CASE d.type = "client"
    BY <2>3, <2>5 DEF Topic, InStateTree, ClientHealthTopic
  <2>6. CASE d.type \in {"event", "health", "profile"}
    BY <2>3, <2>6 DEF Topic, InStateTree, EventTopic, SessionHealthTopic, ProfileTopic
  <2> QED
    BY <2>4, <2>5, <2>6
<1> QED
  BY CollectorInvariant, <1>1, PTL

-----------------------------------------------------------------------------
(* What the queue still does to the status.                                *)

\* The messages that touch the row of session k, with what they make of it.
Touching(k) ==
    [m \in {x \in Messages : IF x.doc = Null THEN x.topic = StateTopic(k)
                             ELSE x.doc.key = k /\ UpdatesStatus(x.topic, x.doc)} |-> m.doc]

Row(k) == IF k \in DOMAIN current THEN current[k] ELSE Null

\* A row d fits what is retained of session k.
Covers(k, d) ==
    StateTopic(k) \in DOMAIN retained =>
        d # Null /\ (d.source = retained[StateTopic(k)].source \/ stage[d.source] = 1)

\* A row d without a retained state is ahead of it, or was there when the collector
\* subscribed, and nothing is queued that touches it.
Inherits(k, d) ==
    d # Null =>
        \/ StateTopic(k) \in DOMAIN retained
        \/ stage[d.source] = 1
        \/ k \in inherited /\ Hits(queue, Touching(k)) = {}

\* Whatever the row of a session is once the queue is worked off, it fits.
Settled ==
    link = "up" /\ ~overflow =>
        \A k \in Keys : \A d \in AllDocs \cup {Null} :
            Settles(queue, Touching(k), Row(k), d) => Covers(k, d) /\ Inherits(k, d)

\* No workspace is called state.
NoStateWorkspace == \A k \in Keys : k[1] # "state"

\* A session key is a pair (topic_segment in events.py).
LEMMA KeyPairs ==
    /\ \A k \in Keys : k # Null /\ k = <<k[1], k[2]>>
    /\ \A n \in Sources : Key[n] # Null => Key[n] \in Keys
    /\ \A j, k \in Keys : StateTopic(j) = StateTopic(k) => j = k
<1>1. \A k \in Keys : k # Null /\ k = <<k[1], k[2]>>
  BY DocumentsAssumption DEF Keys
<1>2. \A j, k \in Keys : StateTopic(j) = StateTopic(k) => j = k
  <2> SUFFICES ASSUME NEW j \in Keys, NEW k \in Keys, StateTopic(j) = StateTopic(k) PROVE j = k
    OBVIOUS
  <2>1. j[1] = k[1] /\ j[2] = k[2]
    BY DEF StateTopic
  <2> QED
    BY <1>1, <2>1
<1> QED
  BY <1>1, <1>2 DEF Keys

\* Only state documents go to state topics, and besides them only events update the
\* status.
LEMMA StatusDocuments ==
    ASSUME NoStateWorkspace, NEW d \in AllDocs, NEW k \in Keys
    PROVE  /\ d # Null
           /\ Topic(d) = StateTopic(k) => d.type = "state" /\ d.key = k /\ UpdatesStatus(Topic(d), d)
           /\ d.type = "state" /\ d.key = k => Topic(d) = StateTopic(k)
           /\ d.key = k /\ UpdatesStatus(Topic(d), d) => d.type \in {"event", "state"}
<1>1. PICK n \in Sources :
              \/ d = EventDoc(n)
              \/ d = StateDoc(n) /\ State[n] # Null
              \/ d = SessionHealthDoc(n)
              \/ d = ProfileDoc(n)
              \/ d = ClientHealthDoc(n)
  BY DocumentKinds
<1>2. /\ d.key = Key[n] /\ d.source = n
      /\ d.type = "state" => State[n] # Null /\ d.state = State[n]
      /\ d.type \in {"event", "state", "health", "profile", "client"}
      /\ d.type \in {"health", "profile", "client"} => d.state = Null
  BY <1>1 DEF EventDoc, StateDoc, SessionHealthDoc, ProfileDoc, ClientHealthDoc, Document
<1>3. d # Null
  BY NullIsNoDocument
<1>4. ASSUME Topic(d) = StateTopic(k)
      PROVE  d.type = "state" /\ d.key = k /\ UpdatesStatus(Topic(d), d)
  <2>1. d.type = "state"
    BY <1>2, <1>4 DEF Topic, EventTopic, StateTopic, SessionHealthTopic, ProfileTopic, ClientHealthTopic
  <2>2. d.key \in Keys
    BY <1>2, <2>1, DocumentsAssumption DEF Keys
  <2>3. Topic(d) = StateTopic(d.key)
    BY <2>1 DEF Topic
  <2>4. d.key = k
    BY <1>4, <2>2, <2>3, KeyPairs
  <2> QED
    BY <1>2, <2>1, <2>2, <2>4, KeyPairs DEF UpdatesStatus
<1>5. d.type = "state" /\ d.key = k => Topic(d) = StateTopic(k)
  BY DEF Topic
<1>6. ASSUME d.key = k, UpdatesStatus(Topic(d), d), d.type \notin {"event", "state"}
      PROVE  FALSE
  <2>1. InStateTree(Topic(d)) /\ k[1] # "state"
    BY <1>2, <1>6 DEF UpdatesStatus, NoStateWorkspace
  <2>2. CASE d.type = "client"
    BY <2>1, <2>2 DEF Topic, InStateTree, ClientHealthTopic
  <2>3. CASE d.type \in {"health", "profile"}
    BY <1>6, <2>1, <2>3 DEF Topic, InStateTree, SessionHealthTopic, ProfileTopic
  <2> QED
    BY <1>2, <1>6, <2>2, <2>3
<1> QED
  BY <1>3, <1>4, <1>5, <1>6

\* What touching means, message by message.
LEMMA TouchingMeans ==
    ASSUME NEW k \in Keys, NEW m \in Messages
    PROVE  /\ m \in DOMAIN Touching(k) => Touching(k)[m] = m.doc
           /\ m.doc = Null => (m \in DOMAIN Touching(k) <=> m.topic = StateTopic(k))
           /\ m.doc # Null => /\ m.doc \in AllDocs /\ m.topic = Topic(m.doc)
                              /\ m \in DOMAIN Touching(k) <=>
                                     m.doc.key = k /\ UpdatesStatus(m.topic, m.doc)
BY DEF Touching, Messages, Message

\* Handling a message does to the row what Touching says (handle_message).
LEMMA RowStep ==
    ASSUME CInv, Handle, NEW k \in Keys
    PROVE  /\ Head(queue) \in Messages
           /\ Row(k)' = IF Head(queue) \in DOMAIN Touching(k) THEN Touching(k)[Head(queue)] ELSE Row(k)
           /\ Head(queue) \notin DOMAIN Touching(k) /\ k \in inherited => k \in inherited'
<1> DEFINE m == Head(queue)
<1>1. m \in Messages
  BY HeadTailProperties DEF Handle, CInv, TypeOK
<1>2. IF m.doc = Null THEN DeleteRetained(m.topic) ELSE Add(m.topic, m.doc)
  BY DEF Handle
<1> HIDE DEF m
<1>3. CASE m.doc = Null
  <2>1. PICK j \in Keys : m.topic \in {StateTopic(j), SessionHealthTopic(j), ProfileTopic(j)}
    <3>1. m \notin {Message(Topic(d), d) : d \in AllDocs}
      BY <1>3, NullIsNoDocument DEF Message
    <3> QED
      BY <1>1, <3>1 DEF Messages, Message
  <2>2. m \in DOMAIN Touching(k) <=> m.topic = StateTopic(k)
    BY <1>1, <1>3, TouchingMeans
  <2>3. CASE m.topic = StateTopic(j)
    <3>1. m.topic[1] = "state" /\ <<m.topic[2], m.topic[3]>> = j
      BY <2>3, KeyPairs DEF StateTopic
    <3>2. current' = Without(current, j) /\ inherited' = inherited \ {j}
      BY <1>2, <1>3, <3>1 DEF DeleteRetained
    <3>3. DOMAIN current' = DOMAIN current \ {j} /\ \A x \in DOMAIN current' : current'[x] = current[x]
      BY <3>2 DEF Without
    <3>4. m \in DOMAIN Touching(k) <=> j = k
      BY <2>2, <2>3, KeyPairs
    <3> QED
      BY <1>1, <1>3, <3>2, <3>3, <3>4, TouchingMeans DEF Row, m
  <2>4. CASE m.topic \in {SessionHealthTopic(j), ProfileTopic(j)}
    <3>1. m.topic[1] # "state" /\ m.topic # StateTopic(k)
      BY <2>4 DEF StateTopic, SessionHealthTopic, ProfileTopic
    <3>2. UNCHANGED <<current, inherited>>
      BY <1>2, <1>3, <3>1 DEF DeleteRetained
    <3> QED
      BY <1>1, <2>2, <3>1, <3>2 DEF Row, m
  <2> QED
    BY <2>1, <2>3, <2>4
<1>4. CASE m.doc # Null
  <2>1. m \in DOMAIN Touching(k) <=> m.doc.key = k /\ UpdatesStatus(m.topic, m.doc)
    BY <1>1, <1>4, TouchingMeans
  <2>2. CASE UpdatesStatus(m.topic, m.doc)
    <3>1. current' = With(current, m.doc.key, m.doc) /\ inherited' = inherited \ {m.doc.key}
      BY <1>2, <1>4, <2>2 DEF Add
    <3>2. /\ DOMAIN current' = DOMAIN current \cup {m.doc.key}
          /\ \A x \in DOMAIN current' : current'[x] = IF x = m.doc.key THEN m.doc ELSE current[x]
      BY <3>1 DEF With
    <3> QED
      BY <1>1, <2>1, <2>2, <3>1, <3>2, TouchingMeans DEF Row, m
  <2>3. CASE ~UpdatesStatus(m.topic, m.doc)
    <3>1. UNCHANGED <<current, inherited>>
      BY <1>2, <1>4, <2>3 DEF Add
    <3> QED
      BY <1>1, <2>1, <2>3, <3>1 DEF Row, m
  <2> QED
    BY <2>2, <2>3
<1> QED
  BY <1>3, <1>4

\* Working off the queue does not change where it leads (handle_message).
LEMMA HandleSettled ==
    ASSUME CInv, Settled, Handle
    PROVE  Settled'
<1>1. /\ queue # << >> /\ queue \in Seq(Messages) /\ queue' = Tail(queue)
      /\ UNCHANGED <<stage, retained, link, overflow>>
  BY DEF Handle, CInv, TypeOK
<1> SUFFICES ASSUME link = "up", ~overflow, NEW k \in Keys, NEW d \in AllDocs \cup {Null},
                    Settles(queue', Touching(k), Row(k)', d)
             PROVE  Covers(k, d)' /\ Inherits(k, d)'
  BY <1>1 DEF Settled
<1> DEFINE m == Head(queue)
<1>2. /\ Row(k)' = IF m \in DOMAIN Touching(k) THEN Touching(k)[m] ELSE Row(k)
      /\ m \notin DOMAIN Touching(k) /\ k \in inherited => k \in inherited'
  BY RowStep
<1>3. Settles(queue, Touching(k), Row(k), d)
  BY <1>1, <1>2, SettlesTail
<1>4. Covers(k, d) /\ Inherits(k, d)
  BY <1>3 DEF Settled
<1>5. Hits(queue, Touching(k)) = {} => m \notin DOMAIN Touching(k) /\ Hits(queue', Touching(k)) = {}
  <2>1. /\ Len(queue) \in Nat /\ Len(queue) > 0 /\ m = queue[1] /\ Len(queue') = Len(queue) - 1
        /\ \A i \in 1 .. Len(queue') : queue'[i] = queue[i + 1]
    BY <1>1, HeadTailProperties, LenProperties, EmptySeq
  <2> HIDE DEF m
  <2>2. 1 \in 1 .. Len(queue) /\ \A i \in 1 .. Len(queue') : i + 1 \in 1 .. Len(queue)
    BY <2>1
  <2> QED
    BY <2>1, <2>2 DEF Hits
<1> HIDE DEF m
<1> QED
  BY <1>1, <1>2, <1>4, <1>5 DEF Covers, Inherits

\* Delivering a message makes it the last of the queue, or drops it and says so.
LEMMA DeliverySettles ==
    ASSUME CInv, NEW m \in Messages, Deliver(m), link = "up", ~overflow',
           NEW f, NEW x, NEW y, Settles(queue', f, x, y)
    PROVE  /\ ~overflow
           /\ m \in DOMAIN f => y = f[m]
           /\ m \notin DOMAIN f => Settles(queue, f, x, y) /\ Hits(queue', f) = Hits(queue, f)
<1>1. queue' = Append(queue, m) /\ ~overflow /\ queue \in Seq(Messages)
  BY DEF Deliver, CInv, TypeOK
<1> QED
  BY <1>1, SettlesOnLast, SettlesBefore

\* A document published next is the event, its state, its health, or alone.
LEMMA NextKind ==
    ASSUME TypeOK, NEW n \in Sources, stage[n] < Len(Documents(n))
    PROVE  LET d == Documents(n)[stage[n] + 1] IN
           \/ d = EventDoc(n) /\ stage[n] = 0
           \/ d = StateDoc(n) /\ stage[n] = 1 /\ Kind[n] = "event"
           \/ d = SessionHealthDoc(n) /\ stage[n] = 2
           \/ d = ProfileDoc(n) /\ stage[n] = 0
           \/ d = ClientHealthDoc(n) /\ stage[n] = 0
<1>1. stage[n] \in 0 .. 3
  BY DEF TypeOK
<1>2. CASE Documents(n) = <<EventDoc(n), StateDoc(n), SessionHealthDoc(n)>> /\ Kind[n] = "event"
  <2>1. /\ Documents(n)[1] = EventDoc(n) /\ Documents(n)[2] = StateDoc(n)
        /\ Documents(n)[3] = SessionHealthDoc(n) /\ Len(Documents(n)) = 3
    BY <1>2
  <2>2. stage[n] = 0 \/ stage[n] = 1 \/ stage[n] = 2
    BY <1>1, <2>1
  <2> QED
    BY <1>2, <2>1, <2>2
<1>3. ASSUME NEW d \in {EventDoc(n), ProfileDoc(n), ClientHealthDoc(n)}, Documents(n) = << d >>
      PROVE  stage[n] = 0 /\ Documents(n)[stage[n] + 1] = d
  <2>1. Documents(n)[1] = d /\ Len(Documents(n)) = 1
    BY <1>3
  <2> QED
    BY <1>1, <2>1
<1> QED
  BY <1>2, <1>3, DocumentsAssumption DEF Documents

\* Publishing keeps the status settled: what replaces a retained state, or takes an
\* event beyond it, is in the queue as well (publish_event, main in jsonl_adapter.py).
LEMMA PublishSettled ==
    ASSUME CInv, Settled, NoStateWorkspace, NEW n \in Sources, Publish(n)
    PROVE  Settled'
<1> DEFINE doc == Documents(n)[stage[n] + 1]
<1>1. /\ doc \in AllDocs
      /\ stage \in [Sources -> 0 .. 3] /\ stage' = [stage EXCEPT ![n] = @ + 1]
      /\ retained' = IF doc.type = "event" THEN retained ELSE With(retained, Topic(doc), doc)
      /\ Deliver(Message(Topic(doc), doc))
      /\ UNCHANGED <<link, inherited, current>>
  BY NextDocument DEF Publish, tables, CInv, TypeOK
<1>2. \/ doc = EventDoc(n) /\ stage[n] = 0
      \/ doc = StateDoc(n) /\ stage[n] = 1 /\ Kind[n] = "event"
      \/ doc = SessionHealthDoc(n) /\ stage[n] = 2
      \/ doc = ProfileDoc(n) /\ stage[n] = 0
      \/ doc = ClientHealthDoc(n) /\ stage[n] = 0
  BY NextKind DEF Publish, CInv
<1> HIDE DEF doc
<1>3. /\ doc # Null /\ doc.source = n /\ doc.key = Key[n]
      /\ doc.type = "event" => stage[n] = 0
      /\ doc.type = "state" => Key[n] # Null
      /\ stage[n] = 1 => doc.type = "state"
  BY <1>1, <1>2, NullIsNoDocument, DocumentsAssumption
     DEF EventDoc, StateDoc, SessionHealthDoc, ProfileDoc, ClientHealthDoc, Document
<1> DEFINE m == Message(Topic(doc), doc)
<1>4. m \in Messages /\ m.doc = doc /\ m.topic = Topic(doc)
  BY <1>1 DEF Messages, Message
<1> HIDE DEF m
<1> SUFFICES ASSUME link = "up", ~overflow', NEW k \in Keys, NEW d \in AllDocs \cup {Null},
                    Settles(queue', Touching(k), Row(k), d)
             PROVE  Covers(k, d)' /\ Inherits(k, d)'
  BY <1>1 DEF Settled, Row
<1>5. /\ ~overflow
      /\ m \in DOMAIN Touching(k) => d = Touching(k)[m]
      /\ m \notin DOMAIN Touching(k) => /\ Settles(queue, Touching(k), Row(k), d)
                                        /\ Hits(queue', Touching(k)) = Hits(queue, Touching(k))
  BY <1>1, <1>4, DeliverySettles DEF m
<1>6. m \in DOMAIN Touching(k) <=> doc.key = k /\ UpdatesStatus(Topic(doc), doc)
  BY <1>3, <1>4, TouchingMeans
<1>7. /\ doc.type # "event" =>
             /\ DOMAIN retained' = DOMAIN retained \cup {Topic(doc)}
             /\ \A t \in DOMAIN retained' : retained'[t] = IF t = Topic(doc) THEN doc ELSE retained[t]
      /\ doc.type = "event" => retained' = retained
  BY <1>1 DEF With
<1>8. CASE m \in DOMAIN Touching(k)
  <2>1. d = doc /\ doc.key = k /\ doc.type \in {"event", "state"}
    BY <1>1, <1>4, <1>5, <1>6, <1>8, TouchingMeans, StatusDocuments
  <2>2. CASE doc.type = "event"
    <3>1. stage'[n] = 1
      BY <1>1, <1>3, <2>2
    <3> QED
      BY <1>3, <2>1, <3>1 DEF Covers, Inherits
  <2>3. CASE doc.type = "state"
    <3>1. Topic(doc) = StateTopic(k)
      BY <1>1, <2>1, <2>3, StatusDocuments
    <3>2. StateTopic(k) \in DOMAIN retained' /\ retained'[StateTopic(k)] = doc
      BY <1>7, <2>3, <3>1
    <3> QED
      BY <1>3, <2>1, <3>2 DEF Covers, Inherits
  <2> QED
    BY <2>1, <2>2, <2>3
<1>9. CASE m \notin DOMAIN Touching(k)
  <2>1. Covers(k, d) /\ Inherits(k, d)
    BY <1>5, <1>9 DEF Settled
  <2>2. Topic(doc) # StateTopic(k)
    BY <1>1, <1>6, <1>9, StatusDocuments
  <2>3. /\ StateTopic(k) \in DOMAIN retained' <=> StateTopic(k) \in DOMAIN retained
        /\ StateTopic(k) \in DOMAIN retained => retained'[StateTopic(k)] = retained[StateTopic(k)]
    BY <1>7, <2>2
  <2>4. d # Null /\ stage[d.source] = 1 => stage'[d.source] = 1
    <3> SUFFICES ASSUME d # Null, stage[d.source] = 1 PROVE stage'[d.source] = 1
      OBVIOUS
    <3>1. d \in AllDocs /\ d.key = k
      <4>1. CASE d = Row(k)
        BY <4>1 DEF Row, CInv, TypeOK
      <4>2. CASE \E i \in Hits(queue, Touching(k)) : d = Touching(k)[queue[i]]
        <5>1. PICK i \in Hits(queue, Touching(k)) : d = Touching(k)[queue[i]]
          BY <4>2
        <5>2. queue[i] \in DOMAIN Touching(k)
          BY <5>1 DEF Hits
        <5>3. queue[i] \in Messages
          BY <5>2 DEF Touching
        <5> QED
          BY <5>1, <5>2, <5>3, TouchingMeans
      <4> QED
        BY <1>5, <1>9, <4>1, <4>2 DEF Settles
    <3>2. d.source \in Sources /\ d.key = Key[d.source]
      BY <3>1, DocumentKinds
         DEF EventDoc, StateDoc, SessionHealthDoc, ProfileDoc, ClientHealthDoc, Document
    <3>3. d.source # n
      <4> SUFFICES ASSUME d.source = n PROVE FALSE
        OBVIOUS
      <4>1. doc.type = "state" /\ doc.key = k
        BY <1>3, <3>1, <3>2
      <4> QED
        BY <1>1, <2>2, <4>1, StatusDocuments
    <3> QED
      BY <1>1, <3>2, <3>3
  <2> QED
    BY <1>1, <1>5, <1>9, <2>1, <2>3, <2>4 DEF Covers, Inherits
<1> QED
  BY <1>8, <1>9

\* A deletion keeps the status settled: its empty payload is the last word on the row
\* (killSession in MenagerieApp.swift, delete_retained).
LEMMA DeleteSettled ==
    ASSUME CInv, Settled, NEW j \in Keys,
           NEW topic \in {StateTopic(j), SessionHealthTopic(j), ProfileTopic(j)}, Delete(topic)
    PROVE  Settled'
<1>1. /\ retained' = Without(retained, topic) /\ Deliver(Message(topic, Null))
      /\ UNCHANGED <<stage, link, inherited, current>>
  BY DEF Delete, tables
<1> DEFINE m == Message(topic, Null)
<1>2. m \in Messages /\ m.doc = Null /\ m.topic = topic
  BY DEF Messages, Message
<1> HIDE DEF m
<1> SUFFICES ASSUME link = "up", ~overflow', NEW k \in Keys, NEW d \in AllDocs \cup {Null},
                    Settles(queue', Touching(k), Row(k), d)
             PROVE  Covers(k, d)' /\ Inherits(k, d)'
  BY <1>1 DEF Settled, Row
<1>3. /\ ~overflow
      /\ m \in DOMAIN Touching(k) => d = Touching(k)[m]
      /\ m \notin DOMAIN Touching(k) => /\ Settles(queue, Touching(k), Row(k), d)
                                        /\ Hits(queue', Touching(k)) = Hits(queue, Touching(k))
  BY <1>1, <1>2, DeliverySettles DEF m
<1>4. m \in DOMAIN Touching(k) <=> topic = StateTopic(k)
  BY <1>2, TouchingMeans
<1>5. /\ DOMAIN retained' = DOMAIN retained \ {topic}
      /\ \A t \in DOMAIN retained' : retained'[t] = retained[t]
  BY <1>1 DEF Without
<1>6. CASE topic = StateTopic(k)
  <2>1. d = Null
    BY <1>2, <1>3, <1>4, <1>6, TouchingMeans
  <2> QED
    BY <1>5, <1>6, <2>1 DEF Covers, Inherits
<1>7. CASE topic # StateTopic(k)
  <2>1. Covers(k, d) /\ Inherits(k, d)
    BY <1>3, <1>4, <1>7 DEF Settled
  <2> QED
    BY <1>1, <1>3, <1>4, <1>5, <1>7, <2>1 DEF Covers, Inherits
<1> QED
  BY <1>6, <1>7

\* A new subscription settles the status anew: every retained state is in what it
\* brings, and every other row is inherited (run_mqtt).
LEMMA ConnectSettled ==
    ASSUME CInv, NoStateWorkspace, Connect
    PROVE  Settled'
<1>1. /\ UNCHANGED <<stage, retained, current>>
      /\ link' = "up" /\ inherited' = DOMAIN current
  BY DEF Connect, tables
<1>2. PICK burst \in Bursts(retained) :
          /\ queue' = [i \in 1 .. AtMost(Len(burst), MaxQueued) |->
                          Message(burst[i], retained[burst[i]])]
          /\ overflow' = (Len(burst) > MaxQueued)
  BY DEF Connect
<1>3. /\ burst \in Seq(DOMAIN retained) /\ Len(burst) \in Nat
      /\ \A t \in DOMAIN retained :
            (\E i \in 1 .. Len(burst) : burst[i] = t) <=>
            retained[t].type \in {"state", "health", "client", "profile"}
  <2>1. /\ burst \in Seq(DOMAIN retained)
        /\ ToSet(burst) =
              {t \in DOMAIN retained : retained[t].type \in {"state", "health", "client", "profile"}}
    BY BurstTopics DEF CInv
  <2>2. Len(burst) \in Nat /\ DOMAIN burst = 1 .. Len(burst)
    BY <2>1, LenProperties
  <2>3. ToSet(burst) = {burst[i] : i \in 1 .. Len(burst)}
    BY <2>2 DEF ToSet
  <2> QED
    BY <2>1, <2>2, <2>3
<1> SUFFICES ASSUME ~overflow', NEW k \in Keys, NEW d \in AllDocs \cup {Null},
                    Settles(queue', Touching(k), Row(k), d)
             PROVE  Covers(k, d)' /\ Inherits(k, d)'
  BY <1>1 DEF Settled, Row
<1>4. queue' = [i \in 1 .. Len(burst) |-> Message(burst[i], retained[burst[i]])]
  <2>1. AtMost(Len(burst), MaxQueued) = Len(burst)
    BY <1>2, <1>3, CollectorAssumption DEF AtMost
  <2> QED
    BY <1>2, <2>1
<1>5. ASSUME NEW i \in 1 .. Len(burst)
      PROVE  /\ burst[i] \in DOMAIN retained
             /\ queue'[i].topic = burst[i] /\ queue'[i].doc = retained[burst[i]]
             /\ queue'[i] \in Messages
             /\ retained[burst[i]] \in AllDocs /\ Topic(retained[burst[i]]) = burst[i]
             /\ retained[burst[i]].type \in {"state", "health", "client", "profile"}
  <2>1. burst[i] \in DOMAIN retained
    BY <1>3, ElementOfSeq
  <2>2. retained[burst[i]] \in AllDocs /\ Topic(retained[burst[i]]) = burst[i]
    BY <2>1 DEF CInv, TypeOK
  <2>3. queue'[i] = Message(burst[i], retained[burst[i]])
    BY <1>4
  <2>4. queue'[i] \in Messages
    BY <2>2, <2>3 DEF Messages
  <2> QED
    BY <1>3, <2>1, <2>2, <2>3, <2>4 DEF Message
<1>6. Len(queue') = Len(burst)
  BY <1>3, <1>4
<1>7. \A i \in 1 .. Len(burst) :
         /\ queue'[i] \in DOMAIN Touching(k) <=> burst[i] = StateTopic(k)
         /\ queue'[i] \in DOMAIN Touching(k) => Touching(k)[queue'[i]] = retained[StateTopic(k)]
  <2> TAKE i \in 1 .. Len(burst)
  <2> DEFINE r == retained[burst[i]]
  <2>1. r \in AllDocs /\ Topic(r) = burst[i] /\ r.type # "event"
        /\ queue'[i] \in Messages /\ queue'[i].doc = r /\ queue'[i].topic = burst[i]
    BY <1>5
  <2> HIDE DEF r
  <2>2. /\ r # Null
        /\ Topic(r) = StateTopic(k) => r.type = "state" /\ r.key = k /\ UpdatesStatus(Topic(r), r)
        /\ r.type = "state" /\ r.key = k => Topic(r) = StateTopic(k)
        /\ r.key = k /\ UpdatesStatus(Topic(r), r) => r.type \in {"event", "state"}
    BY <2>1, StatusDocuments
  <2>3. /\ queue'[i] \in DOMAIN Touching(k) => Touching(k)[queue'[i]] = r
        /\ queue'[i] \in DOMAIN Touching(k) <=> r.key = k /\ UpdatesStatus(Topic(r), r)
    BY <2>1, <2>2, TouchingMeans
  <2>4. queue'[i] \in DOMAIN Touching(k) <=> burst[i] = StateTopic(k)
    BY <2>1, <2>2, <2>3
  <2> QED
    BY <2>3, <2>4 DEF r
<1>8. Hits(queue', Touching(k)) = {i \in 1 .. Len(burst) : burst[i] = StateTopic(k)}
  BY <1>6, <1>7 DEF Hits
<1>9. CASE StateTopic(k) \in DOMAIN retained
  <2>1. retained[StateTopic(k)] \in AllDocs /\ Topic(retained[StateTopic(k)]) = StateTopic(k)
    BY <1>9 DEF CInv, TypeOK
  <2>2. retained[StateTopic(k)].type = "state" /\ retained[StateTopic(k)] # Null
    BY <2>1, StatusDocuments
  <2>3. Hits(queue', Touching(k)) # {}
    BY <1>3, <1>8, <1>9, <2>2
  <2>4. d = retained[StateTopic(k)]
    BY <1>7, <1>8, <2>3 DEF Settles
  <2> QED
    BY <1>1, <1>9, <2>2, <2>4 DEF Covers, Inherits
<1>10. CASE StateTopic(k) \notin DOMAIN retained
  <2>1. Hits(queue', Touching(k)) = {}
    BY <1>5, <1>8, <1>10
  <2>2. d = Row(k)
    BY <2>1 DEF Settles
  <2>3. d # Null => k \in inherited'
    BY <1>1, <2>2 DEF Row
  <2> QED
    BY <1>1, <1>10, <2>1, <2>3 DEF Covers, Inherits
<1> QED
  BY <1>9, <1>10

\* The status stays settled, whatever happens.
LEMMA SettledHolds ==
    ASSUME NoStateWorkspace
    PROVE  Spec => []Settled
<1>1. Init => Settled
  BY DEF Init, Settled
<1>2. CInv /\ Settled /\ [Next]_vars => Settled'
  <2> SUFFICES ASSUME CInv, Settled, [Next]_vars PROVE Settled'
    OBVIOUS
  <2>1. CASE Crash \/ Drop
    BY <2>1 DEF Crash, Drop, Settled
  <2>2. CASE Autosave \/ UNCHANGED vars
    BY <2>2 DEF Autosave, vars, network, tables, Settled, Covers, Inherits, Row
  <2> QED
    BY <2>1, <2>2, PublishSettled, DeleteSettled, ConnectSettled, HandleSettled DEF Next
<1> QED
  BY CollectorInvariant, <1>1, <1>2, PTL DEF Spec

\* A collector that has drained its queue has the settled rows (handle_message).
LEMMA DrainedRows ==
    ASSUME CInv, Settled, Drained, NEW k \in Keys
    PROVE  Covers(k, Row(k)) /\ Inherits(k, Row(k))
<1>1. Settles(queue, Touching(k), Row(k), Row(k))
  BY SettlesEmpty DEF Drained
<1>2. Row(k) \in AllDocs \cup {Null}
  BY DEF Row, CInv, TypeOK
<1> QED
  BY <1>1, <1>2 DEF Settled, Drained

\* After any losses, replays, deletions and broker crashes a drained collector shows
\* the retained state of every session, or an event newer than it (EventStore.add,
\* run_mqtt), unless a workspace is called state.
THEOREM CoversRetained ==
    ASSUME NoStateWorkspace
    PROVE  Spec => []StatusCoversRetained
<1>1. CInv /\ Settled => StatusCoversRetained
  <2> SUFFICES ASSUME CInv, Settled, Drained, NEW k \in Keys, StateTopic(k) \in DOMAIN retained
               PROVE  /\ k \in DOMAIN current
                      /\ current[k].source = retained[StateTopic(k)].source \/ Ahead(k)
    BY DEF StatusCoversRetained
  <2>1. Covers(k, Row(k))
    BY DrainedRows
  <2> QED
    BY <2>1 DEF Covers, Row, Ahead
<1> QED
  BY CollectorInvariant, SettledHolds, <1>1, PTL

\* A drained collector lists a session without a retained state only if it listed it
\* before it last subscribed, or heard an event after the deletion (delete_retained):
\* no such row is made on a live connection.
THEOREM OrphansInherited ==
    ASSUME NoStateWorkspace
    PROVE  Spec => []OrphansAreInherited
<1>1. CInv /\ Settled => OrphansAreInherited
  <2> SUFFICES ASSUME CInv, Settled, Drained, NEW k \in DOMAIN current
               PROVE  StateTopic(k) \in DOMAIN retained \/ Ahead(k) \/ k \in inherited
    BY DEF OrphansAreInherited
  <2>1. current[k] \in AllDocs /\ current[k].key = k /\ k # Null
    BY DEF CInv, TypeOK, Indexed, UpdatesStatus
  <2>2. k \in Keys
    BY <2>1, DocumentKinds
       DEF EventDoc, StateDoc, SessionHealthDoc, ProfileDoc, ClientHealthDoc, Document, Keys
  <2>3. Inherits(k, Row(k))
    BY <2>2, DrainedRows
  <2> QED
    BY <2>1, <2>3, NullIsNoDocument DEF Inherits, Row, Ahead
<1> QED
  BY CollectorInvariant, SettledHolds, <1>1, PTL

=============================================================================
