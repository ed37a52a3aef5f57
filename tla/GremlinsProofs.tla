--------------------------- MODULE GremlinsProofs ---------------------------
(***************************************************************************)
(* The board of the desktop app agrees with what the broker retains, for   *)
(* any sources, any names, any interleaving of publishers, user and broker *)
(* and any number of lost connections and restarts.                        *)
(*                                                                         *)
(* Each of the three properties speaks of an app that has caught up.  The  *)
(* invariant behind it speaks of every moment of a subscription: of what   *)
(* the board will be once the messages on their way have been applied.     *)
(***************************************************************************)
EXTENDS Gremlins, SequenceLemmas

\* The profiles the user makes in the app.
NamedProfiles == {NamedProfile(name, k) : name \in Names, k \in Keys}

\* Deletions, and what the app may receive and send.
Deletions == {Message(t, Null) : t \in Topics}
Messages  == {Message(Topic(d), d) : d \in Profiles} \cup Deletions
Sent      == {Message(Topic(d), d) : d \in NamedProfiles} \cup Deletions

\* The session a gremlin is taken to be of.
KeyOf(sid) == <<sessions[sid].workspace, sid>>

\* What the queues carry, and the session of what is on the board.
GInv ==
    /\ TypeOK
    /\ IsFiniteSet(DOMAIN retained)
    /\ inbox \in Seq(Messages)
    /\ outbox \in Seq(Sent)
    /\ link = "down" => outbox = << >>
    /\ \A sid \in DOMAIN sessions : KeyOf(sid) \in Keys
    /\ \A sid \in DOMAIN pending :
          LET doc == pending[sid].doc IN
          doc.type = "profile" /\ doc.key[2] = sid /\ pending[sid].topic = Topic(doc)

-----------------------------------------------------------------------------
(* Lemmas about documents.                                                 *)

\* The documents of a source, one by one.
LEMMA DocumentsOf ==
    ASSUME NEW n \in Sources
    PROVE  /\ Len(Documents(n)) \in 0 .. 3
           /\ DOMAIN Documents(n) = 1 .. Len(Documents(n))
           /\ \A i \in 1 .. Len(Documents(n)) :
                 LET d == Documents(n)[i] IN
                 \/ i = 1 /\ d = EventDoc(n) /\ Kind[n] = "event"
                 \/ i = 2 /\ d = StateDoc(n) /\ Kind[n] = "event" /\ State[n] # Null
                 \/ i = 3 /\ d = SessionHealthDoc(n) /\ Kind[n] = "event" /\ State[n] # Null
                 \/ i = 1 /\ d = ProfileDoc(n) /\ Kind[n] = "profile"
                 \/ i = 1 /\ d = ClientHealthDoc(n) /\ Kind[n] = "heartbeat"
<1>1. CASE Documents(n) = <<EventDoc(n)>> /\ Kind[n] = "event"
  BY <1>1
<1>2. CASE Documents(n) = <<ProfileDoc(n)>> /\ Kind[n] = "profile"
  BY <1>2
<1>3. CASE Documents(n) = <<ClientHealthDoc(n)>> /\ Kind[n] = "heartbeat"
  BY <1>3
<1>4. CASE /\ Documents(n) = <<EventDoc(n), StateDoc(n), SessionHealthDoc(n)>>
           /\ Kind[n] = "event" /\ State[n] # Null
  <2>1. /\ Len(Documents(n)) = 3 /\ DOMAIN Documents(n) = 1 .. 3
        /\ Documents(n)[1] = EventDoc(n) /\ Documents(n)[2] = StateDoc(n)
        /\ Documents(n)[3] = SessionHealthDoc(n)
    BY <1>4
  <2>2. \A i \in 1 .. 3 : i = 1 \/ i = 2 \/ i = 3
    OBVIOUS
  <2> QED
    BY <1>4, <2>1, <2>2
<1> QED
  BY <1>1, <1>2, <1>3, <1>4, DocumentsAssumption DEF Documents

\* A session key is a pair (topic_segment in events.py).
LEMMA KeyPairs ==
    /\ \A k \in Keys : k # Null /\ k = <<k[1], k[2]>>
    /\ \A n \in Sources : Kind[n] # "heartbeat" => Key[n] \in Keys
BY DocumentsAssumption DEF Keys

\* What is known of a document by its type: whose it is, and whether it has a state.
KnownBy(d) ==
    /\ d.type \in {"event", "state", "health", "profile", "client"}
    /\ d.type # "client" => d.key \in Keys
    /\ d.type \in {"event", "state", "health"} => d.source \in Sources
    /\ d.source \in Sources => d.key = Key[d.source]
    /\ d.source \in Sources \cup Names
    /\ d.type = "state" => d.state # Null
    /\ d.type \in {"health", "profile", "client"} => d.state = Null

\* A published document is one of the five kinds.
LEMMA PublishedDocument ==
    ASSUME NEW n \in Sources, NEW i \in 1 .. Len(Documents(n))
    PROVE  LET d == Documents(n)[i] IN
           /\ d \in AllDocs /\ KnownBy(d)
           /\ d.source = n /\ d.key = Key[n]
           /\ d.type = "state" <=> i = 2
           /\ d.type = "health" <=> i = 3
           /\ d.type \in {"state", "health"} => State[n] # Null /\ Key[n] \in Keys
<1> DEFINE d == Documents(n)[i]
<1>1. d \in AllDocs
  BY DocumentsOf DEF AllDocs
<1>2. \/ i = 1 /\ d = EventDoc(n) /\ Kind[n] = "event"
      \/ i = 2 /\ d = StateDoc(n) /\ Kind[n] = "event" /\ State[n] # Null
      \/ i = 3 /\ d = SessionHealthDoc(n) /\ Kind[n] = "event" /\ State[n] # Null
      \/ i = 1 /\ d = ProfileDoc(n) /\ Kind[n] = "profile"
      \/ i = 1 /\ d = ClientHealthDoc(n) /\ Kind[n] = "heartbeat"
  BY DocumentsOf
<1> HIDE DEF d
<1>3. Kind[n] \in {"event", "profile"} => Key[n] \in Keys
  BY KeyPairs
<1>4. /\ KnownBy(d)
      /\ d.source = n /\ d.key = Key[n]
      /\ d.type = "state" <=> i = 2
      /\ d.type = "health" <=> i = 3
      /\ d.type \in {"state", "health"} => State[n] # Null /\ Key[n] \in Keys
  BY <1>2, <1>3
     DEF KnownBy, EventDoc, StateDoc, SessionHealthDoc, ProfileDoc, ClientHealthDoc, Document
<1> QED
  BY <1>1, <1>4 DEF d

\* So is every document there is, those of the app included.
LEMMA KnownDocument ==
    ASSUME NEW d \in Profiles
    PROVE  d # Null /\ KnownBy(d)
<1>1. d # Null
  BY NullIsNoProfile
<1>2. CASE d \in AllDocs
  <2>1. PICK n \in Sources : \E i \in DOMAIN Documents(n) : d = Documents(n)[i]
    BY <1>2 DEF AllDocs
  <2>2. DOMAIN Documents(n) = 1 .. Len(Documents(n))
    BY DocumentsOf
  <2> QED
    BY <1>1, <2>1, <2>2, PublishedDocument
<1>3. CASE d \in NamedProfiles
  BY <1>1, <1>3, GremlinsAssumption DEF NamedProfiles, NamedProfile, KnownBy
<1> QED
  BY <1>2, <1>3 DEF Profiles, NamedProfiles

\* The topic tells the kind of a document and its session.
LEMMA TopicTells ==
    ASSUME NEW d \in Profiles, NEW k \in Keys
    PROVE  /\ Topic(d) = StateTopic(k) <=> d.type = "state" /\ d.key = k
           /\ Topic(d) = SessionHealthTopic(k) <=> d.type = "health" /\ d.key = k
           /\ Topic(d) = ProfileTopic(k) <=> d.type = "profile" /\ d.key = k
           /\ d.type # "client" => Topic(d) \in Topics
           /\ Topic(d)[1] = "events" => d.type = "event"
<1>1. KnownBy(d)
  BY KnownDocument
<1>2. \A j, l \in Keys : j[1] = l[1] /\ j[2] = l[2] => j = l
  BY KeyPairs
<1>3. CASE d.type = "event"
  BY <1>1, <1>3 DEF KnownBy, Topic, EventTopic, StateTopic, SessionHealthTopic, ProfileTopic, Topics, TopicsOf
<1>4. CASE d.type = "state"
  BY <1>1, <1>2, <1>4 DEF KnownBy, Topic, StateTopic, SessionHealthTopic, ProfileTopic, Topics, TopicsOf
<1>5. CASE d.type = "health"
  BY <1>1, <1>2, <1>5 DEF KnownBy, Topic, StateTopic, SessionHealthTopic, ProfileTopic, Topics, TopicsOf
<1>6. CASE d.type = "profile"
  BY <1>1, <1>2, <1>6 DEF KnownBy, Topic, StateTopic, SessionHealthTopic, ProfileTopic, Topics, TopicsOf
<1>7. CASE d.type = "client"
  BY <1>1, <1>7 DEF Topic, StateTopic, SessionHealthTopic, ProfileTopic, ClientHealthTopic
<1> QED
  BY <1>1, <1>3, <1>4, <1>5, <1>6, <1>7 DEF KnownBy

\* The topics of a session differ, and belong to it alone.
LEMMA TopicsDiffer ==
    ASSUME NEW k \in Keys
    PROVE  /\ StateTopic(k) # SessionHealthTopic(k)
           /\ ProfileTopic(k) \notin {StateTopic(k), SessionHealthTopic(k)}
           /\ TopicsOf(k) \subseteq Topics
           /\ Permitted(StateTopic(k)) /\ Permitted(SessionHealthTopic(k)) /\ Permitted(ProfileTopic(k))
BY DEF StateTopic, SessionHealthTopic, ProfileTopic, Topics, Permitted

\* A message is a document on its topic or a deletion.
LEMMA MessageKinds ==
    ASSUME NEW m \in Messages
    PROVE  /\ m.doc # Null => m.doc \in Profiles /\ m.topic = Topic(m.doc) /\ KnownBy(m.doc)
           /\ m.doc = Null => m.topic \in Topics
<1>1. CASE m \in Deletions
  BY <1>1 DEF Deletions, Message
<1>2. CASE \E d \in Profiles : m = Message(Topic(d), d)
  BY <1>2, KnownDocument DEF Message
<1> QED
  BY <1>1, <1>2 DEF Messages

\* What the app sends is a message; a document in it is a profile it has made.
LEMMA SentKinds ==
    /\ Sent \subseteq Messages
    /\ \A m \in Sent : m.doc # Null =>
          m.doc \in NamedProfiles /\ m.doc.type = "profile" /\ m.topic = ProfileTopic(m.doc.key)
<1>1. NamedProfiles \subseteq Profiles
  BY DEF NamedProfiles, Profiles
<1>2. \A d \in NamedProfiles : d.type = "profile" /\ Topic(d) = ProfileTopic(d.key)
  BY DEF NamedProfiles, NamedProfile, Topic
<1> QED
  BY <1>1, <1>2 DEF Sent, Messages, Deletions, Message

-----------------------------------------------------------------------------
(* The invariant of the types.                                             *)

\* What the queues carry, in the words of TypeOK.
LEMMA QueuesTyped ==
    ASSUME NEW p \in Seq(Messages), NEW q \in Seq(Sent)
    PROVE  \A m \in ToSet(p) \cup ToSet(q) : m.doc = Null \/ m.doc \in Profiles
<1>1. ToSet(p) \subseteq Messages /\ ToSet(q) \subseteq Sent
  BY ElementsTyped
<1>2. ToSet(q) \subseteq Messages
  BY <1>1, SentKinds
<1> QED
  BY <1>1, <1>2, MessageKinds

\* A message the broker passes on goes to the end of the queue, if there is a
\* subscription.
LEMMA PassedOn ==
    ASSUME GInv, NEW m \in Messages, ToApp(m)
    PROVE  /\ inbox' \in Seq(Messages)
           /\ link = "up" => inbox' = Append(inbox, m) /\ ToSet(inbox') = ToSet(inbox) \cup {m}
           /\ link # "up" => inbox' = inbox
<1>1. inbox \in Seq(Messages)
  BY DEF GInv
<1>2. Append(inbox, m) \in Seq(Messages) /\ ToSet(Append(inbox, m)) = ToSet(inbox) \cup {m}
  BY <1>1, ElementsOfAppend
<1> QED
  BY <1>1, <1>2 DEF ToApp

\* A document is retained on its topic.
LEMMA Retaining ==
    ASSUME GInv, NEW d \in Profiles, retained' = With(retained, Topic(d), d)
    PROVE  /\ DOMAIN retained' = DOMAIN retained \cup {Topic(d)}
           /\ \A t \in DOMAIN retained' : retained'[t] = IF t = Topic(d) THEN d ELSE retained[t]
           /\ IsFiniteSet(DOMAIN retained')
           /\ \A t \in DOMAIN retained' : retained'[t] \in Profiles /\ Topic(retained'[t]) = t
<1>1. /\ DOMAIN retained' = DOMAIN retained \cup {Topic(d)}
      /\ \A t \in DOMAIN retained' : retained'[t] = IF t = Topic(d) THEN d ELSE retained[t]
  BY DEF With
<1> QED
  BY <1>1, FS_AddElement DEF GInv, TypeOK

\* A document leaves its topic, and nothing else changes.
LEMMA Forgetting ==
    ASSUME GInv, NEW topic, retained' = Without(retained, topic)
    PROVE  /\ DOMAIN retained' = DOMAIN retained \ {topic}
           /\ \A t \in DOMAIN retained' : retained'[t] = retained[t]
           /\ IsFiniteSet(DOMAIN retained')
           /\ \A t \in DOMAIN retained' : retained'[t] \in Profiles /\ Topic(retained'[t]) = t
<1>1. /\ DOMAIN retained' = DOMAIN retained \ {topic}
      /\ \A t \in DOMAIN retained' : retained'[t] = retained[t]
  BY DEF Without
<1> QED
  BY <1>1, FS_RemoveElement DEF GInv, TypeOK

\* The next document of a source (publish_event in publisher.py, main in
\* jsonl_adapter.py): which it is, where it is retained, who gets it.
LEMMA PublishMeans ==
    ASSUME GInv, NEW n \in Sources, Publish(n)
    PROVE  \E d \in Profiles :
              /\ KnownBy(d) /\ d.source = n /\ d.key = Key[n]
              /\ stage[n] \in Nat /\ stage[n] + 1 \in 1 .. 3
              /\ stage' = [stage EXCEPT ![n] = stage[n] + 1]
              /\ d.type = "state" <=> stage[n] + 1 = 2
              /\ d.type = "health" <=> stage[n] + 1 = 3
              /\ retained' = IF d.type = "event" THEN retained ELSE With(retained, Topic(d), d)
              /\ wiped' = wiped \ {Topic(d)}
              /\ Message(Topic(d), d) \in Messages /\ ToApp(Message(Topic(d), d))
<1> DEFINE i == stage[n] + 1
<1> DEFINE d == Documents(n)[i]
<1>1. stage[n] \in 0 .. 3 /\ stage[n] < Len(Documents(n)) /\ Len(Documents(n)) \in 0 .. 3
  BY DocumentsOf DEF GInv, TypeOK, Publish
<1>2. i \in 1 .. Len(Documents(n)) /\ i \in 1 .. 3 /\ stage[n] \in Nat
  <2> DEFINE l == Len(Documents(n))
  <2>1. stage[n] \in 0 .. 3 /\ stage[n] < l /\ l \in 0 .. 3
    BY <1>1
  <2> HIDE DEF l
  <2>2. i \in 1 .. l /\ i \in 1 .. 3 /\ stage[n] \in Nat
    BY <2>1
  <2> QED
    BY <2>2 DEF l
<1>3. /\ d \in AllDocs /\ KnownBy(d) /\ d.source = n /\ d.key = Key[n]
      /\ d.type = "state" <=> i = 2
      /\ d.type = "health" <=> i = 3
  BY <1>2, PublishedDocument
<1>4. /\ stage' = [stage EXCEPT ![n] = i]
      /\ retained' = IF d.type = "event" THEN retained ELSE With(retained, Topic(d), d)
      /\ wiped' = wiped \ {Topic(d)} /\ ToApp(Message(Topic(d), d))
  BY DEF Publish
<1> HIDE DEF i, d
<1>5. d \in Profiles /\ Message(Topic(d), d) \in Messages
  BY <1>3 DEF Profiles, Messages
<1>6. i = stage[n] + 1
  BY DEF i
<1> QED
  BY <1>2, <1>3, <1>4, <1>5, <1>6

\* A document of a publisher keeps the invariant.
LEMMA PublishTypes ==
    ASSUME GInv, NEW n \in Sources, Publish(n)
    PROVE  GInv'
<1>1. PICK d \in Profiles :
              /\ stage[n] + 1 \in 1 .. 3
              /\ stage' = [stage EXCEPT ![n] = stage[n] + 1]
              /\ retained' = IF d.type = "event" THEN retained ELSE With(retained, Topic(d), d)
              /\ Message(Topic(d), d) \in Messages /\ ToApp(Message(Topic(d), d))
  BY PublishMeans
<1>2. UNCHANGED <<link, outbox, sessions, pending>>
  BY DEF Publish, board
<1>3. inbox' \in Seq(Messages) /\ outbox' \in Seq(Sent)
  BY <1>1, <1>2, PassedOn DEF GInv
<1>4. /\ IsFiniteSet(DOMAIN retained')
      /\ \A t \in DOMAIN retained' : retained'[t] \in Profiles /\ Topic(retained'[t]) = t
  <2>1. CASE d.type = "event"
    BY <1>1, <2>1 DEF GInv, TypeOK
  <2>2. CASE d.type # "event"
    BY <1>1, <2>2, Retaining
  <2> QED
    BY <2>1, <2>2
<1>5. stage' \in [Sources -> 0 .. 3]
  BY <1>1 DEF GInv, TypeOK
<1>6. \A m \in ToSet(inbox') \cup ToSet(outbox') : m.doc = Null \/ m.doc \in Profiles
  BY <1>3, QueuesTyped
<1>7. TypeOK'
  BY <1>2, <1>4, <1>5, <1>6 DEF GInv, TypeOK
<1> QED
  BY <1>2, <1>3, <1>4, <1>7 DEF GInv, KeyOf

\* The broker takes a message of the app: a name it retains, or a deletion.
LEMMA TakeMeans ==
    ASSUME GInv, BrokerTake
    PROVE  \E m \in Sent :
              /\ m \in Messages /\ m = Head(outbox) /\ outbox' = Tail(outbox) /\ outbox' \in Seq(Sent)
              /\ ToSet(outbox) = {m} \cup ToSet(outbox')
              /\ \/ ~Permitted(m.topic) /\ UNCHANGED <<retained, wiped, inbox>>
                 \/ /\ Permitted(m.topic) /\ m.doc = Null
                    /\ retained' = Without(retained, m.topic) /\ wiped' = wiped \cup {m.topic}
                    /\ ToApp(m)
                 \/ /\ Permitted(m.topic) /\ m.doc # Null
                    /\ m.doc \in Profiles /\ m.doc \in NamedProfiles /\ m.doc.type = "profile"
                    /\ m.topic = Topic(m.doc) /\ m.topic = ProfileTopic(m.doc.key)
                    /\ retained' = With(retained, Topic(m.doc), m.doc)
                    /\ wiped' = wiped \ {m.topic}
                    /\ ToApp(m)
<1> DEFINE m == Head(outbox)
<1>1. outbox \in Seq(Sent) /\ outbox # << >>
  BY DEF GInv, BrokerTake
<1>2. m \in Sent /\ Tail(outbox) \in Seq(Sent) /\ ToSet(outbox) = {m} \cup ToSet(Tail(outbox))
  BY <1>1, ElementsOfTail
<1>3. /\ outbox' = Tail(outbox)
      /\ IF ~Permitted(m.topic)
         THEN UNCHANGED <<retained, wiped, inbox>>
         ELSE /\ retained' = IF m.doc = Null THEN Without(retained, m.topic)
                             ELSE With(retained, m.topic, m.doc)
              /\ wiped' = IF m.doc = Null THEN wiped \cup {m.topic} ELSE wiped \ {m.topic}
              /\ ToApp(m)
  BY DEF BrokerTake
<1> HIDE DEF m
<1>4. /\ m \in Messages
      /\ m.doc # Null => /\ m.doc \in Profiles /\ m.doc \in NamedProfiles /\ m.doc.type = "profile"
                         /\ m.topic = Topic(m.doc) /\ m.topic = ProfileTopic(m.doc.key)
  BY <1>2, SentKinds, MessageKinds
<1>5. m = Head(outbox)
  BY DEF m
<1> QED
  BY <1>2, <1>3, <1>4, <1>5

\* What the broker does with a message of the app keeps the invariant.
LEMMA TakeTypes ==
    ASSUME GInv, BrokerTake
    PROVE  GInv'
<1>1. PICK m \in Sent :
              /\ m \in Messages /\ m = Head(outbox) /\ outbox' = Tail(outbox) /\ outbox' \in Seq(Sent)
              /\ \/ ~Permitted(m.topic) /\ UNCHANGED <<retained, wiped, inbox>>
                 \/ /\ Permitted(m.topic) /\ m.doc = Null
                    /\ retained' = Without(retained, m.topic) /\ ToApp(m)
                 \/ /\ Permitted(m.topic) /\ m.doc # Null /\ m.doc \in Profiles
                    /\ retained' = With(retained, Topic(m.doc), m.doc) /\ ToApp(m)
  BY TakeMeans
<1>2. UNCHANGED <<stage, link, sessions, pending>>
  BY DEF BrokerTake, board
<1>3. link # "down"
  BY DEF GInv, BrokerTake
<1>4. inbox' \in Seq(Messages)
  BY <1>1, PassedOn DEF GInv
<1>5. /\ IsFiniteSet(DOMAIN retained')
      /\ \A t \in DOMAIN retained' : retained'[t] \in Profiles /\ Topic(retained'[t]) = t
  <2>1. CASE UNCHANGED retained
    BY <2>1 DEF GInv, TypeOK
  <2>2. CASE retained' = Without(retained, m.topic)
    BY <2>2, Forgetting
  <2>3. CASE m.doc \in Profiles /\ retained' = With(retained, Topic(m.doc), m.doc)
    BY <2>3, Retaining
  <2> QED
    BY <1>1, <2>1, <2>2, <2>3
<1>6. \A x \in ToSet(inbox') \cup ToSet(outbox') : x.doc = Null \/ x.doc \in Profiles
  BY <1>1, <1>4, QueuesTyped
<1>7. TypeOK'
  BY <1>2, <1>5, <1>6 DEF GInv, TypeOK
<1> QED
  BY <1>1, <1>2, <1>3, <1>4, <1>5, <1>7 DEF GInv, KeyOf

-----------------------------------------------------------------------------
(* What the board makes of a message.                                      *)

\* The name the board has for session k, shown or waiting, and what it shows of it.
NameOf(k) ==
    IF k[2] \in DOMAIN sessions THEN sessions[k[2]].profile
    ELSE IF k[2] \in DOMAIN pending THEN pending[k[2]].doc.source ELSE Null

ReportOf(k) == IF k[2] \in DOMAIN sessions THEN sessions[k[2]].reported ELSE Null

\* How the app decodes a message, by the type of its document.
LEMMA DecodedKinds ==
    ASSUME NEW m \in Messages
    PROVE  /\ DecodedAs(m) \in {"nothing", "profile", "state", "health"}
           /\ m.doc = Null => DecodedAs(m) = "nothing"
           /\ m.doc # Null =>
                 /\ DecodedAs(m) = "profile" <=> m.doc.type = "profile"
                 /\ DecodedAs(m) = "state" <=> m.doc.type \in {"event", "state"} /\ m.doc.state # Null
                 /\ DecodedAs(m) = "health" <=> \/ m.doc.type = "health"
                                                \/ m.doc.type = "event" /\ m.doc.state = Null
<1>1. m.doc # Null => KnownBy(m.doc)
  BY MessageKinds
<1>2. CASE m.doc = Null
  BY <1>2 DEF DecodedAs
<1>3. CASE m.doc # Null
  BY <1>1, <1>3 DEF DecodedAs, KnownBy
<1> QED
  BY <1>2, <1>3

\* The block for the next message: what the message is and what is done with it.
LEMMA ReceiveMeans ==
    ASSUME GInv, Receive
    PROVE  \E m \in Messages :
              /\ m = Head(inbox) /\ inbox # << >> /\ inbox' = Tail(inbox) /\ inbox' \in Seq(Messages)
              /\ ToSet(inbox) = {m} \cup ToSet(inbox')
              /\ \/ /\ DecodedAs(m) = "nothing"
                    /\ m.doc = Null \/ m.doc.type = "client"
                    /\ UNCHANGED <<sessions, pending, killed, unsaved>>
                 \/ /\ DecodedAs(m) = "profile"
                    /\ m.doc # Null /\ m.doc \in Profiles /\ m.topic = Topic(m.doc)
                    /\ m.doc.key \in Keys /\ m.doc.type = "profile"
                    /\ ReceiveProfile(m.doc, m.topic)
                    /\ killed' = killed /\ unsaved' = unsaved \ {m.doc.key}
                 \/ /\ DecodedAs(m) \in {"state", "health"}
                    /\ m.doc # Null /\ m.doc \in Profiles /\ m.topic = Topic(m.doc)
                    /\ m.doc.key \in Keys /\ m.doc.type # "profile"
                    /\ \/ m.doc.state # Null /\ m.doc.type # "health" /\ ReceiveState(m.doc, m.topic)
                       \/ m.doc.state = Null /\ m.doc.type # "state" /\ ReceiveHealth(m.doc, m.topic)
                    /\ killed' = killed \ {m.doc.key} /\ unsaved' = unsaved
<1> DEFINE m == Head(inbox)
<1>1. inbox \in Seq(Messages) /\ inbox # << >>
  BY DEF GInv, Receive
<1>2. m \in Messages /\ Tail(inbox) \in Seq(Messages) /\ ToSet(inbox) = {m} \cup ToSet(Tail(inbox))
  BY <1>1, ElementsOfTail
<1>3. /\ inbox' = Tail(inbox)
      /\ CASE DecodedAs(m) = "profile" -> ReceiveProfile(m.doc, m.topic)
           [] DecodedAs(m) = "state"   -> ReceiveState(m.doc, m.topic)
           [] DecodedAs(m) = "health"  -> ReceiveHealth(m.doc, m.topic)
           [] OTHER                    -> UNCHANGED board
      /\ killed' = IF DecodedAs(m) \in {"state", "health"} THEN killed \ {m.doc.key} ELSE killed
      /\ unsaved' = IF DecodedAs(m) = "profile" THEN unsaved \ {m.doc.key} ELSE unsaved
  BY DEF Receive
<1>4. m = Head(inbox)
  OBVIOUS
<1> HIDE DEF m
<1>5. /\ DecodedAs(m) \in {"nothing", "profile", "state", "health"}
      /\ m.doc # Null => /\ m.doc \in Profiles /\ m.topic = Topic(m.doc) /\ KnownBy(m.doc)
  BY <1>2, DecodedKinds, MessageKinds
<1>6. CASE DecodedAs(m) = "nothing"
  <2>1. UNCHANGED board /\ killed' = killed /\ unsaved' = unsaved
    BY <1>3, <1>6
  <2>2. m.doc = Null \/ m.doc.type = "client"
    BY <1>2, <1>5, <1>6, DecodedKinds DEF KnownBy
  <2> QED
    BY <1>1, <1>2, <1>3, <1>4, <1>6, <2>1, <2>2 DEF board
<1>7. CASE DecodedAs(m) = "profile"
  <2>1. ReceiveProfile(m.doc, m.topic) /\ killed' = killed /\ unsaved' = unsaved \ {m.doc.key}
    BY <1>3, <1>7
  <2>2. m.doc # Null /\ m.doc.type = "profile"
    BY <1>2, <1>7, DecodedKinds
  <2>3. m.doc \in Profiles /\ m.topic = Topic(m.doc) /\ m.doc.key \in Keys
    BY <1>5, <2>2 DEF KnownBy
  <2> QED
    BY <1>1, <1>2, <1>3, <1>4, <1>7, <2>1, <2>2, <2>3
<1>8. CASE DecodedAs(m) = "state"
  <2>1. ReceiveState(m.doc, m.topic) /\ killed' = killed \ {m.doc.key} /\ unsaved' = unsaved
    BY <1>3, <1>8
  <2>2. m.doc # Null /\ m.doc.type \in {"event", "state"} /\ m.doc.state # Null
    BY <1>2, <1>8, DecodedKinds
  <2>3. m.doc \in Profiles /\ m.topic = Topic(m.doc) /\ m.doc.key \in Keys
    BY <1>5, <2>2 DEF KnownBy
  <2> QED
    BY <1>1, <1>2, <1>3, <1>4, <1>8, <2>1, <2>2, <2>3
<1>9. CASE DecodedAs(m) = "health"
  <2>1. ReceiveHealth(m.doc, m.topic) /\ killed' = killed \ {m.doc.key} /\ unsaved' = unsaved
    BY <1>3, <1>9
  <2>2. m.doc # Null /\ m.doc.type \in {"event", "health"}
    BY <1>2, <1>9, DecodedKinds
  <2>3. m.doc \in Profiles /\ m.topic = Topic(m.doc) /\ m.doc.key \in Keys /\ m.doc.state = Null
    BY <1>2, <1>5, <1>9, <2>2, DecodedKinds DEF KnownBy
  <2> QED
    BY <1>1, <1>2, <1>3, <1>4, <1>9, <2>1, <2>2, <2>3
<1> QED
  BY <1>5, <1>6, <1>7, <1>8, <1>9

\* A gremlin, or one that has not heard of its session yet.
Newborn ==
    [ workspace : {k[1] : k \in Keys} \cup {Null}, reported : Sources \cup {Null},
      profile : Sources \cup Names \cup {Null}, stateTopic : Topics \cup {Null},
      healthTopic : Topics \cup {Null}, profileTopic : Topics \cup {Null} ]

\* sessionModel(for:) brings along the name that was waiting.
LEMMA GremlinForMeans ==
    ASSUME GInv, NEW k \in Keys
    PROVE  LET g == GremlinFor(k[2]) IN
           /\ g \in Newborn /\ g.profile = NameOf(k) /\ g.reported = ReportOf(k)
           /\ k[2] \in DOMAIN sessions => g = sessions[k[2]]
           /\ k[2] \notin DOMAIN sessions /\ k[2] \in DOMAIN pending =>
                 g.profileTopic = ProfileTopic(pending[k[2]].doc.key)
           /\ k[2] \notin DOMAIN sessions /\ k[2] \notin DOMAIN pending => g.profileTopic = Null
<1>0. /\ NewGremlin \in Newborn /\ NewGremlin.profile = Null /\ NewGremlin.reported = Null
      /\ NewGremlin.profileTopic = Null
  BY DEF NewGremlin, Newborn
<1>1. CASE k[2] \in DOMAIN sessions
  <2>1. sessions[k[2]] \in Gremlin
    BY <1>1 DEF GInv, TypeOK
  <2>2. sessions[k[2]] \in Newborn
    BY <2>1 DEF Gremlin, Newborn
  <2> QED
    BY <1>1, <2>2 DEF GremlinFor, NameOf, ReportOf
<1>2. CASE k[2] \notin DOMAIN sessions /\ k[2] \in DOMAIN pending
  <2> DEFINE d == pending[k[2]].doc
  <2> DEFINE t == pending[k[2]].topic
  <2>1. d \in Profiles /\ d.type = "profile" /\ t = Topic(d)
    BY <1>2 DEF GInv, TypeOK
  <2>2. GremlinFor(k[2]) = Profiled(NewGremlin, d, t)
    BY <1>2 DEF GremlinFor
  <2>3. NameOf(k) = d.source /\ ReportOf(k) = Null
    BY <1>2 DEF NameOf, ReportOf
  <2> HIDE DEF d, t
  <2>4. d.key \in Keys /\ d.source \in Sources \cup Names /\ t \in Topics /\ t = ProfileTopic(d.key)
    BY <2>1, KnownDocument, TopicTells DEF KnownBy
  <2>5. d.key[1] \in {j[1] : j \in Keys}
    BY <2>4
  <2> DEFINE g == NewGremlin
  <2>6. g \in Newborn /\ g.reported = Null
    BY <1>0
  <2> HIDE DEF g
  <2>7. /\ Profiled(g, d, t) \in Newborn
        /\ Profiled(g, d, t).profile = d.source
        /\ Profiled(g, d, t).reported = Null
        /\ Profiled(g, d, t).profileTopic = t
    BY <2>4, <2>5, <2>6 DEF Newborn, Profiled
  <2> QED
    BY <1>2, <2>2, <2>3, <2>4, <2>7 DEF d, g
<1>3. CASE k[2] \notin DOMAIN sessions /\ k[2] \notin DOMAIN pending
  <2>1. GremlinFor(k[2]) = NewGremlin /\ NameOf(k) = Null /\ ReportOf(k) = Null
    BY <1>3 DEF GremlinFor, NameOf, ReportOf
  <2> QED
    BY <1>0, <1>3, <2>1
<1> QED
  BY <1>1, <1>2, <1>3

\* A state or health document, or an event taken for one, makes or updates the gremlin
\* of its session and no other (handle in MenagerieApp.swift).
LEMMA HeardMeans ==
    ASSUME GInv, NEW d \in Profiles, d.key \in Keys, d.type \notin {"profile", "client"},
           \/ d.state # Null /\ d.type # "health" /\ ReceiveState(d, Topic(d))
           \/ d.state = Null /\ d.type # "state" /\ ReceiveHealth(d, Topic(d))
    PROVE  LET sid == d.key[2] IN
           /\ DOMAIN sessions' = DOMAIN sessions \cup {sid}
           /\ \A x \in DOMAIN sessions : x # sid => sessions'[x] = sessions[x]
           /\ DOMAIN pending' = DOMAIN pending \ {sid}
           /\ \A x \in DOMAIN pending' : pending'[x] = pending[x]
           /\ sessions'[sid] \in Gremlin
           /\ sessions'[sid].workspace = d.key[1]
           /\ sessions'[sid].profile = NameOf(d.key)
           /\ sessions'[sid].profileTopic = GremlinFor(sid).profileTopic
           /\ sessions'[sid].reported =
                 IF d.type = "event" /\ d.state = Null THEN ReportOf(d.key) ELSE d.source
<1> DEFINE k == d.key
<1> DEFINE g == GremlinFor(k[2])
<1>1. k \in Keys /\ KnownBy(d) /\ Topic(d) \in Topics
  BY KnownDocument, TopicTells
<1>2. g \in Newborn /\ g.profile = NameOf(k) /\ g.reported = ReportOf(k)
  BY <1>1, GremlinForMeans
<1>3. \E h : /\ sessions' = With(sessions, k[2], h) /\ pending' = Without(pending, k[2])
             /\ \/ d.state # Null /\ d.type # "health"
                   /\ h = [g EXCEPT !.workspace = k[1], !.stateTopic = Topic(d), !.reported = d.source]
                \/ d.state = Null /\ d.type # "state"
                   /\ h = [g EXCEPT !.workspace = k[1], !.healthTopic = Topic(d),
                                    !.reported = IF d.type = "health" THEN d.source ELSE @]
  BY DEF ReceiveState, ReceiveHealth
<1> HIDE DEF g
<1>4. PICK h : /\ sessions' = With(sessions, k[2], h) /\ pending' = Without(pending, k[2])
               /\ \/ d.state # Null /\ d.type # "health"
                     /\ h = [g EXCEPT !.workspace = k[1], !.stateTopic = Topic(d), !.reported = d.source]
                  \/ d.state = Null /\ d.type # "state"
                     /\ h = [g EXCEPT !.workspace = k[1], !.healthTopic = Topic(d),
                                      !.reported = IF d.type = "health" THEN d.source ELSE @]
  BY <1>3
<1>5. k[1] \in {j[1] : j \in Keys} /\ d.source \in Sources
  BY <1>1 DEF KnownBy
<1>6. /\ h \in Gremlin /\ h.workspace = k[1] /\ h.profile = g.profile /\ h.profileTopic = g.profileTopic
      /\ h.reported = IF d.type = "event" /\ d.state = Null THEN g.reported ELSE d.source
  <2>1. CASE /\ d.state # Null /\ d.type # "health"
             /\ h = [g EXCEPT !.workspace = k[1], !.stateTopic = Topic(d), !.reported = d.source]
    BY <1>1, <1>2, <1>5, <2>1 DEF Newborn, Gremlin
  <2>2. CASE /\ d.state = Null /\ d.type # "state"
             /\ h = [g EXCEPT !.workspace = k[1], !.healthTopic = Topic(d),
                              !.reported = IF d.type = "health" THEN d.source ELSE @]
    <3>1. d.type = "health" \/ d.type = "event"
      BY <1>1, <2>2 DEF KnownBy
    <3>2. CASE d.type = "health"
      BY <1>1, <1>2, <1>5, <2>2, <3>2 DEF Newborn, Gremlin
    <3>3. CASE d.type = "event"
      BY <1>1, <1>2, <1>5, <2>2, <3>3 DEF Newborn, Gremlin
    <3> QED
      BY <3>1, <3>2, <3>3
  <2> QED
    BY <1>4, <2>1, <2>2
<1>7. /\ DOMAIN sessions' = DOMAIN sessions \cup {k[2]}
      /\ \A x \in DOMAIN sessions : x # k[2] => sessions'[x] = sessions[x]
      /\ sessions'[k[2]] = h
      /\ DOMAIN pending' = DOMAIN pending \ {k[2]}
      /\ \A x \in DOMAIN pending' : pending'[x] = pending[x]
  BY <1>4 DEF With, Without
<1> QED
  BY <1>2, <1>6, <1>7 DEF g

\* A profile names the gremlin of its session, or waits for it.
LEMMA ProfileMeans ==
    ASSUME GInv, NEW d \in Profiles, d.key \in Keys, d.type = "profile", ReceiveProfile(d, Topic(d))
    PROVE  LET sid == d.key[2] IN
           \/ /\ sid \in DOMAIN sessions /\ DOMAIN sessions' = DOMAIN sessions
              /\ \A x \in DOMAIN sessions : x # sid => sessions'[x] = sessions[x]
              /\ pending' = pending
              /\ sessions'[sid] \in Gremlin
              /\ sessions'[sid].workspace = d.key[1]
              /\ sessions'[sid].profile = d.source
              /\ sessions'[sid].profileTopic = ProfileTopic(d.key)
              /\ sessions'[sid].reported = sessions[sid].reported
           \/ /\ sid \notin DOMAIN sessions /\ sessions' = sessions
              /\ DOMAIN pending' = DOMAIN pending \cup {sid}
              /\ \A x \in DOMAIN pending : x # sid => pending'[x] = pending[x]
              /\ pending'[sid].doc = d /\ pending'[sid].topic = Topic(d)
<1> DEFINE sid == d.key[2]
<1>1. KnownBy(d) /\ Topic(d) \in Topics /\ Topic(d) = ProfileTopic(d.key)
  BY KnownDocument, TopicTells
<1>2. CASE sid \in DOMAIN sessions
  <2> DEFINE g == sessions[sid]
  <2> DEFINE h == Profiled(g, d, Topic(d))
  <2>1. sessions' = [sessions EXCEPT ![sid] = h] /\ pending' = pending
    BY <1>2 DEF ReceiveProfile
  <2>2. g \in Gremlin
    BY <1>2 DEF GInv, TypeOK
  <2>3. d.key[1] \in {j[1] : j \in Keys} /\ d.source \in Sources \cup Names
    BY <1>1 DEF KnownBy
  <2> HIDE DEF g
  <2>4. /\ h \in Gremlin /\ h.workspace = d.key[1] /\ h.profile = d.source
        /\ h.profileTopic = ProfileTopic(d.key) /\ h.reported = g.reported
    BY <1>1, <2>2, <2>3 DEF Gremlin, Profiled
  <2> HIDE DEF h
  <2>5. /\ DOMAIN sessions' = DOMAIN sessions /\ sessions'[sid] = h
        /\ \A x \in DOMAIN sessions : x # sid => sessions'[x] = sessions[x]
    BY <1>2, <2>1
  <2> QED
    BY <1>2, <2>1, <2>4, <2>5 DEF g
<1>3. CASE sid \notin DOMAIN sessions
  <2>1. pending' = With(pending, sid, Message(Topic(d), d)) /\ sessions' = sessions
    BY <1>3 DEF ReceiveProfile
  <2>2. /\ DOMAIN pending' = DOMAIN pending \cup {sid}
        /\ \A x \in DOMAIN pending : x # sid => pending'[x] = pending[x]
        /\ pending'[sid] = Message(Topic(d), d)
    BY <2>1 DEF With
  <2> QED
    BY <1>3, <2>1, <2>2 DEF Message
<1> QED
  BY <1>2, <1>3

-----------------------------------------------------------------------------
(* The other actions, and the types through all of them.                   *)

\* Applying a message keeps the invariant.
LEMMA ReceiveTypes ==
    ASSUME GInv, Receive
    PROVE  GInv'
<1>1. UNCHANGED <<stage, retained, link, outbox>>
  BY DEF Receive, broker
<1>2. PICK m \in Messages :
              /\ inbox' \in Seq(Messages)
              /\ \/ UNCHANGED <<sessions, pending>>
                 \/ /\ m.doc \in Profiles /\ m.topic = Topic(m.doc)
                    /\ m.doc.key \in Keys /\ m.doc.type = "profile"
                    /\ ReceiveProfile(m.doc, m.topic)
                 \/ /\ DecodedAs(m) \in {"state", "health"}
                    /\ m.doc \in Profiles /\ m.topic = Topic(m.doc)
                    /\ m.doc.key \in Keys /\ m.doc.type \notin {"profile", "client"}
                    /\ \/ m.doc.state # Null /\ m.doc.type # "health" /\ ReceiveState(m.doc, m.topic)
                       \/ m.doc.state = Null /\ m.doc.type # "state" /\ ReceiveHealth(m.doc, m.topic)
  BY ReceiveMeans DEF DecodedAs
<1>3. \A x \in ToSet(inbox') \cup ToSet(outbox') : x.doc = Null \/ x.doc \in Profiles
  BY <1>1, <1>2, QueuesTyped DEF GInv
<1> DEFINE d == m.doc
<1> DEFINE sid == d.key[2]
<1>4. /\ DOMAIN sessions' \subseteq SessionIds
      /\ \A x \in DOMAIN sessions' : sessions'[x] \in Gremlin /\ <<sessions'[x].workspace, x>> \in Keys
      /\ DOMAIN pending' \subseteq SessionIds \ DOMAIN sessions'
      /\ \A x \in DOMAIN pending' :
            /\ pending'[x].doc \in Profiles /\ pending'[x].doc.type = "profile"
            /\ pending'[x].doc.key[2] = x /\ pending'[x].topic = Topic(pending'[x].doc)
  <2>1. CASE UNCHANGED <<sessions, pending>>
    BY <2>1 DEF GInv, TypeOK, KeyOf
  <2>2. CASE /\ d \in Profiles /\ d.key \in Keys /\ d.type = "profile"
             /\ ReceiveProfile(d, Topic(d))
    <3>1. sid \in SessionIds /\ <<d.key[1], sid>> \in Keys
      BY <2>2, KeyPairs DEF SessionIds
    <3>2. CASE /\ sid \in DOMAIN sessions /\ DOMAIN sessions' = DOMAIN sessions
               /\ \A x \in DOMAIN sessions : x # sid => sessions'[x] = sessions[x]
               /\ pending' = pending
               /\ sessions'[sid] \in Gremlin /\ sessions'[sid].workspace = d.key[1]
      BY <3>1, <3>2 DEF GInv, TypeOK, KeyOf
    <3>3. CASE /\ sid \notin DOMAIN sessions /\ sessions' = sessions
               /\ DOMAIN pending' = DOMAIN pending \cup {sid}
               /\ \A x \in DOMAIN pending : x # sid => pending'[x] = pending[x]
               /\ pending'[sid].doc = d /\ pending'[sid].topic = Topic(d)
      BY <2>2, <3>1, <3>3 DEF GInv, TypeOK, KeyOf
    <3> QED
      BY <2>2, <3>2, <3>3, ProfileMeans
  <2>3. CASE /\ d \in Profiles /\ d.key \in Keys /\ d.type \notin {"profile", "client"}
             /\ \/ d.state # Null /\ d.type # "health" /\ ReceiveState(d, Topic(d))
                \/ d.state = Null /\ d.type # "state" /\ ReceiveHealth(d, Topic(d))
    <3>1. sid \in SessionIds /\ <<d.key[1], sid>> \in Keys
      BY <2>3, KeyPairs DEF SessionIds
    <3>2. /\ DOMAIN sessions' = DOMAIN sessions \cup {sid}
          /\ \A x \in DOMAIN sessions : x # sid => sessions'[x] = sessions[x]
          /\ DOMAIN pending' = DOMAIN pending \ {sid}
          /\ \A x \in DOMAIN pending' : pending'[x] = pending[x]
          /\ sessions'[sid] \in Gremlin /\ sessions'[sid].workspace = d.key[1]
      BY <2>3, HeardMeans
    <3> QED
      BY <3>1, <3>2 DEF GInv, TypeOK, KeyOf
  <2> QED
    BY <1>2, <2>1, <2>2, <2>3
<1>5. TypeOK'
  BY <1>1, <1>3, <1>4 DEF GInv, TypeOK
<1> QED
  BY <1>1, <1>2, <1>4, <1>5 DEF GInv, KeyOf

\* Killing a gremlin (killSession): it leaves the board, and with a connection three
\* deletions leave the app.
LEMMA KillMeans ==
    ASSUME GInv, NEW sid \in DOMAIN sessions, Kill(sid)
    PROVE  /\ outbox' \in Seq(Sent)
           /\ link = "up" =>
                 ToSet(outbox') = ToSet(outbox) \cup
                     {Message(Given(sessions[sid].stateTopic, StateTopic(KeyOf(sid))), Null),
                      Message(Given(sessions[sid].healthTopic, SessionHealthTopic(KeyOf(sid))), Null),
                      Message(Given(sessions[sid].profileTopic, ProfileTopic(KeyOf(sid))), Null)}
           /\ link # "up" => outbox' = outbox
           /\ DOMAIN sessions' = DOMAIN sessions \ {sid}
           /\ \A x \in DOMAIN sessions' : sessions'[x] = sessions[x]
           /\ killed' = killed \cup {KeyOf(sid)} /\ KeyOf(sid) \in Keys
           /\ UNCHANGED <<stage, retained, link, inbox, pending, named, unsaved, wiped>>
<1> DEFINE a == Given(sessions[sid].stateTopic, StateTopic(KeyOf(sid)))
<1> DEFINE b == Given(sessions[sid].healthTopic, SessionHealthTopic(KeyOf(sid)))
<1> DEFINE c == Given(sessions[sid].profileTopic, ProfileTopic(KeyOf(sid)))
<1> DEFINE s == [i \in DOMAIN KillTopics(sid) |-> Message(KillTopics(sid)[i], Null)]
<1>1. KeyOf(sid) \in Keys /\ sessions[sid] \in Gremlin
  BY DEF GInv, TypeOK
<1>2. {StateTopic(KeyOf(sid)), SessionHealthTopic(KeyOf(sid)), ProfileTopic(KeyOf(sid))} \subseteq Topics
  BY <1>1 DEF Topics, TopicsOf
<1>3. a \in Topics /\ b \in Topics /\ c \in Topics
  BY <1>1, <1>2 DEF Gremlin, Given
<1>4. KillTopics(sid) = <<a, b, c>>
  BY DEF KillTopics, KeyOf
<1>5. /\ outbox' = IF link = "up" THEN outbox \o s ELSE outbox
      /\ sessions' = Without(sessions, sid)
      /\ killed' = killed \cup {KeyOf(sid)}
      /\ UNCHANGED <<stage, retained, link, inbox, pending, named, unsaved, wiped>>
  BY DEF Kill, KeyOf, broker
<1> HIDE DEF a, b, c
<1>6. s \in Seq(Sent) /\ ToSet(s) = {Message(a, Null), Message(b, Null), Message(c, Null)}
  <2>1. s = <<Message(a, Null), Message(b, Null), Message(c, Null)>>
    BY <1>4
  <2>2. {Message(a, Null), Message(b, Null), Message(c, Null)} \subseteq Sent
    BY <1>3 DEF Sent, Deletions
  <2> HIDE DEF s
  <2>3. s \in Seq(Sent)
    BY <2>1, <2>2
  <2>4. DOMAIN s = {1, 2, 3}
    BY <2>1
  <2>5. ToSet(s) = {s[1], s[2], s[3]}
    BY <2>4 DEF ToSet
  <2> QED
    BY <2>1, <2>3, <2>5
<1> HIDE DEF s
<1>7. outbox \o s \in Seq(Sent) /\ ToSet(outbox \o s) = ToSet(outbox) \cup ToSet(s)
  BY <1>6, ElementsOfConcat DEF GInv
<1>8. /\ DOMAIN sessions' = DOMAIN sessions \ {sid}
      /\ \A x \in DOMAIN sessions' : sessions'[x] = sessions[x]
  BY <1>5 DEF Without
<1> QED
  BY <1>1, <1>5, <1>6, <1>7, <1>8 DEF a, b, c, GInv

\* Killing keeps the invariant.
LEMMA KillTypes ==
    ASSUME GInv, NEW sid \in DOMAIN sessions, Kill(sid)
    PROVE  GInv'
<1>1. /\ outbox' \in Seq(Sent)
      /\ link # "up" => outbox' = outbox
      /\ DOMAIN sessions' = DOMAIN sessions \ {sid}
      /\ \A x \in DOMAIN sessions' : sessions'[x] = sessions[x]
      /\ UNCHANGED <<stage, retained, link, inbox, pending>>
  BY KillMeans
<1>2. \A x \in ToSet(inbox') \cup ToSet(outbox') : x.doc = Null \/ x.doc \in Profiles
  BY <1>1, QueuesTyped DEF GInv
<1>3. TypeOK'
  BY <1>1, <1>2 DEF GInv, TypeOK
<1> QED
  BY <1>1, <1>3 DEF GInv, TypeOK, KeyOf

\* Naming a gremlin (publishSessionProfile): it has the name at once, and with a
\* connection the profile leaves the app.
LEMMA SetNameMeans ==
    ASSUME GInv, NEW sid \in DOMAIN sessions, NEW name \in Names, SetName(sid, name)
    PROVE  \E d \in NamedProfiles :
              /\ d \in Profiles /\ d.key = KeyOf(sid) /\ KeyOf(sid) \in Keys
              /\ d.source = name /\ d.type = "profile" /\ Topic(d) = ProfileTopic(KeyOf(sid))
              /\ link = "up" =>
                    ToSet(outbox') = ToSet(outbox) \cup {Message(ProfileTopic(KeyOf(sid)), d)}
              /\ link # "up" => outbox' = outbox
              /\ outbox' \in Seq(Sent)
              /\ unsaved' = IF link = "up" THEN unsaved ELSE unsaved \cup {KeyOf(sid)}
              /\ DOMAIN sessions' = DOMAIN sessions
              /\ \A x \in DOMAIN sessions : x # sid => sessions'[x] = sessions[x]
              /\ sessions'[sid] \in Gremlin
              /\ sessions'[sid].workspace = sessions[sid].workspace
              /\ sessions'[sid].profile = name
              /\ sessions'[sid].profileTopic = ProfileTopic(KeyOf(sid))
              /\ sessions'[sid].reported = sessions[sid].reported
              /\ UNCHANGED <<stage, retained, link, inbox, pending, killed, wiped>>
<1> DEFINE k == KeyOf(sid)
<1> DEFINE d == NamedProfile(name, k)
<1> DEFINE g == sessions[sid]
<1> DEFINE h == Profiled(g, d, ProfileTopic(k))
<1> DEFINE m == Message(ProfileTopic(k), d)
<1>1. k \in Keys /\ g \in Gremlin /\ k[1] = g.workspace
  BY DEF GInv, TypeOK, KeyOf
<1>2. /\ outbox' = IF link = "up" THEN Append(outbox, m) ELSE outbox
      /\ unsaved' = IF link = "up" THEN unsaved ELSE unsaved \cup {k}
      /\ sessions' = [sessions EXCEPT ![sid] = h]
      /\ UNCHANGED <<stage, retained, link, inbox, pending, killed, wiped>>
  BY DEF SetName, KeyOf, broker
<1> HIDE DEF k, g
<1>3. d \in NamedProfiles /\ d \in Profiles /\ d.key = k /\ d.source = name /\ d.type = "profile"
  <2>1. d \in NamedProfiles /\ d \in Profiles
    BY <1>1 DEF NamedProfiles, Profiles
  <2>2. d.key = k /\ d.source = name /\ d.type = "profile"
    BY DEF NamedProfile
  <2> QED
    BY <2>1, <2>2
<1> HIDE DEF d
<1>4. Topic(d) = ProfileTopic(k) /\ ProfileTopic(k) \in Topics
  BY <1>1, <1>3, TopicTells DEF Topics, TopicsOf
<1>5. m \in Sent
  BY <1>3, <1>4 DEF Sent
<1>6. /\ h \in Gremlin /\ h.workspace = g.workspace /\ h.profile = name
      /\ h.profileTopic = ProfileTopic(k) /\ h.reported = g.reported
  BY <1>1, <1>3, <1>4 DEF Gremlin, Profiled
<1> HIDE DEF h
<1>7. /\ DOMAIN sessions' = DOMAIN sessions /\ sessions'[sid] = h
      /\ \A x \in DOMAIN sessions : x # sid => sessions'[x] = sessions[x]
  BY <1>2
<1>8. outbox \in Seq(Sent)
  BY DEF GInv
<1> HIDE DEF m
<1>9. Append(outbox, m) \in Seq(Sent) /\ ToSet(Append(outbox, m)) = ToSet(outbox) \cup {m}
  BY <1>5, <1>8, ElementsOfAppend
<1> QED
  BY <1>1, <1>2, <1>3, <1>4, <1>6, <1>7, <1>8, <1>9 DEF k, g, m

\* Naming keeps the invariant.
LEMMA SetNameTypes ==
    ASSUME GInv, NEW sid \in DOMAIN sessions, NEW name \in Names, SetName(sid, name)
    PROVE  GInv'
<1>1. /\ link # "up" => outbox' = outbox
      /\ outbox' \in Seq(Sent)
      /\ DOMAIN sessions' = DOMAIN sessions
      /\ \A x \in DOMAIN sessions : x # sid => sessions'[x] = sessions[x]
      /\ sessions'[sid] \in Gremlin
      /\ sessions'[sid].workspace = sessions[sid].workspace
      /\ UNCHANGED <<stage, retained, link, inbox, pending>>
  BY SetNameMeans
<1>2. \A x \in ToSet(inbox') \cup ToSet(outbox') : x.doc = Null \/ x.doc \in Profiles
  BY <1>1, QueuesTyped DEF GInv
<1>3. TypeOK'
  BY <1>1, <1>2 DEF GInv, TypeOK
<1> QED
  BY <1>1, <1>3 DEF GInv, TypeOK, KeyOf

\* What a SUBSCRIBE brings are the retained documents under the filters, each of them
\* and nothing else.
LEMMA BurstTopics ==
    ASSUME IsFiniteSet(DOMAIN retained), NEW burst \in Bursts(retained)
    PROVE  /\ burst \in Seq(DOMAIN retained)
           /\ ToSet(burst) =
                 {t \in DOMAIN retained : retained[t].type \in {"state", "health", "client", "profile"}}
<1> DEFINE Under(types) == {t \in DOMAIN retained : retained[t].type \in types}
<1>1. PICK s \in RetainedUnder(retained, {"state"}), h \in RetainedUnder(retained, {"health", "client"}),
           p \in RetainedUnder(retained, {"profile"}) : burst = s \o h \o p
  BY DEF Bursts
<1>2. /\ s \o h \o p \in Seq(DOMAIN retained)
      /\ ToSet(s \o h \o p) =
            Under({"state"}) \cup Under({"health", "client"}) \cup Under({"profile"})
  <2>1. /\ s \in SetToSeqs(Under({"state"})) /\ h \in SetToSeqs(Under({"health", "client"}))
        /\ p \in SetToSeqs(Under({"profile"}))
    BY <1>1 DEF RetainedUnder
  <2>2. \A types : Under(types) \in SUBSET DOMAIN retained
    OBVIOUS
  <2> HIDE DEF Under
  <2> QED
    BY <2>1, <2>2, OrdersInThreeParts
<1>3. Under({"state"}) \cup Under({"health", "client"}) \cup Under({"profile"}) =
          Under({"state", "health", "client", "profile"})
  OBVIOUS
<1> QED
  BY <1>1, <1>2, <1>3

\* What a new subscription brings (connect): every retained document, once.
LEMMA SubscribeMeans ==
    ASSUME GInv, Subscribe
    PROVE  /\ link = "down" /\ link' = "up" /\ killed' = {} /\ outbox = << >>
           /\ inbox' \in Seq(Messages)
           /\ ToSet(inbox') =
                 {Message(t, retained[t]) : t \in
                     {x \in DOMAIN retained : retained[x].type \in {"state", "health", "client", "profile"}}}
           /\ UNCHANGED <<stage, retained, outbox, sessions, pending, named, unsaved, wiped>>
<1>1. /\ link = "down" /\ link' = "up" /\ killed' = {}
      /\ UNCHANGED <<stage, retained, outbox, sessions, pending, named, unsaved, wiped>>
  BY DEF Subscribe, broker, board
<1>2. PICK burst \in Bursts(retained) :
          inbox' = [i \in DOMAIN burst |-> Message(burst[i], retained[burst[i]])]
  BY DEF Subscribe
<1> DEFINE In == {x \in DOMAIN retained : retained[x].type \in {"state", "health", "client", "profile"}}
<1>3. burst \in Seq(DOMAIN retained) /\ ToSet(burst) = In
  BY BurstTopics DEF GInv
<1> HIDE DEF In
<1>4. DOMAIN burst = 1 .. Len(burst) /\ Len(burst) \in Nat /\ In \subseteq DOMAIN retained
  BY <1>3, LenProperties DEF In
<1>5. \A i \in DOMAIN burst : burst[i] \in In /\ Message(burst[i], retained[burst[i]]) \in Messages
  <2> TAKE i \in DOMAIN burst
  <2>1. burst[i] \in In /\ burst[i] \in DOMAIN retained
    BY <1>3, <1>4 DEF ToSet
  <2>2. retained[burst[i]] \in Profiles /\ Topic(retained[burst[i]]) = burst[i]
    BY <2>1 DEF GInv, TypeOK
  <2> QED
    BY <2>1, <2>2 DEF Messages
<1>6. inbox' \in [1 .. Len(burst) -> Messages]
  BY <1>2, <1>4, <1>5
<1>7. inbox' \in Seq(Messages)
  BY <1>4, <1>6, SeqDef
<1>8. ToSet(inbox') = {Message(t, retained[t]) : t \in In}
  <2>1. ToSet(inbox') = {Message(burst[i], retained[burst[i]]) : i \in DOMAIN burst}
    BY <1>2 DEF ToSet
  <2>2. In = {burst[i] : i \in DOMAIN burst}
    BY <1>3 DEF ToSet
  <2> QED
    BY <2>1, <2>2
<1>9. outbox = << >>
  BY <1>1 DEF GInv
<1> QED
  BY <1>1, <1>7, <1>8, <1>9 DEF In

\* A new subscription keeps the invariant.
LEMMA SubscribeTypes ==
    ASSUME GInv, Subscribe
    PROVE  GInv'
<1>1. /\ link' = "up" /\ inbox' \in Seq(Messages)
      /\ UNCHANGED <<stage, retained, outbox, sessions, pending>>
  BY SubscribeMeans
<1>2. \A x \in ToSet(inbox') \cup ToSet(outbox') : x.doc = Null \/ x.doc \in Profiles
  BY <1>1, QueuesTyped DEF GInv
<1>3. TypeOK'
  BY <1>1, <1>2 DEF GInv, TypeOK
<1> QED
  BY <1>1, <1>3 DEF GInv, KeyOf

\* A lost connection leaves what had arrived, and nothing of what was sent.
LEMMA LoseMeans ==
    ASSUME GInv, Lose
    PROVE  /\ link' = "down" /\ outbox' = << >> /\ outbox' \in Seq(Sent) /\ ToSet(outbox') = {}
           /\ inbox' \in Seq(Messages) /\ ToSet(inbox') \subseteq ToSet(inbox)
           /\ unsaved' = unsaved \cup {m.doc.key : m \in {x \in ToSet(outbox) : x.doc # Null}}
           /\ UNCHANGED <<stage, retained, sessions, pending, named, killed, wiped>>
<1>1. /\ link' = "down" /\ outbox' = << >>
      /\ unsaved' = unsaved \cup {m.doc.key : m \in {x \in ToSet(outbox) : x.doc # Null}}
      /\ UNCHANGED <<stage, retained, sessions, pending, named, killed, wiped>>
  BY DEF Lose, broker, board
<1>2. PICK n \in 0 .. Len(inbox) : inbox' = SubSeq(inbox, 1, n)
  BY DEF Lose
<1>3. inbox \in Seq(Messages)
  BY DEF GInv
<1>4. inbox' \in Seq(Messages) /\ ToSet(inbox') \subseteq ToSet(inbox)
  BY <1>2, <1>3, ElementsOfFront
<1>5. << >> \in Seq(Sent) /\ ToSet(<< >>) = {}
  BY EmptySeq, ElementsOfEmpty
<1> QED
  BY <1>1, <1>4, <1>5

\* A lost connection keeps the invariant.
LEMMA LoseTypes ==
    ASSUME GInv, Lose
    PROVE  GInv'
<1>1. /\ link' = "down" /\ outbox' = << >> /\ outbox' \in Seq(Sent) /\ inbox' \in Seq(Messages)
      /\ UNCHANGED <<stage, retained, sessions, pending>>
  BY LoseMeans
<1>2. \A x \in ToSet(inbox') \cup ToSet(outbox') : x.doc = Null \/ x.doc \in Profiles
  BY <1>1, QueuesTyped
<1>3. TypeOK'
  BY <1>1, <1>2 DEF GInv, TypeOK
<1> QED
  BY <1>1, <1>3 DEF GInv, KeyOf

\* A restart leaves nothing but what the broker has.
LEMMA RestartMeans ==
    ASSUME GInv, Restart
    PROVE  /\ link' = "down" /\ inbox' = << >> /\ outbox' = << >>
           /\ inbox' \in Seq(Messages) /\ outbox' \in Seq(Sent)
           /\ ToSet(inbox') = {} /\ ToSet(outbox') = {}
           /\ DOMAIN sessions' = {} /\ DOMAIN pending' = {} /\ unsaved' = {}
           /\ UNCHANGED <<stage, retained, named, killed, wiped>>
<1>1. /\ link' = "down" /\ inbox' = << >> /\ outbox' = << >>
      /\ sessions' = << >> /\ pending' = << >> /\ unsaved' = {}
      /\ UNCHANGED <<stage, retained, named, killed, wiped>>
  BY DEF Restart, broker
<1>2. /\ << >> \in Seq(Messages) /\ << >> \in Seq(Sent) /\ ToSet(<< >>) = {} /\ DOMAIN << >> = {}
  BY EmptySeq, ElementsOfEmpty
<1> QED
  BY <1>1, <1>2

\* A restart keeps the invariant.
LEMMA RestartTypes ==
    ASSUME GInv, Restart
    PROVE  GInv'
<1>1. /\ link' = "down" /\ outbox' = << >>
      /\ inbox' \in Seq(Messages) /\ outbox' \in Seq(Sent)
      /\ DOMAIN sessions' = {} /\ DOMAIN pending' = {}
      /\ UNCHANGED <<stage, retained>>
  BY RestartMeans
<1>2. \A x \in ToSet(inbox') \cup ToSet(outbox') : x.doc = Null \/ x.doc \in Profiles
  BY <1>1, QueuesTyped
<1>3. TypeOK'
  BY <1>1, <1>2 DEF GInv, TypeOK
<1> QED
  BY <1>1, <1>3 DEF GInv, KeyOf

\* At the start there is nothing.
LEMMA InitMeans ==
    ASSUME Init
    PROVE  /\ GInv
           /\ DOMAIN retained = {} /\ ToSet(inbox) = {} /\ ToSet(outbox) = {}
           /\ DOMAIN sessions = {} /\ DOMAIN pending = {} /\ link = "down"
           /\ \A n \in Sources : stage[n] = 0
<1>1. /\ stage = [n \in Sources |-> 0] /\ retained = << >> /\ link = "down"
      /\ inbox = << >> /\ outbox = << >> /\ sessions = << >> /\ pending = << >>
  BY DEF Init
<1>2. /\ << >> \in Seq(Messages) /\ << >> \in Seq(Sent) /\ ToSet(<< >>) = {} /\ DOMAIN << >> = {}
  BY EmptySeq, ElementsOfEmpty
<1>3. stage \in [Sources -> 0 .. 3]
  <2>1. 0 \in 0 .. 3
    OBVIOUS
  <2> QED
    BY <1>1, <2>1
<1>4. IsFiniteSet(DOMAIN retained)
  BY <1>1, <1>2, FS_EmptySet
<1>5. TypeOK
  BY <1>1, <1>2, <1>3 DEF TypeOK
<1>6. GInv
  BY <1>1, <1>2, <1>4, <1>5 DEF GInv
<1> QED
  BY <1>1, <1>2, <1>6

\* The invariant of the types holds throughout.
LEMMA GremlinsInvariant == Spec => []GInv
<1>1. GInv /\ [Next]_vars => GInv'
  <2> SUFFICES ASSUME GInv, [Next]_vars PROVE GInv'
    OBVIOUS
  <2>1. CASE UNCHANGED vars
    BY <2>1 DEF vars, broker, board, ghosts, GInv, TypeOK, KeyOf
  <2> QED
    BY <2>1, PublishTypes, TakeTypes, ReceiveTypes, KillTypes, SetNameTypes, SubscribeTypes,
       LoseTypes, RestartTypes DEF Next
<1>2. Init => GInv
  BY InitMeans
<1> QED
  BY <1>1, <1>2, PTL DEF Spec

\* The board has known sessions with topics they can have been heard of on, and a profile
\* waits only for a session without a gremlin (Models.swift, MenagerieApp.swift).
THEOREM GremlinsTypes == Spec => []TypeOK
BY GremlinsInvariant, PTL DEF GInv

-----------------------------------------------------------------------------
(* The board is complete.                                                  *)

\* No two sessions have one id (the ids of Codex and Claude Code are universally
\* unique; the app looks its gremlins up by the id alone).
UniqueIds == \A j, k \in Keys : j[2] = k[2] => j = k

\* A message on its way from which the app will hear of session k.
Coming(k) == \E m \in ToSet(inbox) : DecodedAs(m) \in {"state", "health"} /\ m.doc.key = k

\* On a subscription every session of which something is retained has a gremlin, or
\* will have one, or was killed.
Complete ==
    link = "up" => \A k \in Keys :
        IsRetained(k) => k[2] \in DOMAIN sessions \/ k \in killed \/ Coming(k)

\* State and health documents are what the app hears of a session from.
LEMMA ComesAsHeard ==
    ASSUME NEW d \in Profiles, d.type \in {"state", "health"}
    PROVE  LET m == Message(Topic(d), d) IN
           m \in Messages /\ DecodedAs(m) \in {"state", "health"} /\ m.doc = d
<1>1. d # Null /\ KnownBy(d)
  BY KnownDocument
<1> DEFINE m == Message(Topic(d), d)
<1>2. m \in Messages /\ m.doc = d
  BY DEF Messages, Message
<1> HIDE DEF m
<1>3. DecodedAs(m) \in {"state", "health"}
  BY <1>1, <1>2 DEF DecodedAs, KnownBy
<1> QED
  BY <1>2, <1>3 DEF m

\* What is retained of a session is its state and its health.
LEMMA RetainedOf ==
    ASSUME GInv, NEW k \in Keys
    PROVE  \A t \in {StateTopic(k), SessionHealthTopic(k)} \cap DOMAIN retained :
              /\ retained[t] \in Profiles /\ Topic(retained[t]) = t
              /\ retained[t].type \in {"state", "health"} /\ retained[t].key = k
              /\ retained[t].source \in Sources /\ Key[retained[t].source] = k
<1> SUFFICES ASSUME NEW t \in {StateTopic(k), SessionHealthTopic(k)}, t \in DOMAIN retained
             PROVE  /\ retained[t] \in Profiles /\ Topic(retained[t]) = t
                    /\ retained[t].type \in {"state", "health"} /\ retained[t].key = k
                    /\ retained[t].source \in Sources /\ Key[retained[t].source] = k
  OBVIOUS
<1> DEFINE d == retained[t]
<1>1. d \in Profiles /\ Topic(d) = t
  BY DEF GInv, TypeOK
<1> HIDE DEF d
<1>2. KnownBy(d) /\ d.type \in {"state", "health"} /\ d.key = k
  BY <1>1, KnownDocument, TopicTells
<1>3. d.source \in Sources /\ Key[d.source] = k
  BY <1>2 DEF KnownBy
<1> QED
  BY <1>1, <1>2, <1>3 DEF d

\* A published state or health document is on its way as soon as it is retained.
LEMMA PublishComplete ==
    ASSUME GInv, Complete, NEW n \in Sources, Publish(n)
    PROVE  Complete'
<1>1. PICK d \in Profiles :
              /\ retained' = IF d.type = "event" THEN retained ELSE With(retained, Topic(d), d)
              /\ Message(Topic(d), d) \in Messages /\ ToApp(Message(Topic(d), d))
  BY PublishMeans
<1>2. UNCHANGED <<link, sessions, killed>>
  BY DEF Publish, board
<1> SUFFICES ASSUME link = "up", NEW k \in Keys, IsRetained(k)',
                    k[2] \notin DOMAIN sessions, k \notin killed
             PROVE  Coming(k)'
  BY <1>2 DEF Complete
<1> DEFINE m == Message(Topic(d), d)
<1>3. ToSet(inbox') = ToSet(inbox) \cup {m}
  BY <1>1, PassedOn
<1>4. CASE IsRetained(k)
  BY <1>3, <1>4 DEF Complete, Coming
<1>5. CASE ~IsRetained(k)
  <2>1. d.type # "event" /\ DOMAIN retained' = DOMAIN retained \cup {Topic(d)}
    BY <1>1, <1>5, Retaining DEF IsRetained
  <2>2. Topic(d) \in {StateTopic(k), SessionHealthTopic(k)}
    BY <1>5, <2>1 DEF IsRetained
  <2>3. d.type \in {"state", "health"} /\ d.key = k
    BY <2>2, TopicTells
  <2>4. DecodedAs(m) \in {"state", "health"} /\ m.doc = d
    BY <2>3, ComesAsHeard
  <2> QED
    BY <1>3, <2>3, <2>4 DEF Coming
<1> QED
  BY <1>4, <1>5

\* A name or a deletion by the app adds nothing that would have to be shown.
LEMMA TakeComplete ==
    ASSUME GInv, Complete, BrokerTake
    PROVE  Complete'
<1>1. PICK m \in Sent :
              /\ m \in Messages
              /\ \/ UNCHANGED <<retained, inbox>>
                 \/ retained' = Without(retained, m.topic) /\ ToApp(m)
                 \/ /\ m.doc \in Profiles /\ m.doc.type = "profile"
                    /\ retained' = With(retained, Topic(m.doc), m.doc) /\ ToApp(m)
  BY TakeMeans
<1>2. UNCHANGED <<link, sessions, killed>>
  BY DEF BrokerTake, board
<1> SUFFICES ASSUME link = "up", NEW k \in Keys, IsRetained(k)',
                    k[2] \notin DOMAIN sessions, k \notin killed
             PROVE  Coming(k)'
  BY <1>2 DEF Complete
<1>3. ToSet(inbox) \subseteq ToSet(inbox')
  BY <1>1, PassedOn
<1>4. IsRetained(k)
  <2>1. CASE retained' = retained
    BY <2>1 DEF IsRetained
  <2>2. CASE retained' = Without(retained, m.topic)
    BY <2>2, Forgetting DEF IsRetained
  <2>3. CASE /\ m.doc \in Profiles /\ m.doc.type = "profile"
             /\ retained' = With(retained, Topic(m.doc), m.doc)
    <3>1. Topic(m.doc) \notin {StateTopic(k), SessionHealthTopic(k)}
      BY <2>3, TopicTells
    <3>2. DOMAIN retained' = DOMAIN retained \cup {Topic(m.doc)}
      BY <2>3, Retaining
    <3> QED
      BY <3>1, <3>2 DEF IsRetained
  <2> QED
    BY <1>1, <2>1, <2>2, <2>3
<1> QED
  BY <1>3, <1>4 DEF Complete, Coming

\* A message that was coming makes the gremlin when it is applied.
LEMMA ReceiveComplete ==
    ASSUME GInv, Complete, Receive
    PROVE  Complete'
<1>1. UNCHANGED <<retained, link>>
  BY DEF Receive, broker
<1>2. PICK m \in Messages :
              /\ ToSet(inbox) = {m} \cup ToSet(inbox')
              /\ \/ /\ DecodedAs(m) = "nothing"
                    /\ UNCHANGED <<sessions, killed>>
                 \/ /\ DecodedAs(m) = "profile"
                    /\ m.doc \in Profiles /\ m.topic = Topic(m.doc)
                    /\ m.doc.key \in Keys /\ m.doc.type = "profile"
                    /\ ReceiveProfile(m.doc, m.topic)
                    /\ killed' = killed
                 \/ /\ DecodedAs(m) \in {"state", "health"}
                    /\ m.doc \in Profiles /\ m.topic = Topic(m.doc)
                    /\ m.doc.key \in Keys /\ m.doc.type \notin {"profile", "client"}
                    /\ \/ m.doc.state # Null /\ m.doc.type # "health" /\ ReceiveState(m.doc, m.topic)
                       \/ m.doc.state = Null /\ m.doc.type # "state" /\ ReceiveHealth(m.doc, m.topic)
                    /\ killed' = killed \ {m.doc.key}
  BY ReceiveMeans DEF DecodedAs
<1>3. /\ DOMAIN sessions \subseteq DOMAIN sessions'
      /\ DecodedAs(m) \in {"state", "health"} => m.doc.key[2] \in DOMAIN sessions'
      /\ \A k \in killed \ killed' : DecodedAs(m) \in {"state", "health"} /\ k = m.doc.key
  <2>1. CASE DecodedAs(m) = "nothing"
    BY <1>2, <2>1
  <2>2. CASE DecodedAs(m) = "profile"
    <3>1. DOMAIN sessions' = DOMAIN sessions
      BY <1>2, <2>2, ProfileMeans
    <3> QED
      BY <1>2, <2>2, <3>1
  <2>3. CASE DecodedAs(m) \in {"state", "health"}
    <3>1. DOMAIN sessions' = DOMAIN sessions \cup {m.doc.key[2]}
      BY <1>2, <2>3, HeardMeans
    <3> QED
      BY <1>2, <2>3, <3>1
  <2> QED
    BY <1>2, <2>1, <2>2, <2>3
<1> SUFFICES ASSUME link = "up", NEW k \in Keys, IsRetained(k)', k[2] \notin DOMAIN sessions',
                    k \notin killed'
             PROVE  Coming(k)'
  BY <1>1 DEF Complete
<1>4. IsRetained(k) /\ k[2] \notin DOMAIN sessions /\ k \notin killed
  BY <1>1, <1>3 DEF IsRetained
<1>5. PICK x \in ToSet(inbox) : DecodedAs(x) \in {"state", "health"} /\ x.doc.key = k
  BY <1>4 DEF Complete, Coming
<1>6. x # m
  BY <1>3, <1>5
<1> QED
  BY <1>2, <1>5, <1>6 DEF Coming

\* A gremlin is missed only if the user killed it: its session has no other.
LEMMA KillComplete ==
    ASSUME GInv, Complete, UniqueIds, NEW sid \in DOMAIN sessions, Kill(sid)
    PROVE  Complete'
<1>1. /\ DOMAIN sessions' = DOMAIN sessions \ {sid}
      /\ killed' = killed \cup {KeyOf(sid)} /\ KeyOf(sid) \in Keys
      /\ UNCHANGED <<retained, link, inbox>>
  BY KillMeans
<1>2. \A k \in Keys : k[2] = sid => k = KeyOf(sid)
  BY <1>1 DEF UniqueIds, KeyOf
<1> QED
  BY <1>1, <1>2 DEF Complete, IsRetained, Coming

\* A new subscription brings everything that is retained.
LEMMA SubscribeComplete ==
    ASSUME GInv, Subscribe
    PROVE  Complete'
<1>1. /\ ToSet(inbox') =
                 {Message(t, retained[t]) : t \in
                     {x \in DOMAIN retained : retained[x].type \in {"state", "health", "client", "profile"}}}
      /\ retained' = retained
  BY SubscribeMeans
<1> SUFFICES ASSUME NEW k \in Keys, IsRetained(k)' PROVE Coming(k)'
  BY DEF Complete
<1>2. PICK t \in {StateTopic(k), SessionHealthTopic(k)} : t \in DOMAIN retained
  BY <1>1 DEF IsRetained
<1> DEFINE d == retained[t]
<1>3. d \in Profiles /\ Topic(d) = t /\ d.type \in {"state", "health"} /\ d.key = k
  BY <1>2, RetainedOf
<1>4. Message(t, d) \in ToSet(inbox')
  BY <1>1, <1>2, <1>3
<1> HIDE DEF d
<1>5. DecodedAs(Message(t, d)) \in {"state", "health"} /\ Message(t, d).doc = d
  BY <1>3, ComesAsHeard
<1> QED
  BY <1>3, <1>4, <1>5 DEF Coming

\* The board is complete, whatever happens.
LEMMA CompleteHolds == ASSUME UniqueIds PROVE Spec => [](GInv /\ Complete)
<1>1. GInv /\ Complete /\ [Next]_vars => Complete'
  <2> SUFFICES ASSUME GInv, Complete, [Next]_vars PROVE Complete'
    OBVIOUS
  <2>1. CASE UNCHANGED vars
    BY <2>1 DEF vars, broker, board, ghosts, Complete, IsRetained, Coming
  <2>2. ASSUME NEW sid \in DOMAIN sessions, NEW name \in Names, SetName(sid, name) PROVE Complete'
    <3>1. DOMAIN sessions' = DOMAIN sessions /\ UNCHANGED <<retained, link, inbox, killed>>
      BY <2>2, SetNameMeans
    <3> QED
      BY <3>1 DEF Complete, IsRetained, Coming
  <2>3. CASE Lose \/ Restart
    BY <2>3, LoseMeans, RestartMeans DEF Complete
  <2> QED
    BY <2>1, <2>2, <2>3, PublishComplete, TakeComplete, ReceiveComplete, KillComplete,
       SubscribeComplete DEF Next
<1>2. Init => Complete
  BY DEF Init, Complete
<1> QED
  BY GremlinsInvariant, <1>1, <1>2, PTL DEF Spec

\* If no two sessions have one id, an app that has caught up shows a gremlin for every
\* session of which something is retained, but for those the user killed on this
\* subscription (handle and sessionModel(for:) in MenagerieApp.swift).
THEOREM BoardIsComplete ==
    ASSUME UniqueIds
    PROVE  Spec => []RetainedIsShown
<1>1. GInv /\ Complete => RetainedIsShown
  <2> SUFFICES ASSUME GInv, Complete, CaughtUp, NEW k \in Keys, IsRetained(k)
               PROVE  k[2] \in DOMAIN sessions \/ k \in killed
    BY DEF RetainedIsShown
  <2>1. ToSet(inbox) = {}
    BY ElementsOfEmpty DEF CaughtUp
  <2> QED
    BY <2>1 DEF CaughtUp, Complete, Coming
<1> QED
  BY CompleteHolds, <1>1, PTL

-----------------------------------------------------------------------------
(* The names.                                                              *)

\* The messages that name session k, with the name they give it.
Naming(k) ==
    [m \in {x \in Messages : x.doc # Null /\ x.doc.type = "profile" /\ x.doc.key = k} |-> m.doc.source]

RetainedName(k) ==
    IF ProfileTopic(k) \in DOMAIN retained THEN retained[ProfileTopic(k)].source ELSE Null

\* The app has something to tell the broker about the name of session k; a name, even.
Tells(k)   == \E m \in ToSet(outbox) : m.topic = ProfileTopic(k)
TellsOf(k) == \E m \in ToSet(outbox) : m.doc # Null /\ m.topic = ProfileTopic(k)

\* A gremlin is taken to be of its session, and remembers no other's profile topic.
OwnTopic ==
    \A k \in Keys : k[2] \in DOMAIN sessions =>
        sessions[k[2]].workspace = k[1] /\ sessions[k[2]].profileTopic \in {Null, ProfileTopic(k)}

\* If no profile of a session is retained, none is coming, and a name the board has
\* for it has not reached the broker yet or never will.
Nameless ==
    \A k \in Keys : ProfileTopic(k) \notin DOMAIN retained \cup wiped =>
        /\ ToSet(inbox) \cap DOMAIN Naming(k) = {}
        /\ NameOf(k) = Null \/ k \in unsaved \/ TellsOf(k)

\* On a subscription the name will be the retained one once the inbox is worked off,
\* but for the exceptions.
NamesSettle ==
    link = "up" => \A k \in Keys :
        \/ ProfileTopic(k) \in wiped
        \/ Tells(k)
        \/ \A x : Settles(inbox, Naming(k), NameOf(k), x) =>
              x = RetainedName(k) \/ (k \in unsaved /\ ToSet(inbox) \cap DOMAIN Naming(k) = {})

NamesInv == GInv /\ OwnTopic /\ Nameless /\ NamesSettle

\* Which messages name a session: its profiles.
LEMMA NamingMeans ==
    ASSUME NEW k \in Keys, NEW m \in Messages
    PROVE  /\ m \in DOMAIN Naming(k) <=> m.doc # Null /\ m.topic = ProfileTopic(k)
           /\ m \in DOMAIN Naming(k) <=> m.doc # Null /\ m.doc.type = "profile" /\ m.doc.key = k
           /\ m \in DOMAIN Naming(k) => Naming(k)[m] = m.doc.source
<1>1. /\ m \in DOMAIN Naming(k) <=> m.doc # Null /\ m.doc.type = "profile" /\ m.doc.key = k
      /\ m \in DOMAIN Naming(k) => Naming(k)[m] = m.doc.source
  BY DEF Naming
<1>2. m.doc # Null => m.doc \in Profiles /\ m.topic = Topic(m.doc)
  BY MessageKinds
<1>3. m.doc # Null => (m.topic = ProfileTopic(k) <=> m.doc.type = "profile" /\ m.doc.key = k)
  BY <1>2, TopicTells
<1> QED
  BY <1>1, <1>3

\* A message about something else changes nothing about a name, when it joins the inbox.
LEMMA NotNaming ==
    ASSUME NEW q \in Seq(Messages), NEW m \in Messages, NEW k \in Keys, m \notin DOMAIN Naming(k)
    PROVE  /\ ToSet(Append(q, m)) \cap DOMAIN Naming(k) = ToSet(q) \cap DOMAIN Naming(k)
           /\ \A x, y : Settles(Append(q, m), Naming(k), x, y) => Settles(q, Naming(k), x, y)
<1>1. ToSet(Append(q, m)) = ToSet(q) \cup {m}
  BY ElementsOfAppend
<1>2. \A x, y : Settles(Append(q, m), Naming(k), x, y) => Settles(q, Naming(k), x, y)
  BY SettlesBefore
<1> QED
  BY <1>1, <1>2

\* What the broker passes on keeps the names settled: the last profile decides, and it
\* is the retained one.
LEMMA PassedOnSettles ==
    ASSUME GInv, Nameless, NamesSettle, NEW m \in Messages, ToApp(m), NEW k \in Keys,
           UNCHANGED <<link, sessions, pending, unsaved>>,
           m.topic # ProfileTopic(k) => /\ RetainedName(k)' = RetainedName(k)
                                        /\ ProfileTopic(k) \in wiped => ProfileTopic(k) \in wiped'
                                        /\ Tells(k) => Tells(k)',
           m.topic = ProfileTopic(k) => \/ m.doc = Null /\ ProfileTopic(k) \in wiped'
                                        \/ m.doc # Null /\ RetainedName(k)' = m.doc.source,
           link' = "up"
    PROVE  \/ ProfileTopic(k) \in wiped'
           \/ Tells(k)'
           \/ \A x : Settles(inbox', Naming(k), NameOf(k)', x) =>
                 x = RetainedName(k)' \/ (k \in unsaved' /\ ToSet(inbox') \cap DOMAIN Naming(k) = {})
<1>1. inbox \in Seq(Messages) /\ inbox' = Append(inbox, m) /\ NameOf(k)' = NameOf(k)
  BY PassedOn DEF GInv, NameOf
<1>2. CASE m.topic = ProfileTopic(k)
  <2>1. CASE m.doc = Null
    BY <1>2, <2>1
  <2>2. CASE m.doc # Null
    <3>1. m \in DOMAIN Naming(k) /\ Naming(k)[m] = m.doc.source
      BY <1>2, <2>2, NamingMeans
    <3>2. \A x : Settles(Append(inbox, m), Naming(k), NameOf(k), x) => x = m.doc.source
      BY <1>1, <3>1, SettlesOnLast
    <3> QED
      BY <1>1, <1>2, <2>2, <3>2
  <2> QED
    BY <2>1, <2>2
<1>3. CASE m.topic # ProfileTopic(k)
  <2>1. m \notin DOMAIN Naming(k)
    BY <1>3, NamingMeans
  <2>2. /\ ToSet(Append(inbox, m)) \cap DOMAIN Naming(k) = ToSet(inbox) \cap DOMAIN Naming(k)
        /\ \A x, y : Settles(Append(inbox, m), Naming(k), x, y) => Settles(inbox, Naming(k), x, y)
    BY <1>1, <2>1, NotNaming
  <2> QED
    BY <1>1, <1>3, <2>2 DEF NamesSettle
<1> QED
  BY <1>2, <1>3

\* A document of a publisher keeps the names.
LEMMA PublishNames ==
    ASSUME NamesInv, NEW n \in Sources, Publish(n)
    PROVE  OwnTopic' /\ Nameless' /\ NamesSettle'
<1>0. GInv /\ OwnTopic /\ Nameless /\ NamesSettle
  BY DEF NamesInv
<1>1. PICK d \in Profiles :
              /\ KnownBy(d)
              /\ retained' = IF d.type = "event" THEN retained ELSE With(retained, Topic(d), d)
              /\ wiped' = wiped \ {Topic(d)}
              /\ Message(Topic(d), d) \in Messages /\ ToApp(Message(Topic(d), d))
  BY <1>0, PublishMeans
<1> DEFINE m == Message(Topic(d), d)
<1>2. UNCHANGED <<link, outbox, sessions, pending, unsaved>>
  BY DEF Publish, board
<1>3. m \in Messages /\ ToApp(m) /\ m.topic = Topic(d) /\ m.doc = d /\ d # Null
  BY <1>1, KnownDocument DEF Message
<1> HIDE DEF m
<1>4. ASSUME NEW k \in Keys, Topic(d) # ProfileTopic(k)
      PROVE  /\ ProfileTopic(k) \in DOMAIN retained' <=> ProfileTopic(k) \in DOMAIN retained
             /\ ProfileTopic(k) \in wiped' <=> ProfileTopic(k) \in wiped
             /\ RetainedName(k)' = RetainedName(k)
  <2>1. CASE d.type = "event"
    BY <1>1, <1>4, <2>1 DEF RetainedName
  <2>2. CASE d.type # "event"
    BY <1>0, <1>1, <1>4, <2>2, Retaining DEF RetainedName
  <2> QED
    BY <2>1, <2>2
<1>5. ASSUME NEW k \in Keys, Topic(d) = ProfileTopic(k)
      PROVE  ProfileTopic(k) \in DOMAIN retained' /\ RetainedName(k)' = d.source
  <2>1. d.type # "event"
    BY <1>5, TopicTells
  <2> QED
    BY <1>0, <1>1, <1>5, <2>1, Retaining DEF RetainedName
<1>6. OwnTopic'
  BY <1>0, <1>2 DEF OwnTopic
<1>7. Nameless'
  <2> SUFFICES ASSUME NEW k \in Keys, ProfileTopic(k) \notin DOMAIN retained' \cup wiped'
               PROVE  /\ ToSet(inbox') \cap DOMAIN Naming(k) = {}
                      /\ NameOf(k)' = Null \/ k \in unsaved' \/ TellsOf(k)'
    BY DEF Nameless, Naming, Messages
  <2>1. Topic(d) # ProfileTopic(k)
    BY <1>5
  <2>2. /\ ToSet(inbox) \cap DOMAIN Naming(k) = {}
        /\ NameOf(k) = Null \/ k \in unsaved \/ TellsOf(k)
    BY <1>0, <1>4, <2>1 DEF Nameless
  <2>3. m \notin DOMAIN Naming(k)
    BY <1>3, <2>1, NamingMeans
  <2>4. ToSet(inbox') \subseteq ToSet(inbox) \cup {m}
    BY <1>0, <1>3, PassedOn
  <2> QED
    BY <1>2, <2>2, <2>3, <2>4 DEF NameOf, TellsOf
<1>8. NamesSettle'
  <2> SUFFICES ASSUME link' = "up", NEW k \in Keys
               PROVE  \/ ProfileTopic(k) \in wiped'
                      \/ Tells(k)'
                      \/ \A x : Settles(inbox', Naming(k), NameOf(k)', x) =>
                            x = RetainedName(k)' \/
                            (k \in unsaved' /\ ToSet(inbox') \cap DOMAIN Naming(k) = {})
    BY DEF NamesSettle, Settles, Hits, Naming, Messages
  <2>1. Tells(k) => Tells(k)'
    BY <1>2 DEF Tells
  <2> QED
    BY <1>0, <1>2, <1>3, <1>4, <1>5, <2>1, PassedOnSettles
<1> QED
  BY <1>6, <1>7, <1>8

\* The broker takes a name or a deletion: it is what is retained then, and what the app
\* gets back.
LEMMA TakeNames ==
    ASSUME NamesInv, BrokerTake
    PROVE  OwnTopic' /\ Nameless' /\ NamesSettle'
<1>0. GInv /\ OwnTopic /\ Nameless /\ NamesSettle
  BY DEF NamesInv
<1>1. PICK m \in Sent :
              /\ m \in Messages
              /\ ToSet(outbox) = {m} \cup ToSet(outbox')
              /\ \/ ~Permitted(m.topic) /\ UNCHANGED <<retained, wiped, inbox>>
                 \/ /\ Permitted(m.topic) /\ m.doc = Null
                    /\ retained' = Without(retained, m.topic) /\ wiped' = wiped \cup {m.topic}
                    /\ ToApp(m)
                 \/ /\ Permitted(m.topic) /\ m.doc # Null
                    /\ m.doc \in Profiles /\ m.topic = Topic(m.doc)
                    /\ retained' = With(retained, Topic(m.doc), m.doc)
                    /\ wiped' = wiped \ {m.topic}
                    /\ ToApp(m)
  BY <1>0, TakeMeans
<1>2. UNCHANGED <<link, sessions, pending, unsaved>>
  BY DEF BrokerTake, board
<1>3. OwnTopic'
  BY <1>0, <1>2 DEF OwnTopic
<1>4. CASE ~Permitted(m.topic) /\ UNCHANGED <<retained, wiped, inbox>>
  <2>1. \A k \in Keys : m.topic # ProfileTopic(k)
    BY <1>4, TopicsDiffer
  <2>2. \A k \in Keys : (Tells(k) => Tells(k)') /\ (TellsOf(k) => TellsOf(k)')
    BY <1>1, <2>1 DEF Tells, TellsOf
  <2>3. Nameless'
    BY <1>0, <1>2, <1>4, <2>2 DEF Nameless, NameOf, Naming, Messages
  <2>4. NamesSettle'
    <3> SUFFICES ASSUME link' = "up", NEW k \in Keys
                 PROVE  \/ ProfileTopic(k) \in wiped'
                        \/ Tells(k)'
                        \/ \A x : Settles(inbox', Naming(k), NameOf(k)', x) =>
                              x = RetainedName(k)' \/
                              (k \in unsaved' /\ ToSet(inbox') \cap DOMAIN Naming(k) = {})
      BY DEF NamesSettle, Settles, Hits, Naming, Messages
    <3>1. NameOf(k)' = NameOf(k) /\ RetainedName(k)' = RetainedName(k)
      BY <1>2, <1>4 DEF NameOf, RetainedName
    <3> QED
      BY <1>0, <1>2, <1>4, <2>2, <3>1 DEF NamesSettle
  <2> QED
    BY <1>3, <2>3, <2>4
<1>5. CASE ToApp(m)
  <2>1. ASSUME NEW k \in Keys, m.topic # ProfileTopic(k)
        PROVE  /\ ProfileTopic(k) \in DOMAIN retained' <=> ProfileTopic(k) \in DOMAIN retained
               /\ ProfileTopic(k) \in wiped' <=> ProfileTopic(k) \in wiped
               /\ RetainedName(k)' = RetainedName(k)
               /\ Tells(k) => Tells(k)'
               /\ TellsOf(k) => TellsOf(k)'
    <3>1. (Tells(k) => Tells(k)') /\ (TellsOf(k) => TellsOf(k)')
      BY <1>1, <2>1 DEF Tells, TellsOf
    <3>2. CASE UNCHANGED <<retained, wiped>>
      BY <3>1, <3>2 DEF RetainedName
    <3>3. CASE retained' = Without(retained, m.topic) /\ wiped' = wiped \cup {m.topic}
      BY <1>0, <2>1, <3>1, <3>3, Forgetting DEF RetainedName
    <3>4. CASE /\ m.doc \in Profiles /\ m.topic = Topic(m.doc) /\ wiped' = wiped \ {m.topic}
               /\ retained' = With(retained, Topic(m.doc), m.doc)
      <4>1. /\ DOMAIN retained' = DOMAIN retained \cup {m.topic}
            /\ \A t \in DOMAIN retained' : t # m.topic => retained'[t] = retained[t]
        BY <1>0, <3>4, Retaining
      <4> QED
        BY <2>1, <3>1, <3>4, <4>1 DEF RetainedName
    <3> QED
      BY <1>1, <3>2, <3>3, <3>4
  <2>2. ASSUME NEW k \in Keys, m.topic = ProfileTopic(k)
        PROVE  \/ m.doc = Null /\ ProfileTopic(k) \in wiped'
               \/ /\ m.doc # Null /\ ProfileTopic(k) \in DOMAIN retained'
                  /\ RetainedName(k)' = m.doc.source
    <3>1. Permitted(m.topic)
      BY <2>2, TopicsDiffer
    <3>2. CASE m.doc = Null
      BY <1>1, <2>2, <3>1, <3>2
    <3>3. CASE m.doc # Null
      <4>1. m.doc \in Profiles /\ m.topic = Topic(m.doc) /\ retained' = With(retained, Topic(m.doc), m.doc)
        BY <1>1, <3>1, <3>3
      <4>2. m.topic \in DOMAIN retained' /\ retained'[m.topic] = m.doc
        BY <1>0, <4>1, Retaining
      <4> QED
        BY <2>2, <3>3, <4>2 DEF RetainedName
    <3> QED
      BY <3>2, <3>3
  <2>3. Nameless'
    <3> SUFFICES ASSUME NEW k \in Keys, ProfileTopic(k) \notin DOMAIN retained' \cup wiped'
                 PROVE  /\ ToSet(inbox') \cap DOMAIN Naming(k) = {}
                        /\ NameOf(k)' = Null \/ k \in unsaved' \/ TellsOf(k)'
      BY DEF Nameless, Naming, Messages
    <3>1. m.topic # ProfileTopic(k)
      BY <2>2
    <3>2. /\ ToSet(inbox) \cap DOMAIN Naming(k) = {}
          /\ NameOf(k) = Null \/ k \in unsaved \/ TellsOf(k)
      BY <1>0, <2>1, <3>1 DEF Nameless
    <3>3. m \notin DOMAIN Naming(k)
      BY <1>1, <3>1, NamingMeans
    <3>4. ToSet(inbox') \subseteq ToSet(inbox) \cup {m}
      BY <1>0, <1>1, <1>5, PassedOn
    <3> QED
      BY <1>2, <2>1, <3>1, <3>2, <3>3, <3>4 DEF NameOf
  <2>4. NamesSettle'
    <3> SUFFICES ASSUME link' = "up", NEW k \in Keys
                 PROVE  \/ ProfileTopic(k) \in wiped'
                        \/ Tells(k)'
                        \/ \A x : Settles(inbox', Naming(k), NameOf(k)', x) =>
                              x = RetainedName(k)' \/
                              (k \in unsaved' /\ ToSet(inbox') \cap DOMAIN Naming(k) = {})
      BY DEF NamesSettle, Settles, Hits, Naming, Messages
    <3>1. m.topic # ProfileTopic(k) => /\ RetainedName(k)' = RetainedName(k)
                                       /\ ProfileTopic(k) \in wiped => ProfileTopic(k) \in wiped'
                                       /\ Tells(k) => Tells(k)'
      BY <2>1
    <3>2. m.topic = ProfileTopic(k) => \/ m.doc = Null /\ ProfileTopic(k) \in wiped'
                                       \/ m.doc # Null /\ RetainedName(k)' = m.doc.source
      BY <2>2
    <3> QED
      BY <1>0, <1>1, <1>2, <1>5, <3>1, <3>2, PassedOnSettles
  <2> QED
    BY <1>3, <2>3, <2>4
<1> QED
  BY <1>1, <1>4, <1>5

\* Applying a message gives a session the name the message says, and no other session.
LEMMA NameStep ==
    ASSUME GInv, OwnTopic, UniqueIds, Receive, NEW k \in Keys
    PROVE  /\ Head(inbox) \in Messages
           /\ NameOf(k)' = IF Head(inbox) \in DOMAIN Naming(k) THEN Naming(k)[Head(inbox)] ELSE NameOf(k)
           /\ k \in unsaved => k \in unsaved' \/ Head(inbox) \in DOMAIN Naming(k)
           /\ k[2] \in DOMAIN sessions' =>
                 /\ sessions'[k[2]].workspace = k[1]
                 /\ sessions'[k[2]].profileTopic \in {Null, ProfileTopic(k)}
<1>1. PICK m \in Messages :
              /\ m = Head(inbox)
              /\ \/ /\ DecodedAs(m) = "nothing"
                    /\ m.doc = Null \/ m.doc.type = "client"
                    /\ UNCHANGED <<sessions, pending, unsaved>>
                 \/ /\ DecodedAs(m) = "profile"
                    /\ m.doc # Null /\ m.doc \in Profiles /\ m.topic = Topic(m.doc)
                    /\ m.doc.key \in Keys /\ m.doc.type = "profile"
                    /\ ReceiveProfile(m.doc, m.topic)
                    /\ unsaved' = unsaved \ {m.doc.key}
                 \/ /\ DecodedAs(m) \in {"state", "health"}
                    /\ m.doc \in Profiles /\ m.topic = Topic(m.doc)
                    /\ m.doc.key \in Keys /\ m.doc.type \notin {"profile", "client"}
                    /\ \/ m.doc.state # Null /\ m.doc.type # "health" /\ ReceiveState(m.doc, m.topic)
                       \/ m.doc.state = Null /\ m.doc.type # "state" /\ ReceiveHealth(m.doc, m.topic)
                    /\ unsaved' = unsaved
  BY ReceiveMeans DEF DecodedAs
<1>2. k[2] \in DOMAIN sessions => /\ sessions[k[2]].workspace = k[1]
                                  /\ sessions[k[2]].profileTopic \in {Null, ProfileTopic(k)}
  BY DEF OwnTopic
<1>3. CASE DecodedAs(m) = "nothing"
  <2>1. m \notin DOMAIN Naming(k)
    BY <1>1, <1>3, NamingMeans
  <2>2. UNCHANGED <<sessions, pending, unsaved>>
    BY <1>1, <1>3
  <2> QED
    BY <1>1, <1>2, <2>1, <2>2 DEF NameOf
<1>4. CASE DecodedAs(m) = "profile"
  <2> DEFINE d == m.doc
  <2> DEFINE sid == d.key[2]
  <2>1. /\ d # Null /\ d \in Profiles /\ d.key \in Keys /\ d.type = "profile"
        /\ ReceiveProfile(d, Topic(d)) /\ unsaved' = unsaved \ {d.key}
    BY <1>1, <1>4
  <2>2. m \in DOMAIN Naming(k) <=> d.key = k
    BY <2>1, NamingMeans
  <2>3. m \in DOMAIN Naming(k) => Naming(k)[m] = d.source
    BY NamingMeans
  <2>4. \/ /\ sid \in DOMAIN sessions /\ DOMAIN sessions' = DOMAIN sessions
           /\ \A x \in DOMAIN sessions : x # sid => sessions'[x] = sessions[x]
           /\ pending' = pending
           /\ sessions'[sid].workspace = d.key[1]
           /\ sessions'[sid].profile = d.source
           /\ sessions'[sid].profileTopic = ProfileTopic(d.key)
        \/ /\ sid \notin DOMAIN sessions /\ sessions' = sessions
           /\ DOMAIN pending' = DOMAIN pending \cup {sid}
           /\ \A x \in DOMAIN pending : x # sid => pending'[x] = pending[x]
           /\ pending'[sid].doc = d
    BY <2>1, ProfileMeans
  <2>5. k # d.key => k[2] # sid
    BY <2>1 DEF UniqueIds
  <2> HIDE DEF d
  <2>6. CASE k = d.key
    <3>1. NameOf(k)' = d.source
      BY <2>4, <2>6 DEF NameOf
    <3> QED
      BY <1>1, <1>2, <2>2, <2>3, <2>4, <2>6, <3>1
  <2>7. CASE k # d.key
    <3>1. NameOf(k)' = NameOf(k)
      BY <2>4, <2>5, <2>7 DEF NameOf
    <3> QED
      BY <1>1, <1>2, <2>1, <2>2, <2>4, <2>5, <2>7, <3>1
  <2> QED
    BY <2>6, <2>7
<1>5. CASE DecodedAs(m) \in {"state", "health"}
  <2> DEFINE d == m.doc
  <2> DEFINE sid == d.key[2]
  <2>1. /\ d \in Profiles /\ d.key \in Keys /\ d.type \notin {"profile", "client"}
        /\ \/ d.state # Null /\ d.type # "health" /\ ReceiveState(d, Topic(d))
           \/ d.state = Null /\ d.type # "state" /\ ReceiveHealth(d, Topic(d))
        /\ unsaved' = unsaved
    BY <1>1, <1>5
  <2>2. m \notin DOMAIN Naming(k)
    BY <2>1, NamingMeans
  <2>3. /\ DOMAIN sessions' = DOMAIN sessions \cup {sid}
        /\ \A x \in DOMAIN sessions : x # sid => sessions'[x] = sessions[x]
        /\ DOMAIN pending' = DOMAIN pending \ {sid}
        /\ \A x \in DOMAIN pending' : pending'[x] = pending[x]
        /\ sessions'[sid].workspace = d.key[1]
        /\ sessions'[sid].profile = NameOf(d.key)
        /\ sessions'[sid].profileTopic = GremlinFor(sid).profileTopic
    BY <2>1, HeardMeans
  <2>4. k # d.key => k[2] # sid
    BY <2>1 DEF UniqueIds
  <2> HIDE DEF d
  <2>5. CASE k = d.key
    <3>1. NameOf(k)' = NameOf(k)
      BY <2>3, <2>5 DEF NameOf
    <3>2. GremlinFor(k[2]).profileTopic \in {Null, ProfileTopic(k)}
      <4>1. CASE k[2] \in DOMAIN sessions
        BY <1>2, <4>1, GremlinForMeans
      <4>2. CASE k[2] \notin DOMAIN sessions /\ k[2] \in DOMAIN pending
        <5>1. /\ pending[k[2]].doc \in Profiles /\ pending[k[2]].doc.type = "profile"
              /\ pending[k[2]].doc.key[2] = k[2]
          BY <4>2 DEF GInv, TypeOK
        <5>2. pending[k[2]].doc.key \in Keys
          BY <5>1, KnownDocument DEF KnownBy
        <5>3. pending[k[2]].doc.key = k
          BY <5>1, <5>2 DEF UniqueIds
        <5> QED
          BY <4>2, <5>3, GremlinForMeans
      <4>3. CASE k[2] \notin DOMAIN sessions /\ k[2] \notin DOMAIN pending
        BY <4>3, GremlinForMeans
      <4> QED
        BY <4>1, <4>2, <4>3
    <3> QED
      BY <1>1, <2>1, <2>2, <2>3, <2>5, <3>1, <3>2
  <2>6. CASE k # d.key
    <3>1. NameOf(k)' = NameOf(k)
      BY <2>3, <2>4, <2>6 DEF NameOf
    <3> QED
      BY <1>1, <1>2, <2>1, <2>2, <2>3, <2>4, <2>6, <3>1
  <2> QED
    BY <2>5, <2>6
<1> QED
  BY <1>1, <1>3, <1>4, <1>5

\* Applying the next message leads to the same name in the end.
LEMMA ReceiveNames ==
    ASSUME NamesInv, UniqueIds, Receive
    PROVE  OwnTopic' /\ Nameless' /\ NamesSettle'
<1>0. GInv /\ OwnTopic /\ Nameless /\ NamesSettle
  BY DEF NamesInv
<1>1. /\ UNCHANGED <<retained, link, outbox, wiped>>
      /\ inbox # << >> /\ inbox' = Tail(inbox)
  BY DEF Receive, broker
<1> DEFINE m == Head(inbox)
<1>2. /\ inbox \in Seq(Messages) /\ m \in Messages /\ Tail(inbox) \in Seq(Messages)
      /\ ToSet(inbox) = {m} \cup ToSet(Tail(inbox))
  BY <1>0, <1>1, ElementsOfTail DEF GInv
<1>3. ASSUME NEW k \in Keys
      PROVE  /\ NameOf(k)' = IF m \in DOMAIN Naming(k) THEN Naming(k)[m] ELSE NameOf(k)
             /\ k \in unsaved => k \in unsaved' \/ m \in DOMAIN Naming(k)
             /\ k[2] \in DOMAIN sessions' =>
                   /\ sessions'[k[2]].workspace = k[1]
                   /\ sessions'[k[2]].profileTopic \in {Null, ProfileTopic(k)}
  BY <1>0, NameStep
<1>4. OwnTopic'
  BY <1>3 DEF OwnTopic
<1> HIDE DEF m
<1>5. Nameless'
  <2> SUFFICES ASSUME NEW k \in Keys, ProfileTopic(k) \notin DOMAIN retained \cup wiped
               PROVE  /\ ToSet(inbox') \cap DOMAIN Naming(k) = {}
                      /\ NameOf(k)' = Null \/ k \in unsaved' \/ TellsOf(k)'
    BY <1>1 DEF Nameless, Naming, Messages
  <2>1. /\ ToSet(inbox) \cap DOMAIN Naming(k) = {}
        /\ NameOf(k) = Null \/ k \in unsaved \/ TellsOf(k)
    BY <1>0 DEF Nameless
  <2>2. m \notin DOMAIN Naming(k)
    BY <1>2, <2>1
  <2>3. TellsOf(k)' <=> TellsOf(k)
    BY <1>1 DEF TellsOf
  <2> QED
    BY <1>1, <1>2, <1>3, <2>1, <2>2, <2>3
<1>6. NamesSettle'
  <2> SUFFICES ASSUME link = "up", NEW k \in Keys, ProfileTopic(k) \notin wiped, ~Tells(k),
                      NEW x, Settles(Tail(inbox), Naming(k), NameOf(k)', x)
               PROVE  \/ x = RetainedName(k)'
                      \/ k \in unsaved' /\ ToSet(Tail(inbox)) \cap DOMAIN Naming(k) = {}
    BY <1>1 DEF NamesSettle, Settles, Hits, Naming, Messages, Tells
  <2>1. NameOf(k)' = IF m \in DOMAIN Naming(k) THEN Naming(k)[m] ELSE NameOf(k)
    BY <1>3
  <2>2. Settles(inbox, Naming(k), NameOf(k), x)
    BY <1>1, <1>2, <2>1, SettlesTail DEF m
  <2>3. x = RetainedName(k) \/ (k \in unsaved /\ ToSet(inbox) \cap DOMAIN Naming(k) = {})
    BY <1>0, <2>2 DEF NamesSettle
  <2>4. RetainedName(k)' = RetainedName(k)
    BY <1>1 DEF RetainedName
  <2> QED
    BY <1>2, <1>3, <2>3, <2>4
<1> QED
  BY <1>4, <1>5, <1>6

\* Killing deletes the name, or leaves nothing of it on the board.
LEMMA KillNames ==
    ASSUME NamesInv, UniqueIds, NEW sid \in DOMAIN sessions, Kill(sid)
    PROVE  OwnTopic' /\ Nameless' /\ NamesSettle'
<1>0. GInv /\ OwnTopic /\ Nameless /\ NamesSettle
  BY DEF NamesInv
<1>1. /\ link = "up" =>
            ToSet(outbox') = ToSet(outbox) \cup
                {Message(Given(sessions[sid].stateTopic, StateTopic(KeyOf(sid))), Null),
                 Message(Given(sessions[sid].healthTopic, SessionHealthTopic(KeyOf(sid))), Null),
                 Message(Given(sessions[sid].profileTopic, ProfileTopic(KeyOf(sid))), Null)}
      /\ link # "up" => outbox' = outbox
      /\ DOMAIN sessions' = DOMAIN sessions \ {sid}
      /\ \A x \in DOMAIN sessions' : sessions'[x] = sessions[x]
      /\ KeyOf(sid) \in Keys
      /\ UNCHANGED <<retained, link, inbox, pending, unsaved, wiped>>
  BY <1>0, KillMeans
<1>2. ASSUME NEW k \in Keys, k[2] = sid
      PROVE  NameOf(k)' = Null /\ (link = "up" => Tells(k)')
  <2>1. NameOf(k)' = Null
    BY <1>0, <1>1, <1>2 DEF NameOf, GInv, TypeOK
  <2>2. k = KeyOf(sid)
    BY <1>1, <1>2 DEF UniqueIds, KeyOf
  <2>3. Given(sessions[sid].profileTopic, ProfileTopic(KeyOf(sid))) = ProfileTopic(k)
    BY <1>0, <1>2, <2>2 DEF Given, OwnTopic
  <2>4. link = "up" => Message(ProfileTopic(k), Null) \in ToSet(outbox')
    BY <1>1, <2>3
  <2> QED
    BY <2>1, <2>4 DEF Tells, Message
<1>3. ASSUME NEW k \in Keys, k[2] # sid PROVE NameOf(k)' = NameOf(k)
  BY <1>1, <1>3 DEF NameOf
<1>4. ToSet(outbox) \subseteq ToSet(outbox')
  BY <1>1, SMT DEF GInv, TypeOK
<1>5. OwnTopic'
  BY <1>0, <1>1 DEF OwnTopic
<1>6. Nameless'
  BY <1>0, <1>1, <1>2, <1>3, <1>4 DEF Nameless, TellsOf, Naming, Messages
<1>7. NamesSettle'
  <2> SUFFICES ASSUME link' = "up", NEW k \in Keys
               PROVE  \/ ProfileTopic(k) \in wiped'
                      \/ Tells(k)'
                      \/ \A x : Settles(inbox', Naming(k), NameOf(k)', x) =>
                            x = RetainedName(k)' \/
                            (k \in unsaved' /\ ToSet(inbox') \cap DOMAIN Naming(k) = {})
    BY DEF NamesSettle, Settles, Hits, Naming, Messages
  <2>0. RetainedName(k)' = RetainedName(k)
    BY <1>1 DEF RetainedName
  <2> SUFFICES ASSUME ~Tells(k)'
               PROVE  \/ ProfileTopic(k) \in wiped
                      \/ \A x : Settles(inbox, Naming(k), NameOf(k)', x) =>
                            x = RetainedName(k) \/
                            (k \in unsaved' /\ ToSet(inbox) \cap DOMAIN Naming(k) = {})
    BY <1>1, <2>0
  <2>1. link = "up" /\ k[2] # sid /\ ~Tells(k)
    BY <1>1, <1>2, <1>4 DEF Tells
  <2> QED
    BY <1>0, <1>1, <1>3, <2>1 DEF NamesSettle
<1> QED
  BY <1>5, <1>6, <1>7

\* A name the user gives is on its way to the broker, or unsaved.
LEMMA SetNameNames ==
    ASSUME NamesInv, UniqueIds, NEW sid \in DOMAIN sessions, NEW name \in Names, SetName(sid, name)
    PROVE  OwnTopic' /\ Nameless' /\ NamesSettle'
<1>0. GInv /\ OwnTopic /\ Nameless /\ NamesSettle
  BY DEF NamesInv
<1>1. PICK d \in NamedProfiles :
              /\ d \in Profiles /\ KeyOf(sid) \in Keys
              /\ link = "up" =>
                    ToSet(outbox') = ToSet(outbox) \cup {Message(ProfileTopic(KeyOf(sid)), d)}
              /\ link # "up" => outbox' = outbox
              /\ unsaved' = IF link = "up" THEN unsaved ELSE unsaved \cup {KeyOf(sid)}
              /\ DOMAIN sessions' = DOMAIN sessions
              /\ \A x \in DOMAIN sessions : x # sid => sessions'[x] = sessions[x]
              /\ sessions'[sid].workspace = sessions[sid].workspace
              /\ sessions'[sid].profileTopic = ProfileTopic(KeyOf(sid))
              /\ UNCHANGED <<retained, link, inbox, pending, wiped>>
  BY <1>0, SetNameMeans
<1>2. ASSUME NEW k \in Keys, k[2] = sid
      PROVE  /\ k = KeyOf(sid)
             /\ link = "up" => Tells(k)' /\ TellsOf(k)'
             /\ link # "up" => k \in unsaved'
  <2>1. k = KeyOf(sid)
    BY <1>1, <1>2 DEF UniqueIds, KeyOf
  <2>2. link = "up" => Message(ProfileTopic(k), d) \in ToSet(outbox')
    BY <1>1, <2>1
  <2>3. d # Null
    BY <1>1, KnownDocument
  <2> QED
    BY <1>1, <2>1, <2>2, <2>3 DEF Tells, TellsOf, Message
<1>3. ASSUME NEW k \in Keys, k[2] # sid PROVE NameOf(k)' = NameOf(k)
  BY <1>1, <1>3 DEF NameOf
<1>4. /\ link = "up" => ToSet(outbox) \subseteq ToSet(outbox')
      /\ link # "up" => ToSet(outbox') = ToSet(outbox)
      /\ unsaved \subseteq unsaved'
  BY <1>1
<1>5. OwnTopic'
  <2> SUFFICES ASSUME NEW k \in Keys, k[2] \in DOMAIN sessions
               PROVE  /\ sessions'[k[2]].workspace = k[1]
                      /\ sessions'[k[2]].profileTopic \in {Null, ProfileTopic(k)}
    BY <1>1 DEF OwnTopic
  <2>1. CASE k[2] = sid
    BY <1>0, <1>1, <1>2, <2>1 DEF OwnTopic
  <2>2. CASE k[2] # sid
    BY <1>0, <1>1, <2>2 DEF OwnTopic
  <2> QED
    BY <2>1, <2>2
<1>6. Nameless'
  <2> SUFFICES ASSUME NEW k \in Keys, ProfileTopic(k) \notin DOMAIN retained \cup wiped
               PROVE  /\ ToSet(inbox) \cap DOMAIN Naming(k) = {}
                      /\ NameOf(k)' = Null \/ k \in unsaved' \/ TellsOf(k)'
    BY <1>1 DEF Nameless, Naming, Messages
  <2>1. /\ ToSet(inbox) \cap DOMAIN Naming(k) = {}
        /\ NameOf(k) = Null \/ k \in unsaved \/ TellsOf(k)
    BY <1>0 DEF Nameless
  <2>2. TellsOf(k) => TellsOf(k)'
    BY <1>4 DEF TellsOf
  <2> QED
    BY <1>2, <1>3, <1>4, <2>1, <2>2
<1>7. NamesSettle'
  <2> SUFFICES ASSUME link' = "up", NEW k \in Keys
               PROVE  \/ ProfileTopic(k) \in wiped'
                      \/ Tells(k)'
                      \/ \A x : Settles(inbox', Naming(k), NameOf(k)', x) =>
                            x = RetainedName(k)' \/
                            (k \in unsaved' /\ ToSet(inbox') \cap DOMAIN Naming(k) = {})
    BY DEF NamesSettle, Settles, Hits, Naming, Messages
  <2>0. RetainedName(k)' = RetainedName(k)
    BY <1>1 DEF RetainedName
  <2> SUFFICES ASSUME ~Tells(k)'
               PROVE  \/ ProfileTopic(k) \in wiped
                      \/ \A x : Settles(inbox, Naming(k), NameOf(k)', x) =>
                            x = RetainedName(k) \/
                            (k \in unsaved' /\ ToSet(inbox) \cap DOMAIN Naming(k) = {})
    BY <1>1, <2>0
  <2>1. link = "up" /\ k[2] # sid /\ ~Tells(k)
    BY <1>1, <1>2, <1>4 DEF Tells
  <2> QED
    BY <1>0, <1>1, <1>3, <1>4, <2>1 DEF NamesSettle
<1> QED
  BY <1>5, <1>6, <1>7

\* A new subscription brings the retained profile of every session that has one.
LEMMA SubscribeNames ==
    ASSUME NamesInv, Subscribe
    PROVE  OwnTopic' /\ Nameless' /\ NamesSettle'
<1>0. GInv /\ OwnTopic /\ Nameless /\ NamesSettle
  BY DEF NamesInv
<1>1. /\ inbox' \in Seq(Messages) /\ outbox = << >>
      /\ ToSet(inbox') =
                 {Message(t, retained[t]) : t \in
                     {x \in DOMAIN retained : retained[x].type \in {"state", "health", "client", "profile"}}}
      /\ UNCHANGED <<retained, outbox, sessions, pending, unsaved, wiped>>
  BY <1>0, SubscribeMeans
<1>2. \A k \in Keys : NameOf(k)' = NameOf(k) /\ RetainedName(k)' = RetainedName(k)
  BY <1>1 DEF NameOf, RetainedName
<1>3. ASSUME NEW k \in Keys, NEW m \in ToSet(inbox'), m \in DOMAIN Naming(k)
      PROVE  ProfileTopic(k) \in DOMAIN retained /\ Naming(k)[m] = RetainedName(k)
  <2>1. PICK t \in DOMAIN retained : m = Message(t, retained[t])
    BY <1>1
  <2>2. m \in Messages /\ m.topic = t /\ m.doc = retained[t]
    BY <1>1, <2>1, ElementsTyped DEF Message
  <2>3. t = ProfileTopic(k) /\ Naming(k)[m] = retained[t].source
    BY <1>3, <2>2, NamingMeans
  <2> QED
    BY <2>1, <2>3 DEF RetainedName
<1>4. ASSUME NEW k \in Keys, ProfileTopic(k) \in DOMAIN retained
      PROVE  ToSet(inbox') \cap DOMAIN Naming(k) # {}
  <2> DEFINE d == retained[ProfileTopic(k)]
  <2> DEFINE m == Message(ProfileTopic(k), d)
  <2>1. d \in Profiles /\ Topic(d) = ProfileTopic(k)
    BY <1>0, <1>4 DEF GInv, TypeOK
  <2>2. d.type = "profile" /\ d # Null
    BY <2>1, KnownDocument, TopicTells
  <2>3. m \in ToSet(inbox')
    BY <1>1, <1>4, <2>2
  <2>4. m \in Messages
    BY <2>1 DEF Messages
  <2>5. m.topic = ProfileTopic(k) /\ m.doc = d
    BY DEF Message
  <2> HIDE DEF m, d
  <2>6. m \in DOMAIN Naming(k)
    BY <2>2, <2>4, <2>5, NamingMeans
  <2> QED
    BY <2>3, <2>6
<1>5. OwnTopic'
  BY <1>0, <1>1 DEF OwnTopic
<1>6. Nameless'
  <2> SUFFICES ASSUME NEW k \in Keys, ProfileTopic(k) \notin DOMAIN retained \cup wiped
               PROVE  /\ ToSet(inbox') \cap DOMAIN Naming(k) = {}
                      /\ NameOf(k)' = Null \/ k \in unsaved \/ TellsOf(k)'
    BY <1>1 DEF Nameless, Naming, Messages
  <2>1. TellsOf(k)' <=> TellsOf(k)
    BY <1>1 DEF TellsOf
  <2> QED
    BY <1>0, <1>2, <1>3, <2>1 DEF Nameless
<1>7. NamesSettle'
  <2> SUFFICES ASSUME NEW k \in Keys, ProfileTopic(k) \notin wiped,
                      NEW x, Settles(inbox', Naming(k), NameOf(k), x)
               PROVE  \/ x = RetainedName(k)
                      \/ k \in unsaved /\ ToSet(inbox') \cap DOMAIN Naming(k) = {}
    BY <1>1, <1>2 DEF NamesSettle, Settles, Hits, Naming, Messages
  <2>1. \/ ToSet(inbox') \cap DOMAIN Naming(k) = {} /\ x = NameOf(k)
        \/ \E m \in ToSet(inbox') \cap DOMAIN Naming(k) : x = Naming(k)[m]
    BY <1>1, SettlesWithin
  <2>2. CASE \E m \in ToSet(inbox') \cap DOMAIN Naming(k) : x = Naming(k)[m]
    BY <1>3, <2>2
  <2>3. CASE ToSet(inbox') \cap DOMAIN Naming(k) = {} /\ x = NameOf(k)
    <3>1. ProfileTopic(k) \notin DOMAIN retained
      BY <1>4, <2>3
    <3>2. ~TellsOf(k)
      BY <1>1, ElementsOfEmpty DEF TellsOf
    <3>3. NameOf(k) = Null \/ k \in unsaved
      BY <1>0, <3>1, <3>2 DEF Nameless
    <3> QED
      BY <2>3, <3>1, <3>3 DEF RetainedName
  <2> QED
    BY <2>1, <2>2, <2>3
<1> QED
  BY <1>5, <1>6, <1>7

\* Names the app had sent and the broker had not taken are unsaved when the connection
\* ends; a restart forgets every name.
LEMMA EndNames ==
    ASSUME NamesInv, Lose \/ Restart
    PROVE  OwnTopic' /\ Nameless' /\ NamesSettle'
<1>0. GInv /\ OwnTopic /\ Nameless /\ NamesSettle
  BY DEF NamesInv
<1>1. NamesSettle'
  BY <1>0, LoseMeans, RestartMeans DEF NamesSettle
<1>2. CASE Lose
  <2>1. /\ ToSet(inbox') \subseteq ToSet(inbox)
        /\ unsaved' = unsaved \cup {m.doc.key : m \in {x \in ToSet(outbox) : x.doc # Null}}
        /\ UNCHANGED <<retained, sessions, pending, wiped>>
    BY <1>0, <1>2, LoseMeans
  <2>2. ASSUME NEW k \in Keys, TellsOf(k) PROVE k \in unsaved'
    <3>1. PICK m \in ToSet(outbox) : m.doc # Null /\ m.topic = ProfileTopic(k)
      BY <2>2 DEF TellsOf
    <3>2. m \in Messages
      BY <1>0, ElementsTyped, SentKinds DEF GInv
    <3>3. m.doc.key = k
      BY <3>1, <3>2, NamingMeans
    <3> QED
      BY <2>1, <3>1, <3>3
  <2>3. OwnTopic'
    BY <1>0, <2>1 DEF OwnTopic
  <2>4. Nameless'
    BY <1>0, <2>1, <2>2 DEF Nameless, NameOf, Naming, Messages
  <2> QED
    BY <1>1, <2>3, <2>4
<1>3. CASE Restart
  <2>1. /\ ToSet(inbox') = {} /\ DOMAIN sessions' = {} /\ DOMAIN pending' = {}
    BY <1>0, <1>3, RestartMeans
  <2>2. OwnTopic'
    BY <2>1 DEF OwnTopic
  <2>3. Nameless'
    BY <2>1 DEF Nameless, NameOf
  <2> QED
    BY <1>1, <2>2, <2>3
<1> QED
  BY <1>2, <1>3

\* The names stay settled, whatever happens.
LEMMA NamesHold == ASSUME UniqueIds PROVE Spec => []NamesInv
<1>1. NamesInv /\ GInv' /\ [Next]_vars => NamesInv'
  <2> SUFFICES ASSUME NamesInv, GInv', [Next]_vars PROVE OwnTopic' /\ Nameless' /\ NamesSettle'
    BY DEF NamesInv
  <2>1. CASE UNCHANGED vars
    <3>1. UNCHANGED <<retained, link, inbox, outbox, sessions, pending, unsaved, wiped>>
      BY <2>1 DEF vars, broker, board, ghosts
    <3>2. OwnTopic'
      BY <3>1 DEF NamesInv, OwnTopic
    <3>3. Nameless'
      BY <3>1 DEF NamesInv, Nameless, NameOf, TellsOf, Naming, Messages
    <3>4. NamesSettle'
      <4> SUFFICES ASSUME link' = "up", NEW k \in Keys
                   PROVE  \/ ProfileTopic(k) \in wiped'
                          \/ Tells(k)'
                          \/ \A x : Settles(inbox', Naming(k), NameOf(k)', x) =>
                                x = RetainedName(k)' \/
                                (k \in unsaved' /\ ToSet(inbox') \cap DOMAIN Naming(k) = {})
        BY DEF NamesSettle, Settles, Hits, Naming, Messages
      <4>1. /\ NameOf(k)' = NameOf(k) /\ RetainedName(k)' = RetainedName(k)
            /\ Tells(k) => Tells(k)'
        BY <3>1 DEF NameOf, RetainedName, Tells
      <4> QED
        BY <3>1, <4>1 DEF NamesInv, NamesSettle
    <3> QED
      BY <3>2, <3>3, <3>4
  <2> QED
    BY <2>1, PublishNames, TakeNames, ReceiveNames, KillNames, SetNameNames, SubscribeNames,
       EndNames DEF Next
<1>2. Init => NamesInv
  <2> SUFFICES ASSUME Init PROVE NamesInv
    OBVIOUS
  <2>1. /\ GInv /\ ToSet(inbox) = {} /\ DOMAIN sessions = {} /\ DOMAIN pending = {} /\ link = "down"
    BY InitMeans
  <2> QED
    BY <2>1 DEF NamesInv, OwnTopic, Nameless, NamesSettle, NameOf
<1> QED
  BY GremlinsInvariant, <1>1, <1>2, PTL DEF Spec

\* If no two sessions have one id, an app that has caught up shows the name of the
\* retained profile, but for a name set in the app that never left it and a profile that
\* was deleted (apply(profile:) and sessionModel(for:) in MenagerieApp.swift).
THEOREM NamesAgree ==
    ASSUME UniqueIds
    PROVE  Spec => []NameIsRetained
<1>1. NamesInv => NameIsRetained
  <2> SUFFICES ASSUME NamesInv, CaughtUp, NEW k \in Keys, k[2] \in DOMAIN sessions,
                      k \notin unsaved, ProfileTopic(k) \notin wiped
               PROVE  sessions[k[2]].profile = RetainedName(k)
    BY DEF NameIsRetained, RetainedName
  <2>1. NameOf(k) = sessions[k[2]].profile
    BY DEF NameOf
  <2>2. ~Tells(k)
    BY ElementsOfEmpty DEF Tells, CaughtUp
  <2>3. Settles(inbox, Naming(k), NameOf(k), NameOf(k))
    BY SettlesEmpty DEF CaughtUp
  <2> QED
    BY <2>1, <2>2, <2>3 DEF NamesInv, NamesSettle, CaughtUp
<1> QED
  BY NamesHold, <1>1, PTL

-----------------------------------------------------------------------------
(* The reports.                                                            *)

\* The messages that say what session k is doing, with the source that says it.
Reporting(k) ==
    [m \in {x \in Messages : /\ x.doc # Null /\ x.doc.key = k
                             /\ \/ x.doc.type \in {"state", "health"}
                                \/ x.doc.type = "event" /\ x.doc.state # Null} |-> m.doc.source]

\* A report of session k that a caught-up board may show.
Fits(k, x) ==
    x # Null =>
        /\ x \in Sources /\ Key[x] = k
        /\ \/ \E t \in {StateTopic(k), SessionHealthTopic(k)} \cap DOMAIN retained :
                  retained[t].source = x
           \/ stage[x] = 1
           \/ {StateTopic(k), SessionHealthTopic(k)} \cap wiped # {}

\* On a subscription what a gremlin shows will fit once the inbox is worked off.
ReportsSettle ==
    link = "up" => \A k \in Keys :
        \A x : Settles(inbox, Reporting(k), ReportOf(k), x) => Fits(k, x)

\* Documents come from sources that have begun to publish; a source that has published
\* its state has left a retained state, unless the app deleted it.
Begun ==
    /\ \A n \in Sources : stage[n] >= 2 => StateTopic(Key[n]) \in DOMAIN retained \cup wiped
    /\ \A t \in DOMAIN retained : retained[t].source \in Sources => stage[retained[t].source] >= 1
    /\ \A m \in ToSet(inbox) : m.doc # Null /\ m.doc.source \in Sources => stage[m.doc.source] >= 1
    /\ \A k \in Keys : ReportOf(k) # Null =>
          ReportOf(k) \in Sources /\ Key[ReportOf(k)] = k /\ stage[ReportOf(k)] >= 1

ReportsInv == GInv /\ Begun /\ ReportsSettle

\* Which messages report, and that each is from a source of the session.
LEMMA ReportingMeans ==
    ASSUME NEW k \in Keys, NEW m \in Messages
    PROVE  /\ m \in DOMAIN Reporting(k) <=>
                 /\ m.doc # Null /\ m.doc.key = k
                 /\ \/ m.doc.type \in {"state", "health"}
                    \/ m.doc.type = "event" /\ m.doc.state # Null
           /\ m \in DOMAIN Reporting(k) =>
                 /\ Reporting(k)[m] = m.doc.source
                 /\ m.doc.source \in Sources /\ Key[m.doc.source] = k
<1>1. /\ m \in DOMAIN Reporting(k) <=>
            /\ m.doc # Null /\ m.doc.key = k
            /\ \/ m.doc.type \in {"state", "health"}
               \/ m.doc.type = "event" /\ m.doc.state # Null
      /\ m \in DOMAIN Reporting(k) => Reporting(k)[m] = m.doc.source
  BY DEF Reporting
<1>2. m.doc # Null => KnownBy(m.doc)
  BY MessageKinds
<1> QED
  BY <1>1, <1>2 DEF KnownBy

\* A message that does not report changes nothing when it joins the inbox.
LEMMA NotReporting ==
    ASSUME NEW q \in Seq(Messages), NEW m \in Messages, NEW k \in Keys, m \notin DOMAIN Reporting(k)
    PROVE  \A x, y : Settles(Append(q, m), Reporting(k), x, y) => Settles(q, Reporting(k), x, y)
BY SettlesBefore

\* A document of a publisher: the report it carries is retained with it, or comes before
\* the state of the same event.
LEMMA PublishReports ==
    ASSUME ReportsInv, NEW n \in Sources, Publish(n)
    PROVE  Begun' /\ ReportsSettle'
<1>0. GInv /\ Begun /\ ReportsSettle
  BY DEF ReportsInv
<1>1. PICK d \in Profiles :
              /\ KnownBy(d) /\ d.source = n /\ d.key = Key[n]
              /\ stage[n] \in Nat /\ stage[n] + 1 \in 1 .. 3
              /\ stage' = [stage EXCEPT ![n] = stage[n] + 1]
              /\ d.type = "state" <=> stage[n] + 1 = 2
              /\ d.type = "health" <=> stage[n] + 1 = 3
              /\ retained' = IF d.type = "event" THEN retained ELSE With(retained, Topic(d), d)
              /\ wiped' = wiped \ {Topic(d)}
              /\ Message(Topic(d), d) \in Messages /\ ToApp(Message(Topic(d), d))
  BY <1>0, PublishMeans
<1> DEFINE m == Message(Topic(d), d)
<1>2. UNCHANGED <<link, sessions>>
  BY DEF Publish, board
<1>3. m \in Messages /\ ToApp(m) /\ m.doc = d /\ d # Null
  BY <1>1, KnownDocument DEF Message
<1> HIDE DEF m
<1>4. /\ stage \in [Sources -> 0 .. 3] /\ stage'[n] = stage[n] + 1
      /\ \A x \in Sources : x # n => stage'[x] = stage[x]
      /\ \A x \in Sources : stage[x] >= 1 => stage'[x] >= 1
      /\ stage'[n] >= 1
  <2>1. stage \in [Sources -> 0 .. 3]
    BY <1>0 DEF GInv, TypeOK
  <2>2. /\ stage'[n] = stage[n] + 1
        /\ \A x \in Sources : x # n => stage'[x] = stage[x]
    BY <1>1, <2>1
  <2>3. stage'[n] >= 1
    BY <1>1, <2>2
  <2> QED
    BY <2>1, <2>2, <2>3
<1>5. /\ DOMAIN retained \subseteq DOMAIN retained'
      /\ \A t \in DOMAIN retained' : \/ t \in DOMAIN retained /\ retained'[t] = retained[t]
                                     \/ t = Topic(d) /\ retained'[t] = d
      /\ \A t \in DOMAIN retained : t # Topic(d) => retained'[t] = retained[t]
      /\ d.type # "event" => Topic(d) \in DOMAIN retained' /\ retained'[Topic(d)] = d
  <2>1. CASE d.type = "event"
    BY <1>1, <2>1
  <2>2. CASE d.type # "event"
    <3>1. retained' = With(retained, Topic(d), d)
      BY <1>1, <2>2
    <3>2. /\ DOMAIN retained' = DOMAIN retained \cup {Topic(d)}
          /\ \A t \in DOMAIN retained' : retained'[t] = IF t = Topic(d) THEN d ELSE retained[t]
      BY <1>0, <3>1, Retaining
    <3> QED
      BY <2>2, <3>2
  <2> QED
    BY <2>1, <2>2
<1>6. DOMAIN retained \cup wiped \subseteq DOMAIN retained' \cup wiped' \/ d.type = "event"
  BY <1>1, <1>5
<1>7. \A k \in Keys : ReportOf(k)' = ReportOf(k)
  BY <1>2 DEF ReportOf
<1>8. Begun'
  <2>1. ASSUME NEW x \in Sources, stage'[x] >= 2
        PROVE  StateTopic(Key[x]) \in DOMAIN retained' \cup wiped'
    <3>1. CASE stage[x] >= 2
      <4>1. StateTopic(Key[x]) \in DOMAIN retained \cup wiped
        BY <1>0, <3>1 DEF Begun
      <4>2. d.type = "event" => StateTopic(Key[x]) # Topic(d)
        BY DEF Topic, EventTopic, StateTopic
      <4> QED
        BY <1>1, <1>5, <1>6, <4>1, <4>2
    <3>2. CASE ~(stage[x] >= 2)
      <4>1. x = n /\ stage[n] + 1 = 2
        BY <1>1, <1>4, <2>1, <3>2
      <4>2. d.type = "state" /\ Topic(d) = StateTopic(Key[x])
        BY <1>1, <4>1 DEF Topic
      <4> QED
        BY <1>5, <4>2
    <3> QED
      BY <3>1, <3>2
  <2>2. \A t \in DOMAIN retained' : retained'[t].source \in Sources => stage'[retained'[t].source] >= 1
    BY <1>0, <1>1, <1>4, <1>5 DEF Begun
  <2>3. \A x \in ToSet(inbox') : x.doc # Null /\ x.doc.source \in Sources => stage'[x.doc.source] >= 1
    <3>1. ToSet(inbox') \subseteq ToSet(inbox) \cup {m}
      BY <1>0, <1>3, PassedOn
    <3> QED
      BY <1>0, <1>1, <1>3, <1>4, <3>1 DEF Begun
  <2>4. \A k \in Keys : ReportOf(k)' # Null =>
            ReportOf(k)' \in Sources /\ Key[ReportOf(k)'] = k /\ stage'[ReportOf(k)'] >= 1
    BY <1>0, <1>4, <1>7 DEF Begun
  <2> QED
    BY <2>1, <2>2, <2>3, <2>4 DEF Begun
<1>9. ReportsSettle'
  <2> SUFFICES ASSUME link = "up", NEW k \in Keys,
                      NEW x, Settles(inbox', Reporting(k), ReportOf(k), x), x # Null
               PROVE  Fits(k, x)'
    BY <1>2, <1>7 DEF ReportsSettle, Settles, Hits, Reporting, Messages, Fits
  <2>1. inbox \in Seq(Messages) /\ inbox' = Append(inbox, m)
    BY <1>0, <1>3, PassedOn DEF GInv
  <2>2. CASE m \in DOMAIN Reporting(k)
    <3>1. /\ d.key = k /\ Reporting(k)[m] = n
          /\ d.type \in {"state", "health"} \/ (d.type = "event" /\ d.state # Null)
      BY <1>1, <1>3, <2>2, ReportingMeans
    <3>2. x = n
      BY <2>1, <2>2, <3>1, <1>3, SettlesOnLast
    <3>3. CASE d.type \in {"state", "health"}
      <4>1. Topic(d) \in {StateTopic(k), SessionHealthTopic(k)}
        BY <3>1, <3>3, TopicTells
      <4>2. Topic(d) \in DOMAIN retained' /\ retained'[Topic(d)].source = n
        BY <1>1, <1>5, <3>3
      <4> QED
        BY <1>1, <3>1, <3>2, <4>1, <4>2 DEF Fits
    <3>4. CASE d.type = "event"
      <4>1. stage'[n] = 1
        BY <1>1, <1>4, <3>4
      <4> QED
        BY <1>1, <3>1, <3>2, <4>1 DEF Fits
    <3> QED
      BY <3>1, <3>3, <3>4
  <2>3. CASE m \notin DOMAIN Reporting(k)
    <3>1. Settles(inbox, Reporting(k), ReportOf(k), x)
      BY <1>3, <2>1, <2>3, NotReporting
    <3>2. Fits(k, x)
      BY <1>0, <3>1 DEF ReportsSettle
    <3>3. ~(d.key = k /\ d.type \in {"state", "health"})
      BY <1>3, <2>3, ReportingMeans
    <3>4. Topic(d) \notin {StateTopic(k), SessionHealthTopic(k)}
      BY <3>3, TopicTells
    <3>5. x \in Sources /\ Key[x] = k
      BY <3>2 DEF Fits
    <3>6. CASE x = n
      <4>1. stage[n] + 1 = 1
        BY <1>1, <3>3, <3>5, <3>6
      <4> QED
        BY <1>4, <3>5, <3>6, <4>1 DEF Fits
    <3>7. CASE x # n
      <4>1. stage'[x] = stage[x]
        BY <1>4, <3>5, <3>7
      <4>2. \A t \in {StateTopic(k), SessionHealthTopic(k)} :
                /\ t \in DOMAIN retained => t \in DOMAIN retained' /\ retained'[t] = retained[t]
                /\ t \in wiped => t \in wiped'
        BY <1>1, <1>5, <3>4
      <4> QED
        BY <3>2, <4>1, <4>2 DEF Fits
    <3> QED
      BY <3>6, <3>7
  <2> QED
    BY <2>2, <2>3
<1> QED
  BY <1>8, <1>9

\* The broker takes a name, which touches no report, or a deletion.
LEMMA TakeReports ==
    ASSUME ReportsInv, BrokerTake
    PROVE  Begun' /\ ReportsSettle'
<1>0. GInv /\ Begun /\ ReportsSettle
  BY DEF ReportsInv
<1>1. PICK m \in Sent :
              /\ m \in Messages
              /\ \/ ~Permitted(m.topic) /\ UNCHANGED <<retained, wiped, inbox>>
                 \/ /\ Permitted(m.topic) /\ m.doc = Null
                    /\ retained' = Without(retained, m.topic) /\ wiped' = wiped \cup {m.topic}
                    /\ ToApp(m)
                 \/ /\ Permitted(m.topic) /\ m.doc # Null
                    /\ m.doc \in Profiles /\ m.doc \in NamedProfiles /\ m.doc.type = "profile"
                    /\ m.topic = Topic(m.doc)
                    /\ retained' = With(retained, Topic(m.doc), m.doc)
                    /\ wiped' = wiped \ {m.topic}
                    /\ ToApp(m)
  BY <1>0, TakeMeans
<1>2. UNCHANGED <<stage, link, sessions>>
  BY DEF BrokerTake, board
<1>3. m.doc # Null => m.doc.type = "profile" /\ m.doc.source \notin Sources
  <2>1. m.doc # Null => m.doc \in NamedProfiles
    BY SentKinds
  <2> QED
    BY <2>1, GremlinsAssumption DEF NamedProfiles, NamedProfile
<1>4. /\ \A t \in DOMAIN retained' : \/ t \in DOMAIN retained /\ retained'[t] = retained[t]
                                     \/ retained'[t].source \notin Sources
      /\ DOMAIN retained \cup wiped \subseteq DOMAIN retained' \cup wiped'
      /\ \A k \in Keys : \A t \in {StateTopic(k), SessionHealthTopic(k)} :
            /\ t \in wiped => t \in wiped'
            /\ t \in DOMAIN retained => \/ t \in DOMAIN retained' /\ retained'[t] = retained[t]
                                        \/ t \in wiped'
  <2>1. CASE UNCHANGED <<retained, wiped>>
    BY <2>1
  <2>2. CASE retained' = Without(retained, m.topic) /\ wiped' = wiped \cup {m.topic}
    BY <1>0, <2>2, Forgetting
  <2>3. CASE /\ m.doc # Null /\ m.doc \in Profiles /\ m.topic = Topic(m.doc)
             /\ retained' = With(retained, Topic(m.doc), m.doc) /\ wiped' = wiped \ {m.topic}
    <3>1. /\ DOMAIN retained' = DOMAIN retained \cup {m.topic}
          /\ \A t \in DOMAIN retained' : retained'[t] = IF t = m.topic THEN m.doc ELSE retained[t]
      BY <1>0, <2>3, Retaining
    <3>2. \A k \in Keys : m.topic \notin {StateTopic(k), SessionHealthTopic(k)}
      BY <1>3, <2>3, TopicTells
    <3> QED
      BY <1>3, <2>3, <3>1, <3>2
  <2> QED
    BY <1>1, <2>1, <2>2, <2>3
<1>5. \A k \in Keys : ReportOf(k)' = ReportOf(k)
  BY <1>2 DEF ReportOf
<1>6. ToSet(inbox') \subseteq ToSet(inbox) \cup {m}
  BY <1>0, <1>1, PassedOn
<1>7. Begun'
  <2>1. \A n \in Sources : stage'[n] >= 2 => StateTopic(Key[n]) \in DOMAIN retained' \cup wiped'
    BY <1>0, <1>2, <1>4 DEF Begun
  <2>2. \A t \in DOMAIN retained' : retained'[t].source \in Sources => stage'[retained'[t].source] >= 1
    BY <1>0, <1>2, <1>4 DEF Begun
  <2>3. \A x \in ToSet(inbox') : x.doc # Null /\ x.doc.source \in Sources => stage'[x.doc.source] >= 1
    BY <1>0, <1>2, <1>3, <1>6 DEF Begun
  <2>4. \A k \in Keys : ReportOf(k)' # Null =>
            ReportOf(k)' \in Sources /\ Key[ReportOf(k)'] = k /\ stage'[ReportOf(k)'] >= 1
    BY <1>0, <1>2, <1>5 DEF Begun
  <2> QED
    BY <2>1, <2>2, <2>3, <2>4 DEF Begun
<1>8. ReportsSettle'
  <2> SUFFICES ASSUME link = "up", NEW k \in Keys,
                      NEW x, Settles(inbox', Reporting(k), ReportOf(k), x)
               PROVE  Fits(k, x)'
    BY <1>2, <1>5 DEF ReportsSettle, Settles, Hits, Reporting, Messages
  <2>1. inbox \in Seq(Messages)
    BY <1>0 DEF GInv
  <2>2. m \notin DOMAIN Reporting(k)
    BY <1>1, <1>3, ReportingMeans
  <2>3. inbox' = inbox \/ inbox' = Append(inbox, m)
    BY <1>1 DEF ToApp
  <2>4. Settles(inbox, Reporting(k), ReportOf(k), x)
    BY <1>1, <2>1, <2>2, <2>3, NotReporting
  <2>5. Fits(k, x)
    BY <1>0, <2>4 DEF ReportsSettle
  <2> QED
    BY <1>2, <1>4, <2>5 DEF Fits
<1> QED
  BY <1>7, <1>8

\* Applying a message shows what it reports, of its session and no other.
LEMMA ReportStep ==
    ASSUME GInv, UniqueIds, Receive, NEW k \in Keys
    PROVE  ReportOf(k)' =
               IF Head(inbox) \in DOMAIN Reporting(k) THEN Reporting(k)[Head(inbox)] ELSE ReportOf(k)
<1>1. PICK m \in Messages :
              /\ m = Head(inbox)
              /\ \/ /\ DecodedAs(m) = "nothing"
                    /\ m.doc = Null \/ m.doc.type = "client"
                    /\ UNCHANGED sessions
                 \/ /\ DecodedAs(m) = "profile"
                    /\ m.doc \in Profiles /\ m.topic = Topic(m.doc)
                    /\ m.doc.key \in Keys /\ m.doc.type = "profile"
                    /\ ReceiveProfile(m.doc, m.topic)
                 \/ /\ DecodedAs(m) \in {"state", "health"}
                    /\ m.doc # Null /\ m.doc \in Profiles /\ m.topic = Topic(m.doc)
                    /\ m.doc.key \in Keys /\ m.doc.type \notin {"profile", "client"}
                    /\ \/ m.doc.state # Null /\ m.doc.type # "health" /\ ReceiveState(m.doc, m.topic)
                       \/ m.doc.state = Null /\ m.doc.type # "state" /\ ReceiveHealth(m.doc, m.topic)
  BY ReceiveMeans DEF DecodedAs
<1>2. CASE DecodedAs(m) = "nothing"
  <2>1. m \notin DOMAIN Reporting(k)
    BY <1>1, <1>2, ReportingMeans
  <2>2. UNCHANGED sessions
    BY <1>1, <1>2
  <2> QED
    BY <1>1, <2>1, <2>2 DEF ReportOf
<1>3. CASE DecodedAs(m) = "profile"
  <2> DEFINE d == m.doc
  <2>1. d \in Profiles /\ d.key \in Keys /\ d.type = "profile" /\ ReceiveProfile(d, Topic(d))
    BY <1>1, <1>3
  <2>2. m \notin DOMAIN Reporting(k)
    BY <2>1, ReportingMeans
  <2>3. \/ /\ d.key[2] \in DOMAIN sessions /\ DOMAIN sessions' = DOMAIN sessions
           /\ \A x \in DOMAIN sessions : x # d.key[2] => sessions'[x] = sessions[x]
           /\ sessions'[d.key[2]].reported = sessions[d.key[2]].reported
        \/ sessions' = sessions
    BY <2>1, ProfileMeans
  <2> HIDE DEF d
  <2>4. ReportOf(k)' = ReportOf(k)
    BY <2>3 DEF ReportOf
  <2> QED
    BY <1>1, <2>2, <2>4
<1>4. CASE DecodedAs(m) \in {"state", "health"}
  <2> DEFINE d == m.doc
  <2> DEFINE sid == d.key[2]
  <2>1. /\ d # Null /\ d \in Profiles /\ d.key \in Keys /\ d.type \notin {"profile", "client"}
        /\ \/ d.state # Null /\ d.type # "health" /\ ReceiveState(d, Topic(d))
           \/ d.state = Null /\ d.type # "state" /\ ReceiveHealth(d, Topic(d))
    BY <1>1, <1>4
  <2>2. /\ DOMAIN sessions' = DOMAIN sessions \cup {sid}
        /\ \A x \in DOMAIN sessions : x # sid => sessions'[x] = sessions[x]
        /\ sessions'[sid].reported =
              IF d.type = "event" /\ d.state = Null THEN ReportOf(d.key) ELSE d.source
    BY <2>1, HeardMeans
  <2>3. k # d.key => k[2] # sid
    BY <2>1 DEF UniqueIds
  <2>4. /\ m \in DOMAIN Reporting(k) <=> d.key = k /\ ~(d.type = "event" /\ d.state = Null)
        /\ m \in DOMAIN Reporting(k) => Reporting(k)[m] = d.source
    <3>1. d.type \in {"event", "state", "health"}
      BY <2>1, KnownDocument DEF KnownBy
    <3> QED
      BY <2>1, <3>1, ReportingMeans
  <2> HIDE DEF d
  <2>5. CASE k = d.key
    <3>1. ReportOf(k)' = IF d.type = "event" /\ d.state = Null THEN ReportOf(k) ELSE d.source
      BY <2>2, <2>5 DEF ReportOf
    <3> QED
      BY <1>1, <2>4, <2>5, <3>1
  <2>6. CASE k # d.key
    <3>1. ReportOf(k)' = ReportOf(k)
      BY <2>2, <2>3, <2>6 DEF ReportOf
    <3> QED
      BY <1>1, <2>4, <2>6, <3>1
  <2> QED
    BY <2>5, <2>6
<1> QED
  BY <1>1, <1>2, <1>3, <1>4

\* Applying the next message leads to the same report in the end.
LEMMA ReceiveReports ==
    ASSUME ReportsInv, UniqueIds, Receive
    PROVE  Begun' /\ ReportsSettle'
<1>0. GInv /\ Begun /\ ReportsSettle
  BY DEF ReportsInv
<1>1. /\ UNCHANGED <<stage, retained, link, wiped>>
      /\ inbox # << >> /\ inbox' = Tail(inbox)
  BY DEF Receive, broker
<1> DEFINE m == Head(inbox)
<1>2. /\ inbox \in Seq(Messages) /\ m \in Messages /\ Tail(inbox) \in Seq(Messages)
      /\ ToSet(inbox) = {m} \cup ToSet(Tail(inbox))
  BY <1>0, <1>1, ElementsOfTail DEF GInv
<1>3. \A k \in Keys : ReportOf(k)' = IF m \in DOMAIN Reporting(k) THEN Reporting(k)[m] ELSE ReportOf(k)
  BY <1>0, ReportStep
<1> HIDE DEF m
<1>4. Begun'
  <2>1. \A k \in Keys : ReportOf(k)' # Null =>
            ReportOf(k)' \in Sources /\ Key[ReportOf(k)'] = k /\ stage[ReportOf(k)'] >= 1
    <3> SUFFICES ASSUME NEW k \in Keys, ReportOf(k)' # Null
                 PROVE  ReportOf(k)' \in Sources /\ Key[ReportOf(k)'] = k /\ stage[ReportOf(k)'] >= 1
      OBVIOUS
    <3>1. CASE m \in DOMAIN Reporting(k)
      <4>1. m.doc # Null /\ ReportOf(k)' = m.doc.source /\ m.doc.source \in Sources /\ Key[m.doc.source] = k
        BY <1>2, <1>3, <3>1, ReportingMeans
      <4>2. stage[m.doc.source] >= 1
        BY <1>0, <1>2, <4>1 DEF Begun
      <4> QED
        BY <4>1, <4>2
    <3>2. CASE m \notin DOMAIN Reporting(k)
      BY <1>0, <1>3, <3>2 DEF Begun
    <3> QED
      BY <3>1, <3>2
  <2> QED
    BY <1>0, <1>1, <1>2, <2>1 DEF Begun
<1>5. ReportsSettle'
  <2> SUFFICES ASSUME link = "up", NEW k \in Keys,
                      NEW x, Settles(Tail(inbox), Reporting(k), ReportOf(k)', x)
               PROVE  Fits(k, x)'
    BY <1>1 DEF ReportsSettle, Settles, Hits, Reporting, Messages
  <2>1. ReportOf(k)' = IF m \in DOMAIN Reporting(k) THEN Reporting(k)[m] ELSE ReportOf(k)
    BY <1>3
  <2>2. Settles(inbox, Reporting(k), ReportOf(k), x)
    BY <1>1, <1>2, <2>1, SettlesTail DEF m
  <2> QED
    BY <1>0, <1>1, <2>2 DEF ReportsSettle, Fits
<1> QED
  BY <1>4, <1>5

\* A killed gremlin shows nothing, and what is still coming is as good as it was.
LEMMA KillReports ==
    ASSUME ReportsInv, NEW sid \in DOMAIN sessions, Kill(sid)
    PROVE  Begun' /\ ReportsSettle'
<1>0. GInv /\ Begun /\ ReportsSettle
  BY DEF ReportsInv
<1>1. /\ DOMAIN sessions' = DOMAIN sessions \ {sid}
      /\ \A x \in DOMAIN sessions' : sessions'[x] = sessions[x]
      /\ UNCHANGED <<stage, retained, link, inbox, wiped>>
  BY <1>0, KillMeans
<1>2. \A k \in Keys : ReportOf(k)' \in {ReportOf(k), Null}
  BY <1>1 DEF ReportOf
<1>3. Begun'
  BY <1>0, <1>1, <1>2 DEF Begun
<1>4. ReportsSettle'
  <2> SUFFICES ASSUME link = "up", NEW k \in Keys,
                      NEW x, Settles(inbox, Reporting(k), ReportOf(k)', x), x # Null
               PROVE  Fits(k, x)'
    BY <1>1 DEF ReportsSettle, Settles, Hits, Reporting, Messages, Fits
  <2>1. inbox \in Seq(Messages)
    BY <1>0 DEF GInv
  <2>2. x = ReportOf(k)' \/ Settles(inbox, Reporting(k), ReportOf(k), x)
    BY <2>1, SettlesAnyway
  <2>3. Settles(inbox, Reporting(k), ReportOf(k), x)
    BY <1>2, <2>2
  <2> QED
    BY <1>0, <1>1, <2>3 DEF ReportsSettle, Fits
<1> QED
  BY <1>3, <1>4

\* A new subscription brings the retained state and health of every session; one that
\* has neither has not published its state yet, or the app deleted it.
LEMMA SubscribeReports ==
    ASSUME ReportsInv, Subscribe
    PROVE  Begun' /\ ReportsSettle'
<1>0. GInv /\ Begun /\ ReportsSettle
  BY DEF ReportsInv
<1>1. /\ inbox' \in Seq(Messages)
      /\ ToSet(inbox') =
                 {Message(t, retained[t]) : t \in
                     {x \in DOMAIN retained : retained[x].type \in {"state", "health", "client", "profile"}}}
      /\ UNCHANGED <<stage, retained, sessions, wiped>>
  BY <1>0, SubscribeMeans
<1>2. \A k \in Keys : ReportOf(k)' = ReportOf(k)
  BY <1>1 DEF ReportOf
<1>3. \A m \in ToSet(inbox') : \E t \in DOMAIN retained :
          /\ m.topic = t /\ m.doc = retained[t] /\ m \in Messages
          /\ retained[t].type \in {"state", "health", "client", "profile"}
          /\ retained[t] \in Profiles /\ Topic(retained[t]) = t
  <2> TAKE m \in ToSet(inbox')
  <2>1. PICK t \in DOMAIN retained : /\ m = Message(t, retained[t])
                                     /\ retained[t].type \in {"state", "health", "client", "profile"}
    BY <1>1
  <2>2. m \in Messages /\ m.topic = t /\ m.doc = retained[t]
    BY <1>1, <2>1, ElementsTyped DEF Message
  <2>3. retained[t] \in Profiles /\ Topic(retained[t]) = t
    BY <1>0 DEF GInv, TypeOK
  <2> QED
    BY <2>1, <2>2, <2>3
<1>4. ASSUME NEW k \in Keys, NEW m \in ToSet(inbox'), m \in DOMAIN Reporting(k)
      PROVE  Fits(k, Reporting(k)[m])
  <2>1. PICK t \in DOMAIN retained :
            /\ m.topic = t /\ m.doc = retained[t] /\ m \in Messages
            /\ retained[t].type \in {"state", "health", "client", "profile"}
            /\ retained[t] \in Profiles /\ Topic(retained[t]) = t
    BY <1>3
  <2>2. /\ retained[t].type \in {"state", "health"} /\ retained[t].key = k
        /\ Reporting(k)[m] = retained[t].source
        /\ retained[t].source \in Sources /\ Key[retained[t].source] = k
    BY <1>4, <2>1, ReportingMeans
  <2>3. t \in {StateTopic(k), SessionHealthTopic(k)}
    BY <2>1, <2>2, TopicTells
  <2> QED
    BY <2>1, <2>2, <2>3 DEF Fits
<1>5. ASSUME NEW k \in Keys, NEW t \in {StateTopic(k), SessionHealthTopic(k)}, t \in DOMAIN retained
      PROVE  ToSet(inbox') \cap DOMAIN Reporting(k) # {}
  <2> DEFINE d == retained[t]
  <2> DEFINE m == Message(t, d)
  <2>1. d \in Profiles /\ Topic(d) = t /\ d.type \in {"state", "health"} /\ d.key = k
    BY <1>0, <1>5, RetainedOf
  <2>2. m \in ToSet(inbox')
    BY <1>1, <1>5, <2>1
  <2>3. m \in Messages /\ m.doc = d /\ d # Null
    BY <2>1, KnownDocument DEF Messages, Message
  <2> HIDE DEF m, d
  <2>4. m \in DOMAIN Reporting(k)
    BY <2>1, <2>3, ReportingMeans
  <2> QED
    BY <2>2, <2>4
<1>6. Begun'
  <2>1. \A m \in ToSet(inbox') : m.doc # Null /\ m.doc.source \in Sources => stage[m.doc.source] >= 1
    BY <1>0, <1>3 DEF Begun
  <2> QED
    BY <1>0, <1>1, <1>2, <2>1 DEF Begun
<1>7. ReportsSettle'
  <2> SUFFICES ASSUME NEW k \in Keys,
                      NEW x, Settles(inbox', Reporting(k), ReportOf(k), x), x # Null
               PROVE  Fits(k, x)
    BY <1>1, <1>2 DEF ReportsSettle, Settles, Hits, Reporting, Messages, Fits
  <2>1. \/ ToSet(inbox') \cap DOMAIN Reporting(k) = {} /\ x = ReportOf(k)
        \/ \E m \in ToSet(inbox') \cap DOMAIN Reporting(k) : x = Reporting(k)[m]
    BY <1>1, SettlesWithin
  <2>2. CASE \E m \in ToSet(inbox') \cap DOMAIN Reporting(k) : x = Reporting(k)[m]
    BY <1>4, <2>2
  <2>3. CASE ToSet(inbox') \cap DOMAIN Reporting(k) = {} /\ x = ReportOf(k)
    <3>1. x \in Sources /\ Key[x] = k /\ stage[x] >= 1 /\ stage[x] \in 0 .. 3
      BY <1>0, <2>3 DEF Begun, GInv, TypeOK
    <3>2. StateTopic(k) \notin DOMAIN retained
      BY <1>5, <2>3
    <3>3. stage[x] >= 2 => StateTopic(k) \in wiped
      BY <1>0, <3>1, <3>2 DEF Begun
    <3>4. stage[x] = 1 \/ stage[x] >= 2
      BY <3>1
    <3> QED
      BY <3>1, <3>3, <3>4 DEF Fits
  <2> QED
    BY <2>1, <2>2, <2>3
<1> QED
  BY <1>6, <1>7

\* The reports stay settled, whatever happens.
LEMMA ReportsHold == ASSUME UniqueIds PROVE Spec => []ReportsInv
<1>1. ReportsInv /\ GInv' /\ [Next]_vars => ReportsInv'
  <2> SUFFICES ASSUME ReportsInv, GInv', [Next]_vars PROVE Begun' /\ ReportsSettle'
    BY DEF ReportsInv
  <2>0. GInv /\ Begun /\ ReportsSettle
    BY DEF ReportsInv
  <2>1. ASSUME UNCHANGED <<stage, retained, link, inbox, wiped>>,
               \A k \in Keys : ReportOf(k)' = ReportOf(k)
        PROVE  Begun' /\ ReportsSettle'
    <3>1. Begun'
      BY <2>0, <2>1 DEF Begun
    <3>2. ReportsSettle'
      BY <2>0, <2>1 DEF ReportsSettle, Settles, Hits, Reporting, Messages, Fits
    <3> QED
      BY <3>1, <3>2
  <2>2. CASE UNCHANGED vars
    <3>1. UNCHANGED <<stage, retained, link, inbox, wiped, sessions>>
      BY <2>2 DEF vars, broker, board, ghosts
    <3> QED
      BY <2>1, <3>1 DEF ReportOf
  <2>3. ASSUME NEW sid \in DOMAIN sessions, NEW name \in Names, SetName(sid, name)
        PROVE  Begun' /\ ReportsSettle'
    <3>1. /\ DOMAIN sessions' = DOMAIN sessions
          /\ \A x \in DOMAIN sessions : x # sid => sessions'[x] = sessions[x]
          /\ sessions'[sid].reported = sessions[sid].reported
          /\ UNCHANGED <<stage, retained, link, inbox, wiped>>
      BY <2>0, <2>3, SetNameMeans
    <3>2. \A k \in Keys : ReportOf(k)' = ReportOf(k)
      BY <3>1 DEF ReportOf
    <3> QED
      BY <2>1, <3>1, <3>2
  <2>4. CASE Lose
    BY <2>0, <2>4, LoseMeans DEF Begun, ReportsSettle, ReportOf
  <2>5. CASE Restart
    BY <2>0, <2>5, RestartMeans DEF Begun, ReportsSettle, ReportOf
  <2> QED
    BY <2>2, <2>3, <2>4, <2>5, PublishReports, TakeReports, ReceiveReports, KillReports,
       SubscribeReports DEF Next
<1>2. Init => ReportsInv
  <2> SUFFICES ASSUME Init PROVE ReportsInv
    OBVIOUS
  <2>1. /\ GInv /\ DOMAIN retained = {} /\ ToSet(inbox) = {} /\ DOMAIN sessions = {} /\ link = "down"
        /\ \A n \in Sources : stage[n] = 0
    BY InitMeans
  <2> QED
    BY <2>1 DEF ReportsInv, Begun, ReportsSettle, ReportOf
<1> QED
  BY GremlinsInvariant, <1>1, <1>2, PTL DEF Spec

\* If no two sessions have one id, what a caught-up board shows of a session comes from
\* its retained state or health, or from an event whose state has not come yet, but for
\* documents the app deleted (apply in Models.swift, publish_event in publisher.py).
THEOREM ReportsAgree ==
    ASSUME UniqueIds
    PROVE  Spec => []ShownIsRetained
<1>1. ReportsInv => ShownIsRetained
  <2> SUFFICES ASSUME ReportsInv, CaughtUp, NEW k \in Keys, k[2] \in DOMAIN sessions,
                      sessions[k[2]].reported # Null
               PROVE  \/ \E t \in {StateTopic(k), SessionHealthTopic(k)} \cap DOMAIN retained :
                             retained[t].source = sessions[k[2]].reported
                      \/ stage[sessions[k[2]].reported] = 1
                      \/ {StateTopic(k), SessionHealthTopic(k)} \cap wiped # {}
    BY DEF ShownIsRetained
  <2>1. ReportOf(k) = sessions[k[2]].reported
    BY DEF ReportOf
  <2>2. Settles(inbox, Reporting(k), ReportOf(k), ReportOf(k))
    BY SettlesEmpty DEF CaughtUp
  <2>3. Fits(k, ReportOf(k))
    BY <2>2 DEF ReportsInv, ReportsSettle, CaughtUp
  <2> QED
    BY <2>1, <2>3 DEF Fits
<1> QED
  BY ReportsHold, <1>1, PTL

=============================================================================
