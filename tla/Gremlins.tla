------------------------------ MODULE Gremlins ------------------------------
(***************************************************************************)
(* The gremlins of the desktop app: one per session, made and updated by   *)
(* what its MQTT client receives (MenagerieApp.swift, Models.swift), named *)
(* and killed by the user.                                                 *)
(*                                                                         *)
(* Messages of one connection reach the main queue in order; those of a    *)
(* connection that has been replaced are discarded there.  The app         *)
(* publishes with QoS 0: what is still on its way when a connection ends   *)
(* is lost, and what is sent without one is lost at once.  A gremlin       *)
(* remembers on which topics it heard of its session, and killing it       *)
(* deletes what is retained there.                                         *)
(***************************************************************************)
EXTENDS Documents

CONSTANTS
    Names,       \* names the user gives in the app, each once at most
    MaxInbox,    \* bound: a source publishes only while fewer messages are on their way
    MaxKills,    \* bound: how many gremlins the user kills
    MaxLosses    \* bound: how many connections are lost, restarts included

ASSUME GremlinsAssumption == Names \cap Sources = {}

VARIABLES
    stage,       \* source -> how many of its documents the broker has taken
    retained,    \* topic -> the retained document, for the topics that have one
    link,        \* the app's subscription: "down" or "up"
    inbox,       \* messages sent to the app and not yet applied
    outbox,      \* messages of the app the broker has not yet taken
    sessions,    \* sessionModels: session id -> gremlin
    pending,     \* pendingProfiles: session id -> a profile without a gremlin
    named,       \* the names used up
    killed,      \* ghost: sessions killed on this subscription and not seen since
    unsaved,     \* ghost: sessions whose name in the app never left it
    wiped,       \* ghost: topics deleted by the app and not written since
    kills, losses

broker == <<stage, retained>>
board  == <<sessions, pending>>
ghosts == <<killed, unsaved, wiped>>
vars   == <<broker, link, inbox, outbox, board, named, ghosts, kills, losses>>

Init ==
    /\ stage    = [n \in Sources |-> 0]
    /\ retained = << >>
    /\ link     = "down"
    /\ inbox    = << >>
    /\ outbox   = << >>
    /\ sessions = << >>
    /\ pending  = << >>
    /\ named    = {}
    /\ killed   = {}
    /\ unsaved  = {}
    /\ wiped    = {}
    /\ kills    = 0
    /\ losses   = 0

-----------------------------------------------------------------------------
(* The broker.                                                             *)

ToApp(m) == inbox' = IF link = "up" THEN Append(inbox, m) ELSE inbox

\* The next document of a source reaches the broker.
Publish(n) ==
    /\ stage[n] < Len(Documents(n))
    /\ Len(inbox) < MaxInbox
    /\ stage' = [stage EXCEPT ![n] = @ + 1]
    /\ LET doc == Documents(n)[stage[n] + 1] IN
       /\ retained' = IF doc.type = "event" THEN retained
                      ELSE With(retained, Topic(doc), doc)
       /\ wiped' = wiped \ {Topic(doc)}
       /\ ToApp(Message(Topic(doc), doc))
    /\ UNCHANGED <<link, outbox, board, named, killed, unsaved, kills, losses>>

\* The access list lets the app write anything but events.
Permitted(topic) == topic[1] # "events"

\* The broker takes the next message of the app: a new name, or a deletion.
BrokerTake ==
    /\ outbox # << >>
    /\ outbox' = Tail(outbox)
    /\ LET m == Head(outbox) IN
       IF ~Permitted(m.topic)
       THEN UNCHANGED <<retained, wiped, inbox>>
       ELSE /\ retained' = IF m.doc = Null THEN Without(retained, m.topic)
                           ELSE With(retained, m.topic, m.doc)
            /\ wiped' = IF m.doc = Null THEN wiped \cup {m.topic} ELSE wiped \ {m.topic}
            /\ ToApp(m)
    /\ UNCHANGED <<stage, link, board, named, killed, unsaved, kills, losses>>

-----------------------------------------------------------------------------
(* What the app makes of a message.                                        *)

\* Mutant: a document without a state is nothing to the app.
DecodedAsStrict(m) ==
    IF m.doc = Null THEN "nothing"
    ELSE IF m.doc.type = "profile" THEN "profile"
    ELSE IF m.doc.state # Null THEN "state"
    ELSE "nothing"

\* The first type that fits: whatever has a state is a state document, and whatever
\* else names a session is a health document.  An event is one or the other, never
\* a SessionEvent.  An empty payload and a client's heartbeat are nothing.
DecodedAs(m) ==
    IF m.doc = Null \/ m.doc.type = "client" THEN "nothing"
    ELSE IF m.doc.type = "profile" THEN "profile"
    ELSE IF m.doc.state # Null THEN "state"
    ELSE "health"

NewGremlin == [workspace |-> Null, reported |-> Null, profile |-> Null,
               stateTopic |-> Null, healthTopic |-> Null, profileTopic |-> Null]

\* apply(profile:), with the topic it came on.
Profiled(gremlin, doc, topic) ==
    [gremlin EXCEPT !.workspace = doc.key[1], !.profile = doc.source, !.profileTopic = topic]

\* Mutant: a new gremlin forgets the profile that was waiting for it.
GremlinForUnnamed(sid) == IF sid \in DOMAIN sessions THEN sessions[sid] ELSE NewGremlin

\* sessionModel(for:): the gremlin of the session, or a new one with the profile
\* that was waiting for it.
GremlinFor(sid) ==
    IF sid \in DOMAIN sessions THEN sessions[sid]
    ELSE IF sid \in DOMAIN pending
         THEN Profiled(NewGremlin, pending[sid].doc, pending[sid].topic)
         ELSE NewGremlin

ReceiveProfile(doc, topic) ==
    LET sid == doc.key[2] IN
    IF sid \in DOMAIN sessions
    THEN /\ sessions' = [sessions EXCEPT ![sid] = Profiled(@, doc, topic)]
         /\ UNCHANGED pending
    ELSE /\ pending' = With(pending, sid, Message(topic, doc))
         /\ UNCHANGED sessions

\* Mutant: the profile goes on waiting although there is a gremlin now.
ReceiveStateKeepsPending(doc, topic) ==
    LET sid == doc.key[2] IN
    /\ sessions' = With(sessions, sid,
           [GremlinFor(sid) EXCEPT !.workspace = doc.key[1], !.stateTopic = topic,
                                   !.reported = doc.source])
    /\ UNCHANGED pending

ReceiveState(doc, topic) ==
    LET sid == doc.key[2] IN
    /\ sessions' = With(sessions, sid,
           [GremlinFor(sid) EXCEPT !.workspace = doc.key[1], !.stateTopic = topic,
                                   !.reported = doc.source])
    /\ pending' = Without(pending, sid)

\* Only a health document proper has a sessionState.
ReceiveHealth(doc, topic) ==
    LET sid == doc.key[2] IN
    /\ sessions' = With(sessions, sid,
           [GremlinFor(sid) EXCEPT !.workspace = doc.key[1], !.healthTopic = topic,
                !.reported = IF doc.type = "health" THEN doc.source ELSE @])
    /\ pending' = Without(pending, sid)

\* The main queue runs the block for the next message.
Receive ==
    /\ inbox # << >>
    /\ inbox' = Tail(inbox)
    /\ LET m == Head(inbox) IN
       /\ CASE DecodedAs(m) = "profile" -> ReceiveProfile(m.doc, m.topic)
            [] DecodedAs(m) = "state"   -> ReceiveState(m.doc, m.topic)
            [] DecodedAs(m) = "health"  -> ReceiveHealth(m.doc, m.topic)
            [] OTHER                    -> UNCHANGED board
       /\ killed' = IF DecodedAs(m) \in {"state", "health"} THEN killed \ {m.doc.key} ELSE killed
       /\ unsaved' = IF DecodedAs(m) = "profile" THEN unsaved \ {m.doc.key} ELSE unsaved
    /\ UNCHANGED <<broker, link, outbox, named, wiped, kills, losses>>

-----------------------------------------------------------------------------
(* The user.                                                               *)

Given(topic, default) == IF topic = Null THEN default ELSE topic

\* Where killSession deletes: the topics remembered, or else the proper ones.
KillTopics(sid) ==
    LET gremlin == sessions[sid]
        key     == <<gremlin.workspace, sid>>
    IN  << Given(gremlin.stateTopic, StateTopic(key)),
           Given(gremlin.healthTopic, SessionHealthTopic(key)),
           Given(gremlin.profileTopic, ProfileTopic(key)) >>

\* The user kills a gremlin.
Kill(sid) ==
    /\ kills < MaxKills
    /\ kills' = kills + 1
    /\ outbox' = IF link = "up"
                 THEN outbox \o [i \in DOMAIN KillTopics(sid) |-> Message(KillTopics(sid)[i], Null)]
                 ELSE outbox
    /\ sessions' = Without(sessions, sid)
    /\ killed' = killed \cup {<<sessions[sid].workspace, sid>>}
    /\ UNCHANGED <<broker, link, inbox, pending, named, unsaved, wiped, losses>>

\* publishSessionProfile: a profile under a new id.
NamedProfile(name, key) ==
    [source |-> name, type |-> "profile", id |-> <<name, "profile">>, key |-> key, state |-> Null]

\* The user names a gremlin: the app publishes the profile and applies it at once.
SetName(sid, name) ==
    LET key == <<sessions[sid].workspace, sid>>
        doc == NamedProfile(name, key)
    IN  /\ name \notin named
        /\ named' = named \cup {name}
        /\ outbox' = IF link = "up" THEN Append(outbox, Message(ProfileTopic(key), doc)) ELSE outbox
        /\ unsaved' = IF link = "up" THEN unsaved ELSE unsaved \cup {key}
        /\ sessions' = [sessions EXCEPT ![sid] = Profiled(@, doc, ProfileTopic(key))]
        /\ UNCHANGED <<broker, link, inbox, pending, killed, wiped, kills, losses>>

-----------------------------------------------------------------------------
(* The connection.                                                         *)

\* Mutant: what arrives before the SUBACK is skipped.
SubscribeSkipping ==
    /\ link = "down"
    /\ link' = "up"
    /\ inbox' = << >>
    /\ killed' = {}
    /\ UNCHANGED <<broker, outbox, board, named, unsaved, wiped, kills, losses>>

\* connect(): what is left of the previous connection is discarded, and the new
\* subscription brings the retained documents.
Subscribe ==
    /\ link = "down"
    /\ link' = "up"
    /\ \E burst \in Bursts(retained) :
           inbox' = [i \in DOMAIN burst |-> Message(burst[i], retained[burst[i]])]
    /\ killed' = {}
    /\ UNCHANGED <<broker, outbox, board, named, unsaved, wiped, kills, losses>>

\* The connection ends; the messages that had arrived are still applied.
Lose ==
    /\ link = "up"
    /\ losses < MaxLosses
    /\ losses' = losses + 1
    /\ link' = "down"
    /\ \E n \in 0 .. Len(inbox) : inbox' = SubSeq(inbox, 1, n)
    /\ outbox' = << >>
    /\ unsaved' = unsaved \cup {m.doc.key : m \in {x \in ToSet(outbox) : x.doc # Null}}
    /\ UNCHANGED <<broker, board, named, killed, wiped, kills>>

\* The user quits the app and starts it again: nothing of the board is kept.
Restart ==
    /\ losses < MaxLosses
    /\ losses' = losses + 1
    /\ link' = "down"
    /\ inbox' = << >>
    /\ outbox' = << >>
    /\ sessions' = << >>
    /\ pending' = << >>
    /\ unsaved' = {}
    /\ UNCHANGED <<broker, named, killed, wiped, kills>>

Next ==
    \/ \E n \in Sources : Publish(n)
    \/ BrokerTake \/ Receive
    \/ \E sid \in DOMAIN sessions : Kill(sid)
    \/ \E sid \in DOMAIN sessions, name \in Names : SetName(sid, name)
    \/ Subscribe \/ Lose \/ Restart

Spec == Init /\ [][Next]_vars

-----------------------------------------------------------------------------
(* Properties.                                                             *)

SessionIds == {k[2] : k \in Keys}
Profiles   == AllDocs \cup {NamedProfile(name, k) : name \in Names, k \in Keys}

\* An empty payload is no document of the app's either.
ASSUME NullIsNoProfile == Null \notin Profiles

TopicsOf(k) == {EventTopic(k), StateTopic(k), SessionHealthTopic(k), ProfileTopic(k)}
Topics     == UNION {TopicsOf(k) : k \in Keys}

Gremlin ==
    [ workspace : {k[1] : k \in Keys}, reported : Sources \cup {Null},
      profile : Sources \cup Names \cup {Null}, stateTopic : Topics \cup {Null},
      healthTopic : Topics \cup {Null}, profileTopic : Topics \cup {Null} ]

\* The board has known sessions with the topics they were heard of on, and a profile
\* waits only for a session without a gremlin.
TypeOK ==
    /\ stage \in [Sources -> 0 .. 3]
    /\ link \in {"down", "up"}
    /\ \A t \in DOMAIN retained : retained[t] \in Profiles /\ Topic(retained[t]) = t
    /\ \A m \in ToSet(inbox) \cup ToSet(outbox) : m.doc = Null \/ m.doc \in Profiles
    /\ DOMAIN sessions \subseteq SessionIds
    /\ \A sid \in DOMAIN sessions : sessions[sid] \in Gremlin
    /\ DOMAIN pending \subseteq SessionIds \ DOMAIN sessions
    /\ \A sid \in DOMAIN pending : pending[sid].doc \in Profiles

\* Nothing is on its way in either direction.
CaughtUp == link = "up" /\ inbox = << >> /\ outbox = << >>

IsRetained(k) == {StateTopic(k), SessionHealthTopic(k)} \cap DOMAIN retained # {}

\* The board is complete: whenever the app has caught up, every session of which
\* something is retained has a gremlin, unless the user killed it on this very
\* subscription.
RetainedIsShown ==
    CaughtUp => \A k \in Keys : IsRetained(k) => k[2] \in DOMAIN sessions \/ k \in killed

\* The board is current: whenever the app has caught up, what a gremlin shows was
\* reported by the retained state, by the retained health, or by an event whose state
\* has not come yet, whatever was missed, replayed or killed before.  A gremlin that
\* comes back while its documents are being deleted is the exception.
ShownIsRetained ==
    CaughtUp => \A k \in Keys :
        k[2] \in DOMAIN sessions /\ sessions[k[2]].reported # Null =>
            \/ \E t \in {StateTopic(k), SessionHealthTopic(k)} \cap DOMAIN retained :
                   retained[t].source = sessions[k[2]].reported
            \/ stage[sessions[k[2]].reported] = 1
            \/ {StateTopic(k), SessionHealthTopic(k)} \cap wiped # {}

\* The name of a gremlin is that of the retained profile whenever the app has caught
\* up, whether the profile came before the gremlin or after it and whoever set it; but
\* for a name that was set in the app and lost, and for a profile being deleted.
NameIsRetained ==
    CaughtUp => \A k \in Keys : k[2] \in DOMAIN sessions =>
        \/ k \in unsaved
        \/ ProfileTopic(k) \in wiped
        \/ sessions[k[2]].profile =
               IF ProfileTopic(k) \in DOMAIN retained THEN retained[ProfileTopic(k)].source ELSE Null

\* The app deletes the stale state and health of a gremlin the user killed: once the
\* deletions are through, nothing of the session is retained.
KillDeletes ==
    CaughtUp => \A k \in killed : ~IsRetained(k)

\* A profile is merged into the session of its own workspace and session id.
MergedByWorkspaceAndSession ==
    CaughtUp => \A sid \in DOMAIN sessions :
        sessions[sid].reported # Null /\ sessions[sid].profile \in Sources =>
            Key[sessions[sid].profile] = Key[sessions[sid].reported]

=============================================================================
