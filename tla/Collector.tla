------------------------------ MODULE Collector ------------------------------
(***************************************************************************)
(* The collector sidecar (collector.py): an MQTT thread subscribes to the  *)
(* four topic trees, hands every message to the event store, and starts    *)
(* over five seconds after any error.                                      *)
(*                                                                         *)
(* Around it are the publishers, which send the documents of a source in   *)
(* order and may stop half way, the desktop app, which deletes retained    *)
(* documents, and the broker.  The session is clean: while the collector   *)
(* is away the broker keeps nothing for it but the retained documents,     *)
(* which it sends anew after each SUBSCRIBE, filter by filter.  The broker *)
(* writes the retained documents to disk from time to time, and a broker   *)
(* that dies comes back with those it wrote last.                          *)
(***************************************************************************)
EXTENDS Documents

CONSTANTS
    MaxQueued,   \* the broker's queue for one subscriber (max_queued_messages)
    MaxDrops,    \* bound: how often the connection is lost, with the broker or alone
    MaxDeletes,  \* bound: how many retained documents the app deletes
    MaxSaves     \* bound: how often the broker writes to disk

ASSUME CollectorAssumption == MaxQueued \in Nat \ {0}

VARIABLES
    stage,       \* source -> how many of its documents the broker has taken
    retained,    \* topic -> the retained document, for the topics that have one
    link,        \* the collector's connection: "down" or "up"
    queue,       \* what the broker still has to deliver to the collector
    overflow,    \* the broker dropped something for this subscription
    events,      \* table events: id -> document
    current,     \* table current_state: session key -> document
    inherited,   \* ghost: rows of current_state untouched since the SUBSCRIBE
    drops, deletes,
    saved,       \* the retained documents the broker wrote to disk last
    cut,         \* the sources that lost their broker half way
    saves

network == <<link, queue, overflow, inherited, drops>>
tables  == <<events, current>>
disk    == <<saved, cut, saves>>
vars    == <<stage, retained, network, tables, deletes, disk>>

Init ==
    /\ stage     = [n \in Sources |-> 0]
    /\ retained  = << >>
    /\ link      = "down"
    /\ queue     = << >>
    /\ overflow  = FALSE
    /\ events    = << >>
    /\ current   = << >>
    /\ inherited = {}
    /\ drops     = 0
    /\ deletes   = 0
    /\ saved     = << >>
    /\ cut       = {}
    /\ saves     = 0

-----------------------------------------------------------------------------
(* The broker.                                                             *)

\* Mutant: a queue without a limit.
DeliverUnbounded(m) ==
    IF link = "down" THEN UNCHANGED <<queue, overflow>>
    ELSE queue' = Append(queue, m) /\ UNCHANGED overflow

\* A full queue drops the message; only a subscriber has a queue.
Deliver(m) ==
    IF link = "down" THEN UNCHANGED <<queue, overflow>>
    ELSE IF Len(queue) < MaxQueued
         THEN queue' = Append(queue, m) /\ UNCHANGED overflow
         ELSE overflow' = TRUE /\ UNCHANGED queue

\* The next document of a source reaches the broker.
Publish(n) ==
    /\ stage[n] < Len(Documents(n)) /\ n \notin cut
    /\ LET doc == Documents(n)[stage[n] + 1] IN
       /\ retained' = IF doc.type = "event" THEN retained
                      ELSE With(retained, Topic(doc), doc)
       /\ Deliver(Message(Topic(doc), doc))
    /\ stage' = [stage EXCEPT ![n] = @ + 1]
    /\ UNCHANGED <<link, inherited, drops, tables, deletes, disk>>

\* The app deletes a retained document: the subscribers get the empty payload.
Delete(topic) ==
    /\ deletes < MaxDeletes
    /\ deletes' = deletes + 1
    /\ retained' = Without(retained, topic)
    /\ Deliver(Message(topic, Null))
    /\ UNCHANGED <<stage, link, inherited, drops, tables, disk>>

\* autosave_interval: the broker writes what it retains.
Autosave ==
    /\ saved # retained /\ drops < MaxDrops
    /\ saves < MaxSaves
    /\ saves' = saves + 1
    /\ saved' = retained
    /\ UNCHANGED <<stage, retained, network, tables, deletes, cut>>

\* The broker dies and is started again: what it retained since it last wrote is
\* undone, and every connection is lost.  A publisher gives up with its connection.
Crash ==
    /\ drops < MaxDrops
    /\ drops' = drops + 1
    /\ retained' = saved
    /\ cut' = cut \cup {n \in Sources : stage[n] > 0}
    /\ link' = "down"
    /\ queue' = << >>
    /\ overflow' = FALSE
    /\ UNCHANGED <<stage, inherited, tables, deletes, saved, saves>>

AtMost(n, limit) == IF n > limit THEN limit ELSE n

-----------------------------------------------------------------------------
(* The MQTT thread.                                                        *)

\* Mutant: an error ends the thread.
MayConnectOnce == link = "down" /\ drops = 0

\* The loop of run_mqtt is where it connects, again and again.
MayConnect == link = "down"

\* connect() and subscribe() succeed.
Connect ==
    /\ MayConnect
    /\ link' = "up"
    /\ \E burst \in Bursts(retained) :
           /\ queue' = [i \in 1 .. AtMost(Len(burst), MaxQueued) |->
                           Message(burst[i], retained[burst[i]])]
           /\ overflow' = (Len(burst) > MaxQueued)
    /\ inherited' = DOMAIN current
    /\ UNCHANGED <<stage, retained, drops, tables, deletes, disk>>

\* The connection breaks, the store raises and rolls back, or the process is
\* restarted: what was queued is gone, the tables stay.
Drop ==
    /\ link = "up"
    /\ drops < MaxDrops
    /\ drops' = drops + 1
    /\ link' = "down"
    /\ queue' = << >>
    /\ overflow' = FALSE
    /\ UNCHANGED <<stage, retained, inherited, tables, deletes, disk>>

\* "/state/" in topic: also true of every topic of a workspace named state.
InStateTree(topic) ==
    topic[1] = "state" \/ (Len(topic) = 3 /\ topic[2] = "state")

\* The second statement of add() runs.
UpdatesStatus(topic, doc) ==
    doc.key # Null /\ (InStateTree(topic) \/ doc.state # Null)

\* Mutant: INSERT OR IGNORE keeps the first document of an id.
AddIgnoring(topic, doc) ==
    /\ events' = IF doc.id \in DOMAIN events THEN events ELSE With(events, doc.id, doc)
    /\ IF UpdatesStatus(topic, doc)
       THEN current' = With(current, doc.key, doc) /\ inherited' = inherited \ {doc.key}
       ELSE UNCHANGED <<current, inherited>>

\* Mutant: the status row of a session is inserted once and never replaced.
AddFirstWins(topic, doc) ==
    /\ events' = With(events, doc.id, doc)
    /\ IF UpdatesStatus(topic, doc) /\ doc.key \notin DOMAIN current
       THEN current' = With(current, doc.key, doc) /\ inherited' = inherited \ {doc.key}
       ELSE UNCHANGED <<current, inherited>>

\* EventStore.add: both INSERT OR REPLACE statements, in one transaction.
Add(topic, doc) ==
    /\ events' = With(events, doc.id, doc)
    /\ IF UpdatesStatus(topic, doc)
       THEN current' = With(current, doc.key, doc) /\ inherited' = inherited \ {doc.key}
       ELSE UNCHANGED <<current, inherited>>

\* Mutant: an empty payload is only ignored.
DeleteRetainedIgnored(topic) == UNCHANGED <<events, current, inherited>>

\* EventStore.delete_retained: only the state topic has a row to delete.
DeleteRetained(topic) ==
    /\ IF topic[1] = "state"
       THEN LET key == <<topic[2], topic[3]>> IN
            current' = Without(current, key) /\ inherited' = inherited \ {key}
       ELSE UNCHANGED <<current, inherited>>
    /\ UNCHANGED events

\* handle_message for the next message.
Handle ==
    /\ queue # << >>
    /\ queue' = Tail(queue)
    /\ IF Head(queue).doc = Null
       THEN DeleteRetained(Head(queue).topic)
       ELSE Add(Head(queue).topic, Head(queue).doc)
    /\ UNCHANGED <<stage, retained, link, overflow, drops, deletes, disk>>

Next ==
    \/ \E n \in Sources : Publish(n)
    \/ \E k \in Keys :
           \/ Delete(StateTopic(k)) \/ Delete(SessionHealthTopic(k)) \/ Delete(ProfileTopic(k))
    \/ Autosave \/ Crash
    \/ Connect \/ Drop \/ Handle

Spec == Init /\ [][Next]_vars /\ WF_vars(Connect) /\ WF_vars(Handle)

-----------------------------------------------------------------------------
(* Properties.                                                             *)

Messages ==
    {Message(Topic(d), d) : d \in AllDocs}
    \cup {Message(t, Null) : t \in UNION {{StateTopic(k), SessionHealthTopic(k), ProfileTopic(k)} : k \in Keys}}

\* The tables and the queue hold documents that were published.
TypeOK ==
    /\ stage \in [Sources -> 0 .. 3]
    /\ link \in {"down", "up"}
    /\ overflow \in BOOLEAN
    /\ \A t \in DOMAIN retained : retained[t] \in AllDocs /\ Topic(retained[t]) = t
    /\ \A t \in DOMAIN saved : saved[t] \in AllDocs /\ Topic(saved[t]) = t
    /\ cut \subseteq Sources
    /\ queue \in Seq(Messages)
    /\ Len(queue) <= MaxQueued
    /\ link = "down" => queue = << >>
    /\ \A id \in DOMAIN events : events[id] \in AllDocs /\ events[id].id = id
    /\ \A k \in DOMAIN current : current[k] \in AllDocs /\ current[k].key = k
    /\ inherited \subseteq DOMAIN current

\* The two tables never contradict each other: the document behind a status row
\* is the one that the event table has under its id, after any reconnect, any
\* replay of retained documents, any deletion and any crash of the broker.
StatusInHistory ==
    \A k \in DOMAIN current :
        /\ current[k].id \in DOMAIN events
        /\ events[current[k].id] = current[k]

\* State documents are the source of the current session state, so /v1/status only
\* lists states: no heartbeat, profile or stateless event replaces the state of its
\* session.  In a workspace called state any of them does: every topic has "/state/".
StatusRowsAreStates ==
    \A k \in DOMAIN current : current[k].state # Null

\* The collector has handled everything the broker has for it.
Drained == link = "up" /\ queue = << >> /\ ~overflow

\* The row announces an event whose state the broker has not seen.
Ahead(k) == stage[current[k].source] = 1

\* Once it has caught up, the collector shows the retained state of every session,
\* or an event newer than it, however often it was away, whatever order the hooks of
\* the session published in, and even if the broker has fallen back to an older one.
\* It is about workspaces not called state, where a row may be any document of its
\* session; so are OrphansAreInherited and StatusConverges.
StatusCoversRetained ==
    Drained => \A k \in Keys : StateTopic(k) \in DOMAIN retained =>
        /\ k \in DOMAIN current
        /\ current[k].source = retained[StateTopic(k)].source \/ Ahead(k)

\* A row without a retained state, once the collector has caught up, was there
\* before it last subscribed, or announces an event newer than the deletion.
OrphansAreInherited ==
    Drained => \A k \in DOMAIN current :
        StateTopic(k) \in DOMAIN retained \/ Ahead(k) \/ k \in inherited

\* Retained state is the source of truth for current session state: a session
\* whose retained state was deleted is not in /v1/status either.
StatusHasRetained ==
    Drained => \A k \in DOMAIN current :
        StateTopic(k) \in DOMAIN retained \/ Ahead(k)

\* The stored history of lifecycle events is append-only.
EventsAppendOnly ==
    [][\A id \in DOMAIN events : id \in DOMAIN events' /\ events'[id] = events[id]]_vars

\* The status of a session settles on its retained state: the thread reconnects
\* for ever and works off what it is sent.
StatusConverges ==
    \A k \in Keys : <>[](StateTopic(k) \in DOMAIN retained =>
        \/ overflow
        \/ k \in DOMAIN current /\
             (current[k].source = retained[StateTopic(k)].source \/ Ahead(k)))

=============================================================================
