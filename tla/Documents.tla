----------------------------- MODULE Documents -----------------------------
(***************************************************************************)
(* The documents that sources publish, the topics they go to, and what a   *)
(* broker holds of them.                                                   *)
(*                                                                         *)
(* A source is a normalized event, a run of the naming tool, or a          *)
(* heartbeat.  A document is reduced to its source, what kind of document  *)
(* it is, its id, its session and its state field.                         *)
(***************************************************************************)
EXTENDS Protocol, Naturals, Sequences, SequencesExt

CONSTANTS
    Sources,     \* normalized events, naming runs and heartbeats
    Kind,        \* source -> "event", "profile" or "heartbeat"
    Key,         \* source -> the session key, or Null for a heartbeat
    State        \* source -> the normalized state, or Null

ASSUME DocumentsAssumption ==
    /\ \A n \in Sources : Kind[n] \in {"event", "profile", "heartbeat"}
    /\ \A n \in Sources : Kind[n] # "event" => State[n] = Null
    /\ \A n \in Sources : Key[n] = Null <=> Kind[n] = "heartbeat"
    /\ \A n \in Sources : Key[n] # Null => Key[n] = <<Key[n][1], Key[n][2]>>

Document(n, type, id, state) ==
    [source |-> n, type |-> type, id |-> id, key |-> Key[n], state |-> state]

\* The state document takes over the id of its event (state_document); the health
\* document has one of its own, and carries the state as sessionState only.
EventDoc(n)         == Document(n, "event", <<n, "event">>, State[n])
StateDoc(n)         == Document(n, "state", <<n, "event">>, State[n])
SessionHealthDoc(n) == Document(n, "health", <<n, "health">>, Null)
ProfileDoc(n)       == Document(n, "profile", <<n, "profile">>, Null)
ClientHealthDoc(n)  == Document(n, "client", <<n, "client">>, Null)

\* What a source publishes, in order.
Documents(n) ==
    CASE Kind[n] = "profile"                     -> <<ProfileDoc(n)>>
      [] Kind[n] = "heartbeat"                   -> <<ClientHealthDoc(n)>>
      [] Kind[n] = "event" /\ State[n] = Null    -> <<EventDoc(n)>>
      [] OTHER -> <<EventDoc(n), StateDoc(n), SessionHealthDoc(n)>>

AllDocs == UNION {{Documents(n)[i] : i \in DOMAIN Documents(n)} : n \in Sources}

\* An empty payload is no document.
ASSUME NullIsNoDocument == Null \notin AllDocs

Topic(doc) ==
    CASE doc.type = "event"   -> EventTopic(doc.key)
      [] doc.type = "state"   -> StateTopic(doc.key)
      [] doc.type = "health"  -> SessionHealthTopic(doc.key)
      [] doc.type = "profile" -> ProfileTopic(doc.key)
      [] OTHER                -> ClientHealthTopic(doc.source)

Keys == {Key[n] : n \in Sources} \ {Null}

\* A message: a document, or Null for an empty payload.
Message(topic, doc) == [topic |-> topic, doc |-> doc]

-----------------------------------------------------------------------------
(* Maps and retained documents.                                            *)

\* f with x mapped to y, and f without x.
With(f, x, y) == [z \in DOMAIN f \cup {x} |-> IF z = x THEN y ELSE f[z]]
Without(f, x) == [z \in DOMAIN f \ {x} |-> f[z]]

\* The topics with a retained document under one filter, in any order.
RetainedUnder(store, types) ==
    SetToSeqs({t \in DOMAIN store : store[t].type \in types})

\* What a SUBSCRIBE to the event, state, health and profile filters brings.
Bursts(store) ==
    {s \o h \o p : s \in RetainedUnder(store, {"state"}),
                   h \in RetainedUnder(store, {"health", "client"}),
                   p \in RetainedUnder(store, {"profile"})}

=============================================================================
