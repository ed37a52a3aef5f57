---------------------------- MODULE JsonlAdapter ----------------------------
(***************************************************************************)
(* The JSONL adapter (jsonl_adapter.py): a filter in a shell pipeline that *)
(* reads what codex exec --json writes, publishes an event for every JSON  *)
(* object over one long-lived MQTT connection, and, when asked to, writes  *)
(* the stream on to the next command.                                      *)
(*                                                                         *)
(* Around it are the agent, which writes lines when it likes, the broker,  *)
(* which drops a client it has not heard from for one and a half           *)
(* keep-alive intervals (the adapter never sends PINGREQ), the network,    *)
(* and whoever kills the pipeline.  Standard output is buffered: what was  *)
(* written but not flushed dies with a killed process.                     *)
(***************************************************************************)
EXTENDS Protocol, Naturals, Sequences, SequencesExt, FiniteSets

CONSTANTS
    Lines,       \* the lines the agent may write
    Shape,       \* line -> "object", or "other" when it is blank, no JSON or no object
    Type,        \* line -> the type field of the object
    Thread,      \* line -> its thread_id or threadId, or Null
    Segment,     \* topic_segment on thread ids
    Grace,       \* how long the broker tolerates silence
    MaxLines,    \* bound: how many lines the agent writes
    MaxFaults    \* bound: how many things go wrong around the adapter, other than
                 \* the broker's silence

ASSUME JsonlAdapterAssumption ==
    /\ Shape \in [Lines -> {"object", "other"}]
    /\ \A l \in Lines : Thread[l] = Null \/ Thread[l] \in DOMAIN Segment
    /\ Null \notin DOMAIN Segment
    /\ Grace \in Nat
    /\ MaxLines \in Nat
    /\ MaxFaults \in Nat

VARIABLES
    passthrough,   \* MENAGERIE_PASSTHROUGH: "yes" or "no"
    input,         \* what the agent has written to standard input
    closed,        \* the agent has closed it: "yes" or "no"
    pc,            \* where main() is
    taken,         \* how many lines it has read
    session,       \* session_id
    todo,          \* the documents still to be acknowledged for the line read last
    outcome,       \* "ok", or "raised" once an exception is on its way out
    rc,            \* the exit status
    buffer,        \* lines written to standard output and not flushed
    out,           \* what the next command has received
    link,          \* the connection: "none", "up", "broken" or "closed"
    wire,          \* the packet in flight for Head(todo)
    quiet,         \* how long the broker has heard nothing
    published,     \* the documents the broker has taken, in order
    faults,        \* ghost: what went wrong outside of the adapter
    due            \* ghost: what there is to publish for the lines read so far

agent   == <<input, closed>>
control == <<pc, taken, session, todo, outcome, rc>>
stdout  == <<buffer, out>>
broker  == <<link, wire, quiet, published>>
ghosts  == <<faults, due>>
vars    == <<passthrough, agent, control, stdout, broker, ghosts>>

-----------------------------------------------------------------------------
(* What is published for a line.                                           *)

Health == [type |-> "client", session |-> "none", state |-> Null]

\* normalize_jsonl_event, for a process that has last seen this thread.
SessionOf(thread) == IF thread = Null THEN "unknown" ELSE Segment[thread]

Event(l, thread) ==
    [type |-> "event", session |-> SessionOf(thread), state |-> JsonlState(Type[l])]

\* Only an event with a state has a state and a session health document.
Documents(l, thread) ==
    LET event == Event(l, thread) IN
    IF event.state = Null THEN << event >>
    ELSE << event, [event EXCEPT !.type = "state"], [event EXCEPT !.type = "health"] >>

\* The lines among the first i that name a thread, and the last of them, if any.
Naming(i)     == {j \in 1 .. i : Shape[input[j]] = "object" /\ Thread[input[j]] # Null}
LastNaming(i) == {j \in Naming(i) : \A k \in Naming(i) : k <= j}

\* The thread of the last object with a thread among the first i lines.
ThreadAt(i) ==
    IF Naming(i) = {} THEN Null
    ELSE CHOOSE thread \in {Thread[input[j]] : j \in LastNaming(i)} : TRUE

DocumentsDue(i) ==
    IF Shape[input[i]] = "object" THEN Documents(input[i], ThreadAt(i)) ELSE << >>

Init ==
    /\ passthrough \in {"yes", "no"}
    /\ input = << >> /\ closed = "no"
    /\ pc = "start" /\ taken = 0 /\ session = Null /\ todo = << >>
    /\ outcome = "ok" /\ rc = 0
    /\ buffer = << >> /\ out = << >>
    /\ link = "none" /\ wire = "none" /\ quiet = 0 /\ published = << >>
    /\ faults = {} /\ due = << >>

-----------------------------------------------------------------------------
(* The agent.  It cannot write to a process that is gone.                  *)

Running == pc \notin {"exited", "killed"}

Write(l) ==
    /\ Running /\ closed = "no"
    /\ Len(input) < MaxLines
    /\ input' = Append(input, l)
    /\ UNCHANGED <<passthrough, closed, control, stdout, broker, ghosts>>

Close ==
    /\ Running /\ closed = "no"
    /\ closed' = "yes"
    /\ UNCHANGED <<passthrough, input, control, stdout, broker, ghosts>>

-----------------------------------------------------------------------------
(* main().                                                                 *)

HasLine == taken < Len(input)
AtEof   == closed = "yes" /\ ~HasLine
Line    == input[taken + 1]

ReaderGone == "reader" \in faults

MayFail == Cardinality(faults) < MaxFaults

\* sys.stdout.write(line), where it is asked for.
Echo == buffer' = IF passthrough = "yes" THEN Append(buffer, Line) ELSE buffer

\* The next line of the loop; what is due for it is said without the variables of
\* main().
Take ==
    /\ taken' = taken + 1
    /\ due' = due \o DocumentsDue(taken + 1)

\* The process ends by itself: the interpreter flushes standard output, which
\* fails when the next command is gone.
Exit(status) ==
    /\ pc' = "exited"
    /\ rc' = IF ReaderGone /\ buffer # << >> THEN 120 ELSE status
    /\ out' = IF ReaderGone THEN out ELSE out \o buffer
    /\ buffer' = << >>

\* mqtt_settings() raises on a port that is no number, before anything is read.
SettingsError ==
    /\ pc = "start"
    /\ Exit(1)
    /\ outcome' = "raised"
    /\ faults' = faults \cup {"settings"}
    /\ UNCHANGED <<passthrough, agent, taken, session, todo, broker, due>>

\* Mutant: without a broker the process ends at once.
ConnectFailsAndExits ==
    /\ pc = "start"
    /\ Exit(0)
    /\ UNCHANGED <<passthrough, agent, taken, session, todo, outcome, broker, ghosts>>

\* No connection: a message on standard error, and only the stream is passed on.
ConnectFails ==
    /\ pc = "start"
    /\ pc' = "draining"
    /\ UNCHANGED <<passthrough, agent, taken, session, todo, outcome, rc, stdout, broker, ghosts>>

Connect ==
    /\ pc = "start"
    /\ pc' = "publishing"
    /\ link' = "up"
    /\ todo' = << Health >>
    /\ due' = << Health >>
    /\ UNCHANGED <<passthrough, agent, taken, session, outcome, rc, stdout, wire, quiet, published, faults>>

\* The loop after a failed connection.
Drain ==
    /\ pc = "draining"
    /\ HasLine
    /\ Echo
    /\ taken' = taken + 1
    /\ UNCHANGED <<passthrough, agent, pc, session, todo, outcome, rc, out, broker, ghosts>>

DrainEnds ==
    /\ pc = "draining"
    /\ AtEof
    /\ Exit(0)
    /\ UNCHANGED <<passthrough, agent, taken, session, todo, outcome, broker, ghosts>>

\* A line that is skipped after it has been passed on.
Skip ==
    /\ pc = "reading"
    /\ HasLine
    /\ Shape[Line] = "other"
    /\ Echo
    /\ Take
    /\ UNCHANGED <<passthrough, agent, pc, session, todo, outcome, rc, out, broker, faults>>

Latest(l) == IF Thread[l] = Null THEN session ELSE Thread[l]

\* Mutant: the stream is passed on line by line once the line has been understood.
NormalizeUnechoed ==
    /\ pc = "reading"
    /\ HasLine
    /\ Shape[Line] = "object"
    /\ session' = Latest(Line)
    /\ todo' = Documents(Line, session')
    /\ buffer' = buffer
    /\ Take
    /\ pc' = "publishing"
    /\ UNCHANGED <<passthrough, agent, outcome, rc, out, broker, faults>>

\* Mutant: the thread of a line counts from the next line on.
NormalizeLate ==
    /\ pc = "reading"
    /\ HasLine
    /\ Shape[Line] = "object"
    /\ Echo
    /\ session' = Latest(Line)
    /\ todo' = Documents(Line, session)
    /\ Take
    /\ pc' = "publishing"
    /\ UNCHANGED <<passthrough, agent, outcome, rc, out, broker, faults>>

\* A JSON object: it is passed on, its thread is remembered, and it is published.
Normalize ==
    /\ pc = "reading"
    /\ HasLine
    /\ Shape[Line] = "object"
    /\ Echo
    /\ session' = Latest(Line)
    /\ todo' = Documents(Line, session')
    /\ Take
    /\ pc' = "publishing"
    /\ UNCHANGED <<passthrough, agent, outcome, rc, out, broker, faults>>

\* The next command is gone: writing raises, and the line goes nowhere.
WriteError ==
    /\ pc \in {"reading", "draining"}
    /\ HasLine
    /\ passthrough = "yes" /\ ReaderGone
    /\ taken' = taken + 1
    /\ outcome' = "raised"
    /\ pc' = IF pc = "reading" THEN "closing" ELSE "leaving"
    /\ UNCHANGED <<passthrough, agent, session, todo, rc, stdout, broker, ghosts>>

Eof ==
    /\ pc = "reading"
    /\ AtEof
    /\ pc' = "closing"
    /\ UNCHANGED <<passthrough, agent, taken, session, todo, outcome, rc, stdout, broker, ghosts>>

\* publish(): one PUBLISH, and then the wait for its PUBACK.
Send ==
    /\ pc = "publishing"
    /\ link = "up"
    /\ wire' = "publish"
    /\ pc' = "waiting"
    /\ UNCHANGED <<passthrough, agent, taken, session, todo, outcome, rc, stdout, link, quiet, published, ghosts>>

\* Mutant: the last document of a line leads to another one.
PubAckAndPublish ==
    /\ pc = "waiting"
    /\ wire = "puback"
    /\ wire' = "none"
    /\ todo' = Tail(todo)
    /\ pc' = "publishing"
    /\ UNCHANGED <<passthrough, agent, taken, session, outcome, rc, stdout, link, quiet, published, ghosts>>

\* The PUBACK: publish() returns, to the next document or to the next line.
PubAck ==
    /\ pc = "waiting"
    /\ wire = "puback"
    /\ wire' = "none"
    /\ todo' = Tail(todo)
    /\ pc' = IF Tail(todo) = << >> THEN "reading" ELSE "publishing"
    /\ UNCHANGED <<passthrough, agent, taken, session, outcome, rc, stdout, link, quiet, published, ghosts>>

\* Sending or receiving fails on a broken connection: publish() raises.
PublishError ==
    /\ pc \in {"publishing", "waiting"}
    /\ link = "broken"
    /\ pc' = "closing"
    /\ outcome' = "raised"
    /\ UNCHANGED <<passthrough, agent, taken, session, todo, rc, stdout, broker, ghosts>>

\* Mutant: without a socket timeout nothing bounds the wait.
PublishTimeoutNever == FALSE /\ UNCHANGED vars

\* No PUBACK within the socket timeout.
PublishTimeout ==
    /\ pc = "waiting"
    /\ pc' = "closing"
    /\ outcome' = "raised"
    /\ faults' = faults \cup {"network"}
    /\ UNCHANGED <<passthrough, agent, taken, session, todo, rc, stdout, broker, due>>

\* The finally clause.
Disconnect ==
    /\ pc = "closing"
    /\ pc' = "leaving"
    /\ link' = "closed"
    /\ UNCHANGED <<passthrough, agent, taken, session, todo, outcome, rc, stdout, wire, quiet, published, ghosts>>

\* Sending DISCONNECT raises on a broken connection.
DisconnectError ==
    /\ pc = "closing"
    /\ link = "broken"
    /\ pc' = "leaving"
    /\ link' = "closed"
    /\ outcome' = "raised"
    /\ UNCHANGED <<passthrough, agent, taken, session, todo, rc, stdout, wire, quiet, published, ghosts>>

\* Mutant: exceptions end the process like any other end.
LeaveQuietly ==
    /\ pc = "leaving"
    /\ Exit(0)
    /\ UNCHANGED <<passthrough, agent, taken, session, todo, outcome, broker, ghosts>>

\* main() returns 0, or the exception leaves it.
Leave ==
    /\ pc = "leaving"
    /\ Exit(IF outcome = "ok" THEN 0 ELSE 1)
    /\ UNCHANGED <<passthrough, agent, taken, session, todo, outcome, broker, ghosts>>

-----------------------------------------------------------------------------
(* The operating system, the broker and the network.                       *)

\* The buffer of standard output is full.
Flush ==
    /\ buffer # << >> /\ ~ReaderGone
    /\ out' = out \o buffer
    /\ buffer' = << >>
    /\ UNCHANGED <<passthrough, agent, control, broker, ghosts>>

Kill ==
    /\ Running /\ MayFail
    /\ pc' = "killed"
    /\ buffer' = << >>
    /\ link' = IF link = "none" THEN "none" ELSE "closed"
    /\ faults' = faults \cup {"kill"}
    /\ UNCHANGED <<passthrough, agent, taken, session, todo, outcome, rc, out, wire, quiet, published, due>>

\* The next command of the pipeline ends.
ReaderLeaves ==
    /\ Running /\ MayFail
    /\ passthrough = "yes"
    /\ faults' = faults \cup {"reader"}
    /\ UNCHANGED <<passthrough, agent, control, stdout, broker, due>>

\* The packet may arrive after its process has given up.
BrokerTake ==
    /\ wire = "publish"
    /\ wire' = "puback"
    /\ published' = Append(published, Head(todo))
    /\ quiet' = 0
    /\ UNCHANGED <<passthrough, agent, control, stdout, link, ghosts>>

\* Time passes while the adapter waits for its agent.
Tick ==
    /\ pc = "reading" /\ ~HasLine /\ closed = "no"
    /\ link = "up" /\ quiet <= Grace
    /\ quiet' = quiet + 1
    /\ UNCHANGED <<passthrough, agent, control, stdout, link, wire, published, ghosts>>

\* The broker has heard nothing for too long.
BrokerDrops ==
    /\ link = "up" /\ quiet > Grace
    /\ link' = "broken"
    /\ faults' = faults \cup {"quiet"}
    /\ UNCHANGED <<passthrough, agent, control, stdout, wire, quiet, published, due>>

\* The connection breaks, with or without the packet in flight.
NetworkBreaks ==
    /\ link = "up" /\ MayFail
    /\ link' = "broken"
    /\ wire' \in {wire, "none"}
    /\ faults' = faults \cup {"network"}
    /\ UNCHANGED <<passthrough, agent, control, stdout, quiet, published, due>>

Run ==
    \/ SettingsError \/ ConnectFails \/ Connect \/ Drain \/ DrainEnds
    \/ Skip \/ Normalize \/ WriteError \/ Eof
    \/ Send \/ PubAck \/ PublishError \/ PublishTimeout
    \/ Disconnect \/ DisconnectError \/ Leave

Next ==
    \/ \E l \in Lines : Write(l)
    \/ Close \/ Run \/ Flush \/ Kill \/ ReaderLeaves
    \/ BrokerTake \/ Tick \/ BrokerDrops \/ NetworkBreaks

Spec == Init /\ [][Next]_vars /\ WF_vars(Run)

-----------------------------------------------------------------------------
(* Properties.                                                             *)

DocumentSet == [type : {"client", "event", "state", "health"},
                session : {"none", "unknown"} \cup {Segment[t] : t \in DOMAIN Segment},
                state : SessionStates \cup {Null}]

\* The state space, and where documents wait: only while the adapter publishes is
\* there something left to publish, and only then is a packet of it in flight.
TypeOK ==
    /\ passthrough \in {"yes", "no"}
    /\ input \in Seq(Lines)
    /\ closed \in {"yes", "no"}
    /\ pc \in {"start", "draining", "publishing", "waiting", "reading", "closing",
              "leaving", "exited", "killed"}
    /\ taken \in 0 .. Len(input)
    /\ session \in DOMAIN Segment \cup {Null}
    /\ todo \in Seq(DocumentSet)
    /\ outcome \in {"ok", "raised"}
    /\ rc \in {0, 1, 120}
    /\ buffer \in Seq(Lines)
    /\ out \in Seq(Lines)
    /\ link \in {"none", "up", "broken", "closed"}
    /\ wire \in {"none", "publish", "puback"}
    /\ quiet \in 0 .. Grace + 1
    /\ published \in Seq(DocumentSet)
    /\ due \in Seq(DocumentSet)
    /\ faults \subseteq {"settings", "quiet", "network", "reader", "kill"}
    /\ pc \in {"publishing", "waiting"} => todo # << >>
    /\ pc = "reading" => todo = << >>
    /\ wire # "none" => todo # << >>

PassedOn == INSTANCE Pipe WITH source <- input, sink <- out

\* The next command receives the original stream: every line as it was read, blank
\* lines and lines that are no JSON included, in order, whether or not there is a
\* broker.  It may only end early.
PassesOn == PassedOn!Spec

Published == INSTANCE Pipe WITH source <- due, sink <- published

\* The broker gets the documents of the lines in order, none twice and none left
\* out in between, each under the thread that was current on its line, however the
\* connection ends.
PublishesInOrder == Published!Spec

\* Exit status 0 means that the stream was read to its end and passed on, and, if
\* there was a connection, that the broker has everything that was due.
ExitTellsTheTruth ==
    pc = "exited" /\ rc = 0 =>
        /\ closed = "yes" /\ taken = Len(input)
        /\ passthrough = "yes" => out = input
        /\ link # "none" => published = due

\* The adapter ends after its agent, and unless something went wrong around it, it
\* ends well: a broker that cannot be reached is nothing that goes wrong, a broker
\* that drops the quiet adapter or breaks off later is.
FinishesStream ==
    closed = "yes" ~> \/ pc = "killed"
                      \/ pc = "exited" /\ (rc = 0 \/ faults # {})

=============================================================================
