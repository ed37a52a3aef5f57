----------------------------- MODULE Publishing -----------------------------
(***************************************************************************)
(* The short-lived publisher processes and the broker they publish to.     *)
(*                                                                         *)
(* Every Codex hook is a process of its own (hook_emitter.py): it reads    *)
(* its input, connects to the broker, publishes the event, the retained    *)
(* state, the retained session health and the retained heartbeat of its    *)
(* own client id, each with QoS 1, and disconnects.  The naming tool       *)
(* (session_name.py) publishes a retained profile the same way.  publish() *)
(* in mqtt.py sends one PUBLISH and blocks until the PUBACK of that packet *)
(* arrives, the socket times out or the connection breaks; nothing is ever *)
(* sent twice.                                                             *)
(* Codex runs hooks of one session in parallel and kills a hook after its  *)
(* timeout, so processes overlap and die at any point, and a PUBLISH that  *)
(* already left a process may still reach the broker after it has gone.    *)
(***************************************************************************)
EXTENDS Protocol, Naturals, Sequences, FiniteSets

CONSTANTS
    Hooks,        \* hook invocations, one process each
    Namers,       \* invocations of the naming tool
    Workspaces,
    Sessions,
    Key,          \* the session each process is about
    EventOf,      \* the hook event each hook is started for
    UnreadKey,    \* the session a hook falls back to without its input
    Strict,       \* the hooks that run with MENAGERIE_STRICT
    MaxRuns       \* bound: how many of the processes start in one behaviour

Publishers == Hooks \cup Namers
Keys       == Workspaces \X Sessions

ASSUME PublishingAssumption ==
    /\ Hooks \cap Namers = {}
    /\ Strict \subseteq Hooks
    /\ Key \in [Publishers -> Keys]
    /\ EventOf \in [Hooks -> STRING]
    /\ UnreadKey \in [Hooks -> Keys]
    /\ Null \notin Publishers \cup SessionStates

VARIABLES
    pc,           \* where each process is
    input,        \* "invalid" once a hook has found no JSON object in its input
    sent,         \* how many messages of its script it has passed to publish()
    failed,       \* an exception left the reading or the publishing code
    rc,           \* the exit status, once exited; 1 stands for any but 0
    answered,     \* {} was written to stdout
    wire,         \* the packet in flight for the message sent last
    applied,      \* how many of its messages the broker has taken
    retained,     \* topic -> the process whose document is retained, or Null
    announced,    \* processes whose event went out to the subscribers
    before        \* ghost: who had published everything when it started

process == <<pc, input, sent, failed, rc, answered>>
broker  == <<applied, retained, announced>>
vars    == <<process, wire, broker, before>>

-----------------------------------------------------------------------------
(* What a process publishes, in order.                                     *)

\* Without its input a hook reports an event of no known name, about the session
\* that its environment alone gives.
EventRead(p) == IF input[p] = "invalid" THEN "unknown" ELSE EventOf[p]
KeyRead(p)   == IF input[p] = "invalid" THEN UnreadKey[p] ELSE Key[p]

Transient(topic)  == [topic |-> topic, retain |-> "no"]
Persistent(topic) == [topic |-> topic, retain |-> "yes"]

\* Mutant: the state goes out before the event it belongs to.
EventScriptStateFirst(p) ==
    << Persistent(StateTopic(KeyRead(p))), Transient(EventTopic(KeyRead(p))),
       Persistent(SessionHealthTopic(KeyRead(p))), Persistent(ClientHealthTopic(p)) >>

\* Mutant: the health goes out before the state.
EventScriptHealthFirst(p) ==
    << Transient(EventTopic(KeyRead(p))), Persistent(SessionHealthTopic(KeyRead(p))),
       Persistent(StateTopic(KeyRead(p))), Persistent(ClientHealthTopic(p)) >>

EventScript(p) ==
    IF HookState(EventRead(p)) # Null
    THEN << Transient(EventTopic(KeyRead(p))),
            Persistent(StateTopic(KeyRead(p))),
            Persistent(SessionHealthTopic(KeyRead(p))),
            Persistent(ClientHealthTopic(p)) >>
    ELSE << Transient(EventTopic(KeyRead(p))), Persistent(ClientHealthTopic(p)) >>

ProfileScript(p) ==
    << Persistent(ProfileTopic(Key[p])), Persistent(ClientHealthTopic(p)) >>

Script(p) == IF p \in Hooks THEN EventScript(p) ELSE ProfileScript(p)

Topics == {StateTopic(k) : k \in Keys} \cup {SessionHealthTopic(k) : k \in Keys}
          \cup {ProfileTopic(k) : k \in Keys}
          \cup {ClientHealthTopic(p) : p \in Publishers}

\* Codex expects {} on stdout from these hooks.
NeedsAnswer == {"stop", "subagentStop"}

Init ==
    /\ pc        = [p \in Publishers |-> "idle"]
    /\ input     = [p \in Publishers |-> "valid"]
    /\ sent      = [p \in Publishers |-> 0]
    /\ failed    = [p \in Publishers |-> FALSE]
    /\ rc        = [p \in Publishers |-> 0]
    /\ answered  = [p \in Publishers |-> FALSE]
    /\ wire      = [p \in Publishers |-> "none"]
    /\ applied   = [p \in Publishers |-> 0]
    /\ retained  = [t \in Topics |-> Null]
    /\ announced = {}
    /\ before    = [p \in Publishers |-> {}]

-----------------------------------------------------------------------------
(* The process.                                                            *)

At(p, l)   == pc[p] = l
Goto(p, l) == pc' = [pc EXCEPT ![p] = l]
Raise(p)   == failed' = [failed EXCEPT ![p] = TRUE]

\* The processes that ended after publishing everything.
Settled == {q \in Publishers : pc[q] = "exited" /\ ~failed[q]}

\* Mutant: one message too many.
MoreToSendOffByOne(p) == sent[p] <= Len(Script(p))

MoreToSend(p) == sent[p] < Len(Script(p))

\* Codex starts a hook, or a user or an agent the naming tool.
Start(p) ==
    /\ At(p, "idle")
    /\ Cardinality({q \in Publishers : ~At(q, "idle")}) < MaxRuns
    /\ Goto(p, "reading")
    /\ before' = [before EXCEPT ![p] = Settled]
    /\ UNCHANGED <<input, sent, failed, rc, answered, wire, broker>>

\* A hook has read a JSON object, or the naming tool its arguments.
Read(p) ==
    /\ At(p, "reading")
    /\ Goto(p, "connecting")
    /\ UNCHANGED <<input, sent, failed, rc, answered, wire, broker, before>>

\* No JSON, or no object: the hook goes on without it, and with it the name of the
\* event is lost.
ReadInvalid(p) ==
    /\ At(p, "reading")
    /\ p \in Hooks
    /\ input' = [input EXCEPT ![p] = "invalid"]
    /\ Goto(p, "connecting")
    /\ UNCHANGED <<sent, failed, rc, answered, wire, broker, before>>

\* Any other exception of json.load leaves main(), as that of an input that cannot be
\* decoded; the naming tool refuses its arguments.
ReadError(p) ==
    /\ At(p, "reading")
    /\ Goto(p, "exited")
    /\ Raise(p)
    /\ rc' = [rc EXCEPT ![p] = 1]
    /\ UNCHANGED <<input, sent, answered, wire, broker, before>>

Connect(p) ==
    /\ At(p, "connecting")
    /\ Goto(p, "sending")
    /\ UNCHANGED <<input, sent, failed, rc, answered, wire, broker, before>>

\* connect() raises outside the try: there is nothing to disconnect.
ConnectError(p) ==
    /\ At(p, "connecting")
    /\ Goto(p, "leaving")
    /\ Raise(p)
    /\ UNCHANGED <<input, sent, rc, answered, wire, broker, before>>

Send(p) ==
    /\ At(p, "sending")
    /\ MoreToSend(p)
    /\ sent' = [sent EXCEPT ![p] = @ + 1]
    /\ wire' = [wire EXCEPT ![p] = "publish"]
    /\ Goto(p, "waiting")
    /\ UNCHANGED <<input, failed, rc, answered, broker, before>>

PubAck(p) ==
    /\ At(p, "waiting")
    /\ wire[p] = "puback"
    /\ wire' = [wire EXCEPT ![p] = "none"]
    /\ Goto(p, "sending")
    /\ UNCHANGED <<input, sent, failed, rc, answered, broker, before>>

\* Mutant: a timeout while waiting for the PUBACK ends publish() silently.
PublishErrorSwallowed(p) ==
    /\ \/ At(p, "waiting")
       \/ At(p, "sending") /\ MoreToSend(p)
    /\ Goto(p, "closing")
    /\ UNCHANGED <<input, sent, failed, rc, answered, wire, broker, before>>

\* Mutant: without a socket timeout only a lost connection ends the wait.
PublishErrorNoTimeout(p) ==
    /\ \/ At(p, "waiting") /\ wire[p] = "none"
       \/ At(p, "sending") /\ MoreToSend(p)
    /\ Goto(p, "closing")
    /\ Raise(p)
    /\ UNCHANGED <<input, sent, rc, answered, wire, broker, before>>

\* The socket times out, is reset or closed by the broker: publish() raises,
\* and the finally clause is next.  What is in flight stays in flight.
PublishError(p) ==
    /\ \/ At(p, "waiting")
       \/ At(p, "sending") /\ MoreToSend(p)
    /\ Goto(p, "closing")
    /\ Raise(p)
    /\ UNCHANGED <<input, sent, rc, answered, wire, broker, before>>

\* The finally clause: everything is published, or publish() raised.
ReadyToDisconnect(p) ==
    \/ At(p, "closing")
    \/ At(p, "sending") /\ ~MoreToSend(p)

Disconnect(p) ==
    /\ ReadyToDisconnect(p)
    /\ Goto(p, "leaving")
    /\ UNCHANGED <<input, sent, failed, rc, answered, wire, broker, before>>

\* Sending DISCONNECT raises when the connection is already broken.
DisconnectError(p) ==
    /\ ReadyToDisconnect(p)
    /\ Goto(p, "leaving")
    /\ Raise(p)
    /\ UNCHANGED <<input, sent, rc, answered, wire, broker, before>>

\* A hook swallows the exception unless it is strict; the naming tool never does.
ReportsError(p) == failed[p] /\ p \in Namers \cup Strict

\* main() returns.
Exit(p) ==
    /\ At(p, "leaving")
    /\ Goto(p, "exited")
    /\ rc' = [rc EXCEPT ![p] = IF ReportsError(p) THEN 1 ELSE 0]
    /\ answered' = [answered EXCEPT ![p] =
                        p \in Hooks /\ EventRead(p) \in NeedsAnswer /\ ~ReportsError(p)]
    /\ UNCHANGED <<input, sent, failed, wire, broker, before>>

\* Codex kills a hook after ten seconds; a user interrupts the naming tool.
Kill(p) ==
    /\ pc[p] \notin {"idle", "exited", "killed"}
    /\ Goto(p, "killed")
    /\ UNCHANGED <<input, sent, failed, rc, answered, wire, broker, before>>

-----------------------------------------------------------------------------
(* The network, the broker and the desktop app.                            *)

\* The message the broker is about to take from p.
Incoming(p) == Script(p)[sent[p]]

\* The broker stores a retained message, hands any message to its subscribers
\* and acknowledges it.  The sender need not be there any more.
BrokerReceive(p) ==
    /\ wire[p] = "publish"
    /\ wire' = [wire EXCEPT ![p] = "puback"]
    /\ applied' = [applied EXCEPT ![p] = sent[p]]
    /\ retained' = IF Incoming(p).retain = "yes"
                   THEN [retained EXCEPT ![Incoming(p).topic] = p]
                   ELSE retained
    /\ announced' = IF Incoming(p).retain = "yes" THEN announced ELSE announced \cup {p}
    /\ UNCHANGED <<process, before>>

\* The packet in flight is lost with the connection.
Lose(p) ==
    /\ wire[p] # "none"
    /\ wire' = [wire EXCEPT ![p] = "none"]
    /\ UNCHANGED <<process, broker, before>>

\* The app deletes a retained document of a session with an empty payload.
Clear(t) ==
    /\ retained[t] # Null
    /\ \A p \in Publishers : t # ClientHealthTopic(p)
    /\ retained' = [retained EXCEPT ![t] = Null]
    /\ UNCHANGED <<process, wire, applied, announced, before>>

\* A process reads its standard input or its arguments.
Begin(p) == Read(p) \/ ReadInvalid(p) \/ ReadError(p)

\* What it does once it has read them; socket timeouts bound every wait.
Run(p) ==
    \/ Connect(p) \/ ConnectError(p)
    \/ Send(p) \/ PubAck(p) \/ PublishError(p)
    \/ Disconnect(p) \/ DisconnectError(p)
    \/ Exit(p)

Next ==
    \/ \E p \in Publishers : Start(p) \/ Begin(p) \/ Run(p) \/ Kill(p)
    \/ \E p \in Publishers : BrokerReceive(p) \/ Lose(p)
    \/ \E t \in Topics : Clear(t)

Fairness == \A p \in Publishers : WF_vars(Run(p))

Spec == Init /\ [][Next]_vars /\ Fairness

-----------------------------------------------------------------------------
(* Properties.                                                             *)

\* The state space: every process is at a known place, the broker has taken
\* at most what was sent to it, and retained documents have a publisher.
TypeOK ==
    /\ pc \in [Publishers -> {"idle", "reading", "connecting", "sending",
                              "waiting", "closing", "leaving", "exited", "killed"}]
    /\ input \in [Publishers -> {"valid", "invalid"}]
    /\ sent \in [Publishers -> Nat]
    /\ failed \in [Publishers -> BOOLEAN]
    /\ rc \in [Publishers -> {0, 1}]
    /\ answered \in [Publishers -> BOOLEAN]
    /\ wire \in [Publishers -> {"none", "publish", "puback"}]
    /\ applied \in [Publishers -> Nat]
    /\ retained \in [Topics -> Publishers \cup {Null}]
    /\ announced \subseteq Hooks
    /\ before \in [Publishers -> SUBSET Publishers]
    /\ \A p \in Publishers : applied[p] <= sent[p] /\ sent[p] <= Len(Script(p))

\* p has written the retained topic t.
Wrote(p, t) == \E i \in 1 .. applied[p] : Script(p)[i] = Persistent(t)

\* Subscribers see the event before the state it leads to: while a state is
\* retained, the event of the hook that published it has already gone out,
\* whatever other hooks, failures and deletions came between (publisher.py
\* publishes the event first).
StateAnnounced ==
    \A k \in Keys : retained[StateTopic(k)] # Null => retained[StateTopic(k)] \in announced

\* A retained document is never put back to that of an earlier run: once q had
\* published everything before p started, and p has written the topic, the
\* document there is not q's.  It rests on publish() blocking for the PUBACK,
\* and says nothing of a q that failed or was killed.
NoStaleOverwrite ==
    \A t \in Topics, p \in Publishers :
        Wrote(p, t) => retained[t] \notin before[p]

\* When the retained state and the retained health of a session come from two
\* hooks, either the first has not got as far as its health, or the two runs
\* overlapped: hooks that run one after the other leave one consistent pair.
SplitOnlyByOverlap ==
    \A k \in Keys, p, q \in Publishers :
        /\ retained[StateTopic(k)] = p
        /\ retained[SessionHealthTopic(k)] = q
        /\ p # q
        /\ Wrote(p, SessionHealthTopic(k))
        => p \notin before[q] /\ q \notin before[p]

\* Exit status 0 is only trusted where failures are reported: a strict hook or a
\* naming tool that returns 0 has had every one of its messages taken by the
\* broker.
SuccessMeansPublished ==
    \A p \in Namers \cup Strict :
        At(p, "exited") /\ rc[p] = 0 => applied[p] = Len(Script(p))

\* A process that has read its input ends: no wait for the broker is unbounded.  Each
\* process starts once, so in the end none is on its way.
EveryRunEnds ==
    <>[](\A p \in Publishers : pc[p] \in {"idle", "reading", "exited", "killed"})

=============================================================================
