----------------------------- MODULE Lifecycle -----------------------------
(***************************************************************************)
(* How one session ages on the desktop.                                    *)
(*                                                                         *)
(* No hook tells that a session is over.  Each event with a state carries  *)
(* three deadlines, computed by the process that publishes it from its own *)
(* environment (lifecycle_document), and the desktop app infers from them  *)
(* and from its clock what to show (inferredState): when a document        *)
(* arrives, on a timer while it is connected, and when it reconnects.  A   *)
(* session may be reported by hooks and by the JSONL adapter, some of      *)
(* whose events have neither state nor deadlines.  Documents may arrive    *)
(* late, out of order and more than once: they are retained, and hooks     *)
(* overlap.                                                                *)
(***************************************************************************)
EXTENDS Protocol, Integers, FiniteSets

CONSTANTS
    Events,       \* the hook events that occur
    Types,        \* the types of the JSONL events that occur
    Settings,     \* what publishers find in their environment: [idle, dead, exited]
    Skews,        \* how far the clocks of publishers are ahead of the app's
    MaxReports,   \* bound: how many events occur
    LastReport,   \* bound: when the last of them occurs
    MaxClock      \* bound: where the clock stops

ASSUME LifecycleAssumption ==
    /\ Events \subseteq STRING
    /\ Types \subseteq STRING
    /\ Settings \subseteq [idle : Int, dead : Int, exited : Int]
    /\ Skews \subseteq Int
    /\ MaxReports \in Nat
    /\ LastReport \in Nat
    /\ MaxClock \in Nat

VARIABLES
    clock,       \* the app's clock, in seconds
    published,   \* the documents of the session that may still arrive
    link,        \* the app's broker connection: "up", "failed" or "connecting"
    reported,    \* reportedRuntimeState: the state of the last document with one
    lifecycle,   \* its deadlines, or Null before the first one
    shown,       \* runtimeState: what the gremlin shows
    at           \* ghost: when shown was last inferred

app  == <<link, reported, lifecycle, shown, at>>
vars == <<clock, published, app>>

-----------------------------------------------------------------------------
(* The publisher.                                                          *)

Larger(a, b) == IF a >= b THEN a ELSE b

\* env_int: a number from the environment, never negative.
EnvInt(n) == Larger(n, 0)

\* Mutant: the deadlines are taken as they are configured.
LifecycleDocumentUnordered(event, ts, state, s) ==
    [ status      |-> IF StartsIdle(event, state) THEN "idle" ELSE "active",
      lastSeenAt  |-> ts,
      idleAfter   |-> IF StartsIdle(event, state) THEN ts ELSE ts + EnvInt(s.idle),
      deadAfter   |-> ts + EnvInt(s.dead),
      exitedAfter |-> ts + EnvInt(s.exited),
      by          |-> s ]

\* The deadlines, and the ghost by: the settings they were computed from.
LifecycleDocument(event, ts, state, s) ==
    LET idle   == EnvInt(s.idle)
        dead   == Larger(EnvInt(s.dead), idle)
        exited == Larger(EnvInt(s.exited), dead)
    IN  [ status      |-> IF StartsIdle(event, state) THEN "idle" ELSE "active",
          lastSeenAt  |-> ts,
          idleAfter   |-> IF StartsIdle(event, state) THEN ts ELSE ts + idle,
          deadAfter   |-> ts + dead,
          exitedAfter |-> ts + exited,
          by          |-> s ]

\* An event, as far as its state and health documents repeat it: deadlines come with
\* a state only.
NormalizedEvent(event, state, ts, s) ==
    [ state     |-> state,
      lifecycle |-> IF state = Null THEN Null ELSE LifecycleDocument(event, ts, state, s) ]

-----------------------------------------------------------------------------
(* The app.                                                                *)

\* A gremlin that wants attention keeps showing it when the session idles.
IdleDisplayState(state) ==
    IF state \in {"readyForReview", "waitingForPermission"} THEN state ELSE "idle"

\* Mutant: the deadlines are tried from the first to the last.
InferredStateIdleFirst(lc, state, now) ==
    IF now >= lc.idleAfter \/ lc.status = "idle" THEN IdleDisplayState(state)
    ELSE IF now >= lc.deadAfter THEN "dead"
    ELSE IF now >= lc.exitedAfter THEN "exited"
    ELSE state

\* Mutant: lifecycle.status is what is shown before idleAfter.
InferredStateOfStatus(lc, state, now) ==
    IF now >= lc.exitedAfter THEN "exited"
    ELSE IF now >= lc.deadAfter THEN "dead"
    ELSE IF now >= lc.idleAfter THEN IdleDisplayState(state)
    ELSE lc.status

InferredState(lc, state, now) ==
    IF now >= lc.exitedAfter THEN "exited"
    ELSE IF now >= lc.deadAfter THEN "dead"
    ELSE IF now >= lc.idleAfter \/ lc.status = "idle" THEN IdleDisplayState(state)
    ELSE state

\* refreshLifecycle, given the state and deadlines the model now has.
Infer(state, lc) ==
    /\ shown' = IF lc = Null THEN state ELSE InferredState(lc, state, clock)
    /\ at' = clock

Init ==
    /\ clock     = 0
    /\ published = {}
    /\ link      = "up"
    /\ reported  = "idle"
    /\ lifecycle = Null
    /\ shown     = "idle"
    /\ at        = 0

\* An event is published, stamped by the clock of its own host.
Report(event, state, skew, s) ==
    /\ clock <= LastReport
    /\ Cardinality(published) < MaxReports
    /\ published' = published \cup {NormalizedEvent(event, state, clock + skew, s)}
    /\ UNCHANGED <<clock, app>>

ReportHook(event, skew, s) == Report(event, HookState(event), skew, s)
ReportJsonl(type, skew, s) == Report(type, JsonlState(type), skew, s)

\* What a document leaves in place of an old value.
Given(value, old) == IF value = Null THEN old ELSE value

\* A state or health document arrives, the latest or an older one; one without a
\* state is decoded as health.
Receive(doc) ==
    /\ link = "up"
    /\ reported'  = Given(doc.state, reported)
    /\ lifecycle' = Given(doc.lifecycle, lifecycle)
    /\ Infer(reported', lifecycle')
    /\ UNCHANGED <<clock, published, link>>

\* Mutant: the timer shows the reported state again.
RefreshReported ==
    /\ link = "up"
    /\ shown' = reported
    /\ at' = clock
    /\ UNCHANGED <<clock, published, link, reported, lifecycle>>

\* The liveness timer fires.
Refresh ==
    /\ link = "up"
    /\ Infer(reported, lifecycle)
    /\ UNCHANGED <<clock, published, link, reported, lifecycle>>

\* The connection is lost, or a new one cannot be made.
ConnectionFailed ==
    /\ link # "failed"
    /\ link' = "failed"
    /\ shown' = "error"
    /\ UNCHANGED <<clock, published, reported, lifecycle, at>>

\* The retry timer fires, or the user chooses Reconnect.
Reconnect ==
    /\ link' = "connecting"
    /\ shown' = "starting"
    /\ UNCHANGED <<clock, published, reported, lifecycle, at>>

\* CONNACK arrives, on a new connection or on one that was waiting.
Connected ==
    /\ link # "up"
    /\ link' = "up"
    /\ Infer(reported, lifecycle)
    /\ UNCHANGED <<clock, published, reported, lifecycle>>

Tick ==
    /\ clock < MaxClock
    /\ clock' = clock + 1
    /\ UNCHANGED <<published, app>>

Next ==
    \/ \E event \in Events, skew \in Skews, s \in Settings : ReportHook(event, skew, s)
    \/ \E type \in Types, skew \in Skews, s \in Settings : ReportJsonl(type, skew, s)
    \/ \E doc \in published : Receive(doc)
    \/ Refresh \/ ConnectionFailed \/ Reconnect \/ Connected \/ Tick

Spec == Init /\ [][Next]_vars /\ WF_vars(Tick) /\ WF_vars(Refresh)

-----------------------------------------------------------------------------
(* Properties.                                                             *)

Deadlines == [status : {"active", "idle"}, lastSeenAt : Int, idleAfter : Int,
              deadAfter : Int, exitedAfter : Int, by : Settings]
Documents == [state : SessionStates, lifecycle : Deadlines]
                \cup [state : {Null}, lifecycle : {Null}]
Displays  == SessionStates \cup {"idle", "dead", "exited"}

\* Documents carry a known state and deadlines; what is shown is a state the app
\* can draw.
TypeOK ==
    /\ clock \in Nat
    /\ published \subseteq Documents
    /\ link \in {"up", "failed", "connecting"}
    /\ reported \in SessionStates \cup {"idle"}
    /\ lifecycle \in Deadlines \cup {Null}
    /\ shown \in Displays
    /\ at \in 0 .. clock

\* No gremlin is given up early: it is shown dead or exited only when the idle and
\* the dead time of the very publisher whose document it shows have passed since
\* that event, and exited only when its exited time has passed too, in whatever order
\* they are configured and however late, often and disordered documents come.  The
\* time is counted on the app's clock from the publisher's stamp: where the
\* publisher's clock is behind, the gremlin is given up earlier by as much.
NotGivenUpEarly ==
    link = "up" /\ shown \in {"dead", "exited"} =>
        LET passed == clock - lifecycle.lastSeenAt
            by     == lifecycle.by
        IN  /\ passed >= EnvInt(by.idle) /\ passed >= EnvInt(by.dead)
            /\ shown = "exited" => passed >= EnvInt(by.exited)

Age(display) ==
    CASE display = "exited" -> 3
      [] display = "dead"   -> 2
      [] display = "idle"   -> 1
      [] OTHER              -> 0

\* The timer only makes a gremlin older: it never brings back one that is dead,
\* wakes one that is idle, or undoes an exit.
OnlyAges == [][Refresh => Age(shown') >= Age(shown)]_vars

\* A session that says no more is in the end shown as exited, if the connection
\* holds: nothing but the deadlines tells the app that it is over.
SilentSessionsExit ==
    (<>[](link = "up") /\ <>[](lifecycle # Null)) => <>[](shown = "exited")

\* At or after idleAfter, and before deadAfter: show idle.
IdleIsShown ==
    link = "up" /\ lifecycle # Null =>
        (at >= lifecycle.idleAfter /\ at < lifecycle.deadAfter => shown = "idle")

=============================================================================
