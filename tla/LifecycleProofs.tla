-------------------------- MODULE LifecycleProofs --------------------------
(***************************************************************************)
(* What Lifecycle promises for any deadlines, clocks and events: what is   *)
(* shown is always what the deadlines of the last document said at a       *)
(* moment not later than now, and the later the moment, the older the      *)
(* gremlin.                                                                *)
(***************************************************************************)
EXTENDS Lifecycle, TLAPS

\* Deadlines in order, that give at least the time of the settings they come from.
Grants(lc) ==
    /\ lc.exitedAfter >= lc.deadAfter
    /\ lc.deadAfter - lc.lastSeenAt >= EnvInt(lc.by.idle)
    /\ lc.deadAfter - lc.lastSeenAt >= EnvInt(lc.by.dead)
    /\ lc.exitedAfter - lc.lastSeenAt >= EnvInt(lc.by.exited)

\* All deadlines around are of that kind.
Granted ==
    /\ \A doc \in published : doc.lifecycle # Null => Grants(doc.lifecycle)
    /\ lifecycle # Null => Grants(lifecycle)

\* The display is what was inferred at the moment at.
Inferred ==
    link = "up" =>
        shown = IF lifecycle = Null THEN reported ELSE InferredState(lifecycle, reported, at)

AInv == TypeOK /\ Granted /\ Inferred

-----------------------------------------------------------------------------
(* Lemmas about documents and displays.                                    *)

\* What is published is a document, and lifecycle_document returns deadlines, in
\* order, that grant the configured times.
LEMMA EventsAreDocuments ==
    ASSUME NEW event, NEW state \in SessionStates \cup {Null}, NEW ts \in Int,
           NEW s \in Settings
    PROVE  LET doc == NormalizedEvent(event, state, ts, s)
           IN  doc \in Documents /\ (doc.lifecycle # Null => Grants(doc.lifecycle))
<1> DEFINE lc == LifecycleDocument(event, ts, state, s)
<1>1. s.idle \in Int /\ s.dead \in Int /\ s.exited \in Int
  BY LifecycleAssumption
<1>2. lc \in Deadlines
  BY <1>1 DEF LifecycleDocument, Deadlines, EnvInt, Larger
<1>3. Grants(lc)
  BY <1>1 DEF LifecycleDocument, EnvInt, Larger, Grants
<1>4. CASE state = Null
  BY <1>4 DEF NormalizedEvent, Documents
<1>5. CASE state # Null
  <2>1. NormalizedEvent(event, state, ts, s) = [state |-> state, lifecycle |-> lc]
    BY <1>5 DEF NormalizedEvent
  <2> QED
    BY <1>2, <1>3, <1>5, <2>1 DEF Documents
<1> QED
  BY <1>4, <1>5

\* inferredState returns a state that can be drawn.
LEMMA InferredDisplays ==
    ASSUME NEW lc, NEW state \in SessionStates \cup {"idle"}, NEW now
    PROVE  InferredState(lc, state, now) \in Displays
BY DEF InferredState, IdleDisplayState, Displays, SessionStates

\* The same document looks no younger later.
LEMMA LaterIsOlder ==
    ASSUME NEW lc \in Deadlines, NEW state \in SessionStates \cup {"idle"},
           NEW t \in Int, NEW u \in Int, t <= u
    PROVE  Age(InferredState(lc, state, u)) >= Age(InferredState(lc, state, t))
<1>1. ASSUME NEW now \in Int
      PROVE  Age(InferredState(lc, state, now)) =
                     IF now >= lc.exitedAfter THEN 3
                     ELSE IF now >= lc.deadAfter THEN 2
                     ELSE IF now >= lc.idleAfter \/ lc.status = "idle"
                          THEN Age(IdleDisplayState(state))
                     ELSE Age(state)
  BY DEF InferredState, IdleDisplayState, Age, SessionStates
<1>2. /\ lc.exitedAfter \in Int /\ lc.deadAfter \in Int /\ lc.idleAfter \in Int
      /\ t >= lc.exitedAfter => u >= lc.exitedAfter
      /\ t >= lc.deadAfter => u >= lc.deadAfter
      /\ t >= lc.idleAfter => u >= lc.idleAfter
  BY DEF Deadlines
<1>3. /\ Age(IdleDisplayState(state)) \in {0, 1}
      /\ Age(IdleDisplayState(state)) >= Age(state)
  BY DEF IdleDisplayState, Age, SessionStates
<1>4. Age(state) \in {0, 1}
  BY DEF Age, SessionStates
<1> HIDE DEF Age
<1> QED
  BY <1>1, <1>2, <1>3, <1>4

-----------------------------------------------------------------------------
(* The invariant.                                                          *)

\* Every action keeps the invariant: what is shown is inferred anew whenever the
\* document or the moment changes, and what arrives was published.
LEMMA AgingStep == AInv /\ [Next]_vars => AInv'
<1> SUFFICES ASSUME AInv, [Next]_vars PROVE AInv'
  OBVIOUS
<1> USE DEF AInv
<1>1. CASE UNCHANGED vars
  BY <1>1 DEF vars, app, TypeOK, Granted, Inferred
<1>2. ASSUME NEW event, NEW state \in SessionStates \cup {Null}, NEW skew \in Skews,
             NEW s \in Settings, Report(event, state, skew, s)
      PROVE  AInv'
  <2>1. clock + skew \in Int
    BY LifecycleAssumption DEF TypeOK
  <2> DEFINE doc == NormalizedEvent(event, state, clock + skew, s)
  <2>2. published' = published \cup {doc} /\ UNCHANGED <<clock, app>>
    BY <1>2 DEF Report
  <2>3. doc \in Documents /\ (doc.lifecycle # Null => Grants(doc.lifecycle))
    BY <2>1, EventsAreDocuments
  <2> HIDE DEF doc
  <2>4. TypeOK'
    BY <2>2, <2>3 DEF TypeOK, app
  <2>5. Granted'
    BY <2>2, <2>3 DEF Granted, app
  <2> QED
    BY <2>2, <2>4, <2>5 DEF Inferred, app
<1>3. ASSUME NEW doc \in published, Receive(doc) PROVE AInv'
  <2>1. doc \in Documents
    BY DEF TypeOK
  <2>2. /\ reported' \in SessionStates \cup {"idle"}
        /\ lifecycle' \in Deadlines \cup {Null}
        /\ lifecycle' # Null => Grants(lifecycle')
    BY <1>3, <2>1 DEF Receive, Given, Documents, TypeOK, Granted
  <2>3. reported' \in Displays /\ InferredState(lifecycle', reported', clock) \in Displays
    BY <2>2, InferredDisplays DEF Displays
  <2>4. /\ shown' = IF lifecycle' = Null THEN reported'
                    ELSE InferredState(lifecycle', reported', clock)
        /\ at' = clock
        /\ UNCHANGED <<clock, published, link>>
    BY <1>3 DEF Receive, Infer
  <2>5. TypeOK'
    BY <2>2, <2>3, <2>4 DEF TypeOK
  <2>6. Granted'
    BY <2>2, <2>4 DEF Granted
  <2> QED
    BY <2>4, <2>5, <2>6 DEF Inferred
<1>4. ASSUME Infer(reported, lifecycle), UNCHANGED <<clock, published, reported, lifecycle>>,
             link' \in {"up", link}
      PROVE  AInv'
  <2>1. reported \in Displays /\ InferredState(lifecycle, reported, clock) \in Displays
    BY InferredDisplays DEF Displays, TypeOK
  <2> QED
    BY <1>4, <2>1 DEF Infer, TypeOK, Granted, Inferred
<1>5. CASE Refresh
  BY <1>4, <1>5 DEF Refresh
<1>6. CASE Connected
  BY <1>4, <1>6 DEF Connected
<1>7. CASE ConnectionFailed \/ Reconnect
  <2>1. "error" \in Displays /\ "starting" \in Displays
    BY DEF Displays, SessionStates
  <2> QED
    BY <1>7, <2>1 DEF ConnectionFailed, Reconnect, TypeOK, Granted, Inferred
<1>8. CASE Tick
  BY <1>8 DEF Tick, app, TypeOK, Granted, Inferred
<1>9. ASSUME NEW event \in Events, NEW skew \in Skews, NEW s \in Settings,
             ReportHook(event, skew, s)
      PROVE  AInv'
  <2>1. HookState(event) \in SessionStates \cup {Null}
    BY DEF HookState, SessionStates
  <2> QED
    BY <1>2, <1>9, <2>1 DEF ReportHook
<1>10. ASSUME NEW type \in Types, NEW skew \in Skews, NEW s \in Settings,
              ReportJsonl(type, skew, s)
       PROVE  AInv'
  <2>1. JsonlState(type) \in SessionStates \cup {Null}
    BY DEF JsonlState, SessionStates
  <2> QED
    BY <1>2, <1>10, <2>1 DEF ReportJsonl
<1> QED
  BY <1>1, <1>3, <1>5, <1>6, <1>7, <1>8, <1>9, <1>10 DEF Next

\* The inductive invariant of the display.
THEOREM Aging == Spec => []AInv
<1>1. Init => AInv
  BY DEF Init, AInv, TypeOK, Granted, Inferred, Displays, SessionStates
<1> QED
  BY <1>1, AgingStep, PTL DEF Spec

-----------------------------------------------------------------------------
(* The theorems.                                                           *)

\* Documents and displays are those the app can decode and draw (Models.swift).
THEOREM AgingTypes == Spec => []TypeOK
BY Aging, PTL DEF AInv

\* No gremlin is shown dead before the idle and the dead time that its own publisher
\* found configured have passed since the event, nor exited before its exited time
\* has, however the three are configured (lifecycle_document, inferredState).
THEOREM NotGivenUp == Spec => []NotGivenUpEarly
<1>1. AInv => NotGivenUpEarly
  <2> SUFFICES ASSUME AInv, link = "up", shown \in {"dead", "exited"}
               PROVE  LET passed == clock - lifecycle.lastSeenAt
                          by     == lifecycle.by
                      IN  /\ passed >= EnvInt(by.idle) /\ passed >= EnvInt(by.dead)
                          /\ shown = "exited" => passed >= EnvInt(by.exited)
    BY DEF NotGivenUpEarly
  <2>1. shown = IF lifecycle = Null THEN reported ELSE InferredState(lifecycle, reported, at)
    BY DEF AInv, Inferred
  <2>2. reported \notin {"dead", "exited"}
    BY DEF AInv, TypeOK, SessionStates
  <2>3. lifecycle # Null /\ lifecycle \in Deadlines /\ Grants(lifecycle)
    BY <2>1, <2>2 DEF AInv, TypeOK, Granted
  <2>4. shown = InferredState(lifecycle, reported, at)
    BY <2>1, <2>3
  <2>5. /\ at >= lifecycle.exitedAfter \/ at >= lifecycle.deadAfter
        /\ shown = "exited" => at >= lifecycle.exitedAfter
    BY <2>2, <2>4 DEF InferredState, IdleDisplayState
  <2>6. at \in Int /\ clock \in Int /\ at <= clock
    BY DEF AInv, TypeOK
  <2>7. lifecycle.by \in Settings
    BY <2>3 DEF Deadlines
  <2>8. /\ EnvInt(lifecycle.by.idle) \in Int
        /\ EnvInt(lifecycle.by.dead) \in Int
        /\ EnvInt(lifecycle.by.exited) \in Int
    BY <2>7, LifecycleAssumption DEF Larger, EnvInt
  <2> QED
    BY <2>3, <2>5, <2>6, <2>8 DEF Deadlines, Grants
<1> QED
  BY <1>1, Aging, PTL

\* The timer only makes a gremlin older: refreshLifecycle never brings back one that
\* is dead, wakes one that is idle, or undoes an exit.
THEOREM OnlyGetsOlder == Spec => OnlyAges
<1>1. ASSUME AInv, Refresh PROVE Age(shown') >= Age(shown)
  <2>1. CASE lifecycle = Null
    <3>1. shown' = shown /\ Age(shown) \in 0 .. 3
      BY <1>1, <2>1 DEF Refresh, Infer, AInv, Inferred, Age
    <3> QED
      BY <3>1
  <2>2. CASE lifecycle # Null
    <3>1. /\ shown = InferredState(lifecycle, reported, at)
          /\ shown' = InferredState(lifecycle, reported, clock)
      BY <1>1, <2>2 DEF Refresh, Infer, AInv, Inferred
    <3>2. /\ lifecycle \in Deadlines
          /\ reported \in SessionStates \cup {"idle"}
          /\ at \in Int /\ clock \in Int /\ at <= clock
      BY <1>1, <2>2 DEF AInv, TypeOK
    <3> QED
      BY <3>1, <3>2, LaterIsOlder
  <2> QED
    BY <2>1, <2>2
<1>2. AInv /\ [Next]_vars => [Refresh => Age(shown') >= Age(shown)]_vars
  BY <1>1
<1> QED
  BY <1>2, Aging, PTL DEF Spec, OnlyAges

=============================================================================
