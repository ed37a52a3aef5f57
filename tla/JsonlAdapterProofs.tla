------------------------- MODULE JsonlAdapterProofs -------------------------
(***************************************************************************)
(* The JSONL adapter is two pipes, for any lines, threads and faults: the  *)
(* stream it passes on and the documents it publishes are prefixes of what *)
(* there was to pass on and to publish.  And its exit status 0 can be      *)
(* relied on.                                                              *)
(*                                                                         *)
(* What is passed on and what is still in the buffer are together a prefix *)
(* of the input, of exactly the lines read as long as nothing was raised.  *)
(* What is published and what is still to do are together what is due,     *)
(* except that the document whose PUBACK is on its way is in both.         *)
(***************************************************************************)
EXTENDS JsonlAdapter, SequenceLemmas

\* What holds at the places of main().
Phase ==
    /\ pc = "start" => /\ session = Null /\ taken = 0 /\ todo = << >>
                       /\ published = << >> /\ due = << >>
    /\ pc \in {"start", "draining"} => link = "none"
    /\ pc \in {"start", "draining", "publishing", "waiting", "reading"} => outcome = "ok"
    /\ pc \in {"publishing", "reading"} => wire = "none"
    /\ pc = "exited" => buffer = << >>
    /\ pc \in {"closing", "leaving"} /\ outcome = "ok" => AtEof /\ todo = << >>

\* The thread that main() remembers is that of the lines read.
Remembered ==
    pc \in {"publishing", "waiting", "reading"} => session = ThreadAt(taken)

Passing ==
    /\ IsPrefix(out \o buffer, input)
    /\ Len(out \o buffer) <= taken
    /\ passthrough = "yes" /\ outcome = "ok" /\ Running => Len(out \o buffer) = taken

Owed ==
    \/ wire # "puback" /\ due = published \o todo
    \/ /\ wire # "publish" /\ pc # "publishing" /\ todo # << >>
       /\ due = published \o Tail(todo)

\* Exit status 0, with what keeps it true.
Truth ==
    pc = "exited" /\ rc = 0 =>
        /\ AtEof
        /\ passthrough = "yes" => out = input
        /\ link # "none" => published = due /\ todo = << >>

JInv == TypeOK /\ Phase /\ Remembered /\ Passing /\ Owed /\ Truth

-----------------------------------------------------------------------------
(* Lemmas about lines and documents.                                       *)

\* A type field gives a session state or none (_jsonl_state).
LEMMA StatesOfTypes == \A t : JsonlState(t) \in SessionStates \cup {Null}
BY DEF JsonlState, SessionStates

\* The documents of a line are documents (normalize_jsonl_event, state_document).
LEMMA DocumentTypes ==
    ASSUME NEW l \in Lines, NEW thread \in DOMAIN Segment \cup {Null}
    PROVE  Documents(l, thread) \in Seq(DocumentSet) /\ Documents(l, thread) # << >>
<1>1. SessionOf(thread) \in {"none", "unknown"} \cup {Segment[t] : t \in DOMAIN Segment}
  BY DEF SessionOf
<1> DEFINE event == Event(l, thread)
<1>2. event \in DocumentSet
  BY <1>1, StatesOfTypes DEF Event, DocumentSet
<1>3. [event EXCEPT !.type = "state"] \in DocumentSet /\ [event EXCEPT !.type = "health"] \in DocumentSet
  BY <1>2 DEF DocumentSet
<1>4. CASE event.state = Null
  <2>1. Documents(l, thread) = << event >>
    BY <1>4 DEF Documents
  <2> HIDE DEF event
  <2> QED
    BY <1>2, <2>1
<1>5. CASE event.state # Null
  <2>1. Documents(l, thread)
          = << event, [event EXCEPT !.type = "state"], [event EXCEPT !.type = "health"] >>
    BY <1>5 DEF Documents
  <2> DEFINE a == [event EXCEPT !.type = "state"]
  <2> DEFINE b == [event EXCEPT !.type = "health"]
  <2>2. a \in DocumentSet /\ b \in DocumentSet /\ Documents(l, thread) = << event, a, b >>
    BY <1>3, <2>1
  <2> HIDE DEF event, a, b
  <2> QED
    BY <1>2, <2>2
<1> QED
  BY <1>4, <1>5

\* The client health document (health_document).
LEMMA HealthIsDocument == Health \in DocumentSet
BY DEF Health, DocumentSet

\* No line has been read.
LEMMA NoThread == ThreadAt(0) = Null
BY DEF ThreadAt, Naming

\* Reading one more line changes the current thread only if it names one
\* (normalize_jsonl_event, the session_id of main).
LEMMA NextThread ==
    ASSUME NEW i \in Nat
    PROVE  ThreadAt(i + 1) =
             IF Shape[input[i + 1]] = "object" /\ Thread[input[i + 1]] # Null
             THEN Thread[input[i + 1]] ELSE ThreadAt(i)
<1>1. CASE Shape[input[i + 1]] = "object" /\ Thread[input[i + 1]] # Null
  <2>1. i + 1 \in Naming(i + 1) /\ \A k \in Naming(i + 1) : k \in Int /\ k <= i + 1
    BY <1>1 DEF Naming
  <2>2. LastNaming(i + 1) = {i + 1}
    BY <2>1 DEF LastNaming
  <2> DEFINE thread == Thread[input[i + 1]]
  <2>3. {Thread[input[j]] : j \in LastNaming(i + 1)} = {thread}
    BY <2>2
  <2>4. ThreadAt(i + 1) = CHOOSE t \in {thread} : TRUE
    BY <2>1, <2>3 DEF ThreadAt
  <2> HIDE DEF thread
  <2>5. (CHOOSE t \in {thread} : TRUE) = thread
    OBVIOUS
  <2>6. ThreadAt(i + 1) = thread
    BY <2>4, <2>5
  <2> QED
    BY <1>1, <2>6 DEF thread
<1>2. CASE ~(Shape[input[i + 1]] = "object" /\ Thread[input[i + 1]] # Null)
  <2>1. Naming(i + 1) = Naming(i)
    BY <1>2 DEF Naming
  <2>2. LastNaming(i + 1) = LastNaming(i)
    BY <2>1 DEF LastNaming
  <2>3. {Thread[input[j]] : j \in LastNaming(i + 1)} = {Thread[input[j]] : j \in LastNaming(i)}
    BY <2>2
  <2> DEFINE threads == {Thread[input[j]] : j \in LastNaming(i)}
  <2>4. ThreadAt(i) = IF Naming(i) = {} THEN Null ELSE CHOOSE t \in threads : TRUE
    BY DEF ThreadAt
  <2>5. ThreadAt(i + 1) = IF Naming(i) = {} THEN Null ELSE CHOOSE t \in threads : TRUE
    <3>1. ThreadAt(i + 1) = IF Naming(i + 1) = {} THEN Null
            ELSE CHOOSE t \in {Thread[input[j]] : j \in LastNaming(i + 1)} : TRUE
      BY DEF ThreadAt
    <3> QED
      BY <2>1, <2>3, <3>1
  <2> HIDE DEF threads
  <2> QED
    BY <1>2, <2>4, <2>5
<1> QED
  BY <1>1, <1>2

\* Lines written later do not change what was current before.
LEMMA ThreadKept ==
    ASSUME TypeOK, NEW l \in Lines, input' = Append(input, l), UNCHANGED taken
    PROVE  ThreadAt(taken)' = ThreadAt(taken)
<1>1. taken \in 0 .. Len(input) /\ Len(input) \in Nat
  BY LenProperties DEF TypeOK
<1>2. \A j \in 1 .. taken : input'[j] = input[j]
  BY <1>1, AppendProperties DEF TypeOK
<1>3. Naming(taken)' = Naming(taken)
  BY <1>2 DEF Naming
<1>4. LastNaming(taken)' = LastNaming(taken)
  BY <1>3 DEF LastNaming
<1>5. \A j \in LastNaming(taken) : input'[j] = input[j]
  BY <1>2 DEF LastNaming, Naming
<1>6. {Thread[input[j]] : j \in LastNaming(taken)}' = {Thread[input[j]] : j \in LastNaming(taken)}
  BY <1>4, <1>5
<1>7. CASE Naming(taken) = {}
  BY <1>3, <1>7 DEF ThreadAt
<1>8. CASE Naming(taken) # {}
  <2>1. ThreadAt(taken) = CHOOSE t \in {Thread[input[j]] : j \in LastNaming(taken)} : TRUE
    BY <1>8 DEF ThreadAt
  <2>2. ThreadAt(taken)' = CHOOSE t \in {Thread[input[j]] : j \in LastNaming(taken)}' : TRUE
    BY <1>3, <1>8 DEF ThreadAt
  <2> QED
    BY <2>1, <2>2, <1>6
<1> QED
  BY <1>7, <1>8

-----------------------------------------------------------------------------
(* Type correctness.                                                       *)

USE DEF agent, control, stdout, broker, ghosts

\* What main() makes of a JSON object is what is due for it.
LEMMA NormalizeMeans ==
    ASSUME JInv, Normalize
    PROVE  /\ session' = ThreadAt(taken + 1)
           /\ session' \in DOMAIN Segment \cup {Null}
           /\ todo' = Documents(Line, session')
           /\ due' = due \o todo'
           /\ Line \in Lines
<1>1. taken \in Nat /\ Len(input) \in Nat /\ taken + 1 \in 1 .. Len(input)
  BY LenProperties DEF JInv, TypeOK, Normalize, HasLine
<1>2. Line \in Lines
  BY <1>1, ElementOfSeq DEF JInv, TypeOK, Line
<1>3. session = ThreadAt(taken)
  BY DEF JInv, Remembered, Normalize
<1>4. session' = IF Thread[Line] = Null THEN session ELSE Thread[Line]
  BY DEF Normalize, Latest
<1>5. Shape[input[taken + 1]] = "object"
  BY DEF Normalize, Line
<1>6. session' = ThreadAt(taken + 1)
  BY <1>1, <1>3, <1>4, <1>5, NextThread DEF Line
<1>7. session' \in DOMAIN Segment \cup {Null}
  BY <1>2, <1>4, JsonlAdapterAssumption DEF JInv, TypeOK
<1>8. todo' = Documents(Line, session')
  BY DEF Normalize
<1>9. DocumentsDue(taken + 1) = todo'
  BY <1>5, <1>6, <1>8 DEF DocumentsDue, Line
<1> QED
  BY <1>2, <1>6, <1>7, <1>8, <1>9 DEF Normalize, Take

\* The line read next, and standard output with it.
LEMMA EchoTypes ==
    ASSUME TypeOK, HasLine
    PROVE  /\ Line \in Lines
           /\ Append(buffer, Line) \in Seq(Lines)
           /\ taken + 1 \in 0 .. Len(input)
<1>1. taken \in Nat /\ Len(input) \in Nat /\ taken + 1 \in 1 .. Len(input)
  BY LenProperties DEF TypeOK, HasLine
<1>2. Line \in Lines
  BY <1>1, ElementOfSeq DEF TypeOK, Line
<1> QED
  BY <1>1, <1>2, AppendProperties DEF TypeOK

\* The end of the process.
LEMMA ExitTypes ==
    ASSUME TypeOK, NEW status \in {0, 1}, Exit(status)
    PROVE  /\ out' \in Seq(Lines) /\ buffer' \in Seq(Lines)
           /\ rc' \in {0, 1, 120} /\ pc' = "exited"
<1>1. out \o buffer \in Seq(Lines) /\ << >> \in Seq(Lines)
  BY ConcatProperties, EmptySeq DEF TypeOK
<1> QED
  BY <1>1 DEF TypeOK, Exit

\* Every step keeps the types.
LEMMA TypeStep ==
    ASSUME JInv, [Next]_vars
    PROVE  TypeOK'
<1> USE DEF JInv
<1>1. ASSUME NEW l \in Lines, Write(l) PROVE TypeOK'
  <2>1. input' \in Seq(Lines) /\ Len(input') = Len(input) + 1 /\ Len(input) \in Nat
    BY <1>1, AppendProperties, LenProperties DEF TypeOK, Write
  <2> QED
    BY <1>1, <2>1 DEF TypeOK, Write
<1>2. CASE Close
  BY <1>2 DEF TypeOK, Close
<1>3. CASE SettingsError
  BY <1>3, ExitTypes DEF TypeOK, SettingsError
<1>4. CASE ConnectFails
  BY <1>4 DEF TypeOK, ConnectFails
<1>5. CASE Connect
  <2>1. << Health >> \in Seq(DocumentSet) /\ << Health >> # << >>
    BY HealthIsDocument
  <2> QED
    BY <1>5, <2>1 DEF TypeOK, Connect
<1>6. CASE Drain
  BY <1>6, EchoTypes DEF TypeOK, Drain, Echo
<1>7. CASE DrainEnds
  BY <1>7, ExitTypes DEF TypeOK, DrainEnds
<1>8. CASE Skip
  <2>1. DocumentsDue(taken + 1) = << >>
    BY <1>8 DEF Skip, Line, DocumentsDue
  <2>2. due' = due
    BY <1>8, <2>1, ConcatEmptySeq DEF TypeOK, Skip, Take
  <2> QED
    BY <1>8, <2>2, EchoTypes DEF TypeOK, Skip, Echo, Take
<1>9. CASE Normalize
  <2>1. todo' \in Seq(DocumentSet) /\ todo' # << >>
    BY <1>9, NormalizeMeans, DocumentTypes
  <2>2. due' \in Seq(DocumentSet)
    <3>1. due' = due \o todo'
      BY <1>9, NormalizeMeans
    <3>2. due \in Seq(DocumentSet)
      BY DEF TypeOK
    <3> QED
      BY <2>1, <3>1, <3>2, ConcatProperties
  <2>3. session' \in DOMAIN Segment \cup {Null}
    BY <1>9, NormalizeMeans
  <2>4. buffer' \in Seq(Lines) /\ taken' \in 0 .. Len(input)
    BY <1>9, EchoTypes DEF TypeOK, Normalize, Echo, Take
  <2>5. /\ pc' = "publishing"
        /\ UNCHANGED <<passthrough, input, closed, outcome, rc, out, link, wire, quiet, published, faults>>
    BY <1>9 DEF Normalize
  <2> QED
    BY <2>1, <2>2, <2>3, <2>4, <2>5 DEF TypeOK
<1>10. CASE WriteError
  BY <1>10, EchoTypes DEF TypeOK, WriteError
<1>11. CASE Eof
  BY <1>11 DEF TypeOK, Eof
<1>12. CASE Send
  BY <1>12 DEF TypeOK, Send
<1>13. CASE PubAck
  <2>1. todo # << >> /\ Tail(todo) \in Seq(DocumentSet)
    BY <1>13, HeadTailProperties DEF TypeOK, PubAck
  <2> QED
    BY <1>13, <2>1 DEF TypeOK, PubAck
<1>14. CASE PublishError
  BY <1>14 DEF TypeOK, PublishError
<1>15. CASE PublishTimeout
  BY <1>15 DEF TypeOK, PublishTimeout
<1>16. CASE Disconnect
  BY <1>16 DEF TypeOK, Disconnect
<1>17. CASE DisconnectError
  BY <1>17 DEF TypeOK, DisconnectError
<1>18. CASE Leave
  <2>1. (IF outcome = "ok" THEN 0 ELSE 1) \in {0, 1}
    OBVIOUS
  <2> DEFINE status == IF outcome = "ok" THEN 0 ELSE 1
  <2>2. status \in {0, 1} /\ Exit(status)
    BY <1>18, <2>1 DEF Leave
  <2> HIDE DEF status
  <2> QED
    BY <1>18, <2>2, ExitTypes DEF TypeOK, Leave
<1>19. CASE Flush
  BY <1>19, ConcatProperties, EmptySeq DEF TypeOK, Flush
<1>20. CASE Kill
  BY <1>20, EmptySeq DEF TypeOK, Kill
<1>21. CASE ReaderLeaves
  BY <1>21 DEF TypeOK, ReaderLeaves
<1>22. CASE BrokerTake
  <2>1. todo # << >> /\ Head(todo) \in DocumentSet
    BY <1>22, HeadTailProperties DEF TypeOK, BrokerTake
  <2>2. published' \in Seq(DocumentSet)
    BY <1>22, <2>1, AppendProperties DEF TypeOK, BrokerTake
  <2> QED
    BY <1>22, <2>1, <2>2, JsonlAdapterAssumption DEF TypeOK, BrokerTake
<1>23. CASE Tick
  BY <1>23, JsonlAdapterAssumption DEF TypeOK, Tick
<1>24. CASE BrokerDrops
  BY <1>24 DEF TypeOK, BrokerDrops
<1>25. CASE NetworkBreaks
  BY <1>25 DEF TypeOK, NetworkBreaks
<1>26. CASE UNCHANGED vars
  BY <1>26 DEF TypeOK, vars
<1> QED
  BY <1>1, <1>2, <1>3, <1>4, <1>5, <1>6, <1>7, <1>8, <1>9, <1>10, <1>11, <1>12, <1>13,
     <1>14, <1>15, <1>16, <1>17, <1>18, <1>19, <1>20, <1>21, <1>22, <1>23, <1>24,
     <1>25, <1>26 DEF Next, Run

-----------------------------------------------------------------------------
(* The places of main().                                                   *)

\* Every step keeps what is known at the places of main().
LEMMA PhaseStep ==
    ASSUME JInv, [Next]_vars
    PROVE  Phase'
<1> USE DEF JInv
<1>1. ASSUME NEW l \in Lines, Write(l) PROVE Phase'
  BY <1>1 DEF Phase, Write, AtEof
<1>2. CASE Close
  BY <1>2 DEF Phase, Close, AtEof
<1>3. CASE SettingsError
  BY <1>3 DEF Phase, SettingsError, Exit
<1>4. CASE ConnectFails
  BY <1>4 DEF Phase, ConnectFails
<1>5. CASE Connect
  BY <1>5 DEF Phase, Connect, TypeOK
<1>6. CASE Drain
  BY <1>6 DEF Phase, Drain
<1>7. CASE DrainEnds
  BY <1>7 DEF Phase, DrainEnds, Exit
<1>8. CASE Skip
  BY <1>8 DEF Phase, Skip
<1>9. CASE Normalize
  BY <1>9 DEF Phase, Normalize
<1>10. CASE WriteError
  BY <1>10 DEF Phase, WriteError
<1>11. CASE Eof
  BY <1>11 DEF Phase, Eof, AtEof, HasLine, TypeOK
<1>12. CASE Send
  BY <1>12 DEF Phase, Send
<1>13. CASE PubAck
  BY <1>13 DEF Phase, PubAck
<1>14. CASE PublishError
  BY <1>14 DEF Phase, PublishError
<1>15. CASE PublishTimeout
  BY <1>15 DEF Phase, PublishTimeout
<1>16. CASE Disconnect
  BY <1>16 DEF Phase, Disconnect, AtEof, HasLine
<1>17. CASE DisconnectError
  BY <1>17 DEF Phase, DisconnectError
<1>18. CASE Leave
  BY <1>18 DEF Phase, Leave, Exit
<1>19. CASE Flush
  BY <1>19 DEF Phase, Flush, AtEof, HasLine
<1>20. CASE Kill
  BY <1>20 DEF Phase, Kill
<1>21. CASE ReaderLeaves
  BY <1>21 DEF Phase, ReaderLeaves, AtEof, HasLine
<1>22. CASE BrokerTake
  BY <1>22 DEF Phase, BrokerTake, AtEof, HasLine, TypeOK
<1>23. CASE Tick
  BY <1>23 DEF Phase, Tick, AtEof, HasLine
<1>24. CASE BrokerDrops
  BY <1>24 DEF Phase, BrokerDrops, AtEof, HasLine
<1>25. CASE NetworkBreaks
  BY <1>25 DEF Phase, NetworkBreaks, AtEof, HasLine
<1>26. CASE UNCHANGED vars
  BY <1>26 DEF Phase, vars, AtEof, HasLine
<1> QED
  BY <1>1, <1>2, <1>3, <1>4, <1>5, <1>6, <1>7, <1>8, <1>9, <1>10, <1>11, <1>12, <1>13,
     <1>14, <1>15, <1>16, <1>17, <1>18, <1>19, <1>20, <1>21, <1>22, <1>23, <1>24,
     <1>25, <1>26 DEF Next, Run

\* main() remembers the thread that is current (jsonl_adapter.py, session_id).
LEMMA RememberedStep ==
    ASSUME JInv, [Next]_vars
    PROVE  Remembered'
<1> USE DEF JInv
<1>same. UNCHANGED input => ThreadAt(taken)' = ThreadAt(taken')
  BY DEF ThreadAt, LastNaming, Naming
<1>1. ASSUME NEW l \in Lines, Write(l) PROVE Remembered'
  <2>1. ThreadAt(taken)' = ThreadAt(taken)
    BY <1>1, ThreadKept DEF Write
  <2> QED
    BY <1>1, <2>1 DEF Remembered, Write
<1>2. CASE Connect
  <2>1. session' = Null /\ taken' = 0 /\ UNCHANGED input
    BY <1>2 DEF Phase, Connect
  <2> QED
    BY <2>1, <1>same, NoThread DEF Remembered
<1>3. CASE Skip
  <2>1. ThreadAt(taken + 1) = ThreadAt(taken)
    <3>1. taken \in Nat
      BY DEF TypeOK
    <3>2. Shape[input[taken + 1]] # "object"
      BY <1>3 DEF Skip, Line
    <3> QED
      BY <3>1, <3>2, NextThread
  <2> QED
    BY <1>3, <2>1, <1>same DEF Remembered, Skip, Take
<1>4. CASE Normalize
  <2>1. session' = ThreadAt(taken + 1) /\ taken' = taken + 1 /\ UNCHANGED input
    BY <1>4, NormalizeMeans DEF Normalize, Take
  <2> QED
    BY <2>1, <1>same DEF Remembered
<1>5. CASE Send \/ PubAck
  BY <1>5, <1>same DEF Remembered, Send, PubAck
<1>6. CASE \/ SettingsError \/ ConnectFails \/ Drain \/ DrainEnds \/ WriteError \/ Eof
           \/ PublishError \/ PublishTimeout \/ Disconnect \/ DisconnectError \/ Leave \/ Kill
  BY <1>6 DEF Remembered, SettingsError, ConnectFails, Drain, DrainEnds, WriteError, Eof,
              PublishError, PublishTimeout, Disconnect, DisconnectError, Leave, Kill, Exit
<1>7. CASE \/ Close \/ Flush \/ ReaderLeaves \/ BrokerTake \/ Tick \/ BrokerDrops
           \/ NetworkBreaks \/ UNCHANGED vars
  BY <1>7, <1>same DEF Remembered, Close, Flush, ReaderLeaves, BrokerTake, Tick,
                       BrokerDrops, NetworkBreaks, vars
<1> QED
  BY <1>1, <1>2, <1>3, <1>4, <1>5, <1>6, <1>7 DEF Next, Run

-----------------------------------------------------------------------------
(* What is passed on.                                                      *)

\* What has been written to standard output.
Written == out \o buffer

\* What has been written is a sequence of lines, at least what has been flushed.
LEMMA WrittenTypes ==
    ASSUME TypeOK
    PROVE  /\ Written \in Seq(Lines) /\ Len(Written) \in Nat
           /\ out \o << >> = out /\ Len(out) \in Nat /\ Len(out) <= Len(Written)
<1>1. Written \in Seq(Lines) /\ Len(Written) = Len(out) + Len(buffer)
  BY ConcatProperties DEF TypeOK, Written
<1>2. out \o << >> = out
  BY ConcatEmptySeq DEF TypeOK
<1> QED
  BY <1>1, <1>2, LenProperties DEF TypeOK

\* One more line is written (sys.stdout.write).
LEMMA EchoPasses ==
    ASSUME TypeOK, Passing, HasLine, Echo, UNCHANGED <<passthrough, input, out>>,
           outcome = "ok", Running, taken' = taken + 1
    PROVE  Passing'
<1>1. taken \in Nat /\ Len(input) \in Nat /\ taken < Len(input) /\ Line \in Lines
  BY EchoTypes, LenProperties DEF TypeOK, HasLine
<1>2. CASE passthrough = "yes"
  <2>1. Len(Written) = taken /\ IsPrefix(Written, input)
    BY <1>2 DEF Passing, Written
  <2>2. out \o Append(buffer, Line) = Append(Written, Line)
    <3>1. << Line >> \in Seq(Lines) /\ Append(buffer, Line) = buffer \o << Line >>
      BY <1>1, AppendIsConcat DEF TypeOK
    <3>2. Append(Written, Line) = Written \o << Line >>
      BY <1>1, WrittenTypes, AppendIsConcat
    <3>3. (out \o buffer) \o << Line >> = out \o (buffer \o << Line >>)
      BY <3>1, ConcatAssociative DEF TypeOK
    <3> QED
      BY <3>1, <3>2, <3>3 DEF Written
  <2>3. IsPrefix(Append(Written, input[Len(Written) + 1]), input)
    BY <1>1, <2>1, WrittenTypes, PrefixGrows DEF TypeOK
  <2>4. Len(Append(Written, Line)) = taken + 1
    BY <1>1, <2>1, WrittenTypes, AppendProperties
  <2>5. out' \o buffer' = Append(Written, Line)
    BY <1>2, <2>2 DEF Echo
  <2>6. Line = input[Len(Written) + 1]
    BY <2>1 DEF Line
  <2> QED
    BY <2>3, <2>4, <2>5, <2>6 DEF Passing
<1>3. CASE passthrough # "yes"
  BY <1>1, <1>3, WrittenTypes DEF Passing, Echo, Written
<1> QED
  BY <1>2, <1>3

\* The buffer is emptied, into standard output or into nothing.
LEMMA EmptiedPasses ==
    ASSUME TypeOK, Passing, buffer' = << >>, UNCHANGED <<passthrough, input, taken>>,
           \/ out' = Written /\ (outcome' = outcome \/ ~Running') /\ (Running' => Running)
           \/ out' = out /\ ~Running'
    PROVE  Passing' /\ IsPrefix(out, out') /\ IsPrefix(out', input)
<1>1. IsPrefix(Written, input) /\ Len(Written) <= taken /\ Len(Written) \in Nat /\ taken \in Nat
  BY WrittenTypes DEF Passing, Written, TypeOK
<1>2. IsPrefix(out, Written)
  BY PrefixOfConcat DEF TypeOK, Written
<1>3. IsPrefix(out, input)
  BY <1>1, <1>2, WrittenTypes, PrefixTransitive DEF TypeOK
<1>4. CASE /\ out' = Written /\ (outcome' = outcome \/ ~Running') /\ (Running' => Running)
  <2>1. out' \o buffer' = Written
    BY <1>4, WrittenTypes, ConcatEmptySeq
  <2> QED
    BY <1>1, <1>2, <1>4, <2>1 DEF Passing, Written
<1>5. CASE out' = out /\ ~Running'
  <2>1. out' \o buffer' = out
    BY <1>5, WrittenTypes
  <2>2. IsPrefix(out, out)
    BY PrefixReflexive DEF TypeOK
  <2>3. Len(out) <= taken
    BY <1>1, WrittenTypes
  <2> QED
    BY <1>3, <1>5, <2>1, <2>2, <2>3 DEF Passing
<1> QED
  BY <1>4, <1>5

\* Every step keeps what was written a prefix of the input, as long as what was read.
LEMMA PassingStep ==
    ASSUME JInv, [Next]_vars
    PROVE  Passing'
<1> USE DEF JInv
<1>1. ASSUME NEW l \in Lines, Write(l) PROVE Passing'
  <2>1. input' \in Seq(Lines) /\ IsPrefix(input, input')
    BY <1>1, AppendProperties, PrefixOfAppend DEF TypeOK, Write
  <2>2. IsPrefix(Written, input)
    BY DEF Passing, Written
  <2>3. IsPrefix(Written, input')
    BY <2>1, <2>2, WrittenTypes, PrefixTransitive DEF TypeOK
  <2> QED
    BY <1>1, <2>3 DEF Passing, Write, Written, Running
<1>2. CASE Drain \/ Skip \/ Normalize
  <2>1. /\ HasLine /\ Echo /\ UNCHANGED <<passthrough, input, out>>
        /\ outcome = "ok" /\ Running /\ taken' = taken + 1
    BY <1>2 DEF Phase, Drain, Skip, Normalize, Take, Running
  <2> QED
    BY <2>1, EchoPasses
<1>3. CASE WriteError
  BY <1>3, WrittenTypes DEF Passing, WriteError, Written, TypeOK
<1>4. CASE SettingsError \/ DrainEnds \/ Leave
  <2>1. /\ buffer' = << >> /\ UNCHANGED <<passthrough, input, taken>>
        /\ out' \in {out, Written} /\ ~Running'
    BY <1>4 DEF SettingsError, DrainEnds, Leave, Exit, Written, Running
  <2> QED
    BY <2>1, EmptiedPasses
<1>5. CASE Flush
  <2>1. /\ buffer' = << >> /\ UNCHANGED <<passthrough, input, taken>>
        /\ out' = Written /\ outcome' = outcome /\ (Running' => Running)
    BY <1>5 DEF Flush, Written, Running
  <2> QED
    BY <2>1, EmptiedPasses
<1>6. CASE Kill
  <2>1. /\ buffer' = << >> /\ UNCHANGED <<passthrough, input, taken>>
        /\ out' = out /\ ~Running'
    BY <1>6 DEF Kill, Running
  <2> QED
    BY <2>1, EmptiedPasses
<1>7. CASE \/ Close \/ ReaderLeaves \/ BrokerTake \/ Tick \/ BrokerDrops \/ NetworkBreaks
           \/ UNCHANGED vars
  BY <1>7 DEF Passing, Running, Close, ReaderLeaves, BrokerTake, Tick, BrokerDrops,
              NetworkBreaks, vars
<1>8. CASE \/ ConnectFails \/ Connect \/ Eof \/ Send \/ PubAck \/ PublishError
           \/ PublishTimeout \/ Disconnect \/ DisconnectError
  BY <1>8 DEF Passing, Running, ConnectFails, Connect, Eof, Send, PubAck, PublishError,
              PublishTimeout, Disconnect, DisconnectError
<1> QED
  BY <1>1, <1>2, <1>3, <1>4, <1>5, <1>6, <1>7, <1>8 DEF Next, Run

-----------------------------------------------------------------------------
(* What is published.                                                      *)

\* The broker takes the document of the packet in flight.
LEMMA TakenIsDue ==
    ASSUME TypeOK, Phase, Owed, BrokerTake
    PROVE  /\ due = published' \o Tail(todo) /\ todo # << >>
           /\ published' \in Seq(DocumentSet) /\ Tail(todo) \in Seq(DocumentSet)
           /\ IsPrefix(published, published')
<1>1. /\ todo # << >> /\ todo \in Seq(DocumentSet) /\ published \in Seq(DocumentSet)
      /\ due = published \o todo
  BY DEF TypeOK, Owed, BrokerTake
<1>2. Head(todo) \in DocumentSet /\ Tail(todo) \in Seq(DocumentSet)
  BY <1>1, HeadTailProperties
<1>3. published' = Append(published, Head(todo))
  BY DEF BrokerTake
<1>4. Append(published, Head(todo)) \in Seq(DocumentSet)
  BY <1>1, <1>2, AppendProperties
<1>5. Append(published, Head(todo)) \o Tail(todo) = published \o todo
  BY <1>1, MoveHead
<1>6. IsPrefix(published, Append(published, Head(todo)))
  BY <1>1, <1>2, PrefixOfAppend
<1> QED
  BY <1>1, <1>2, <1>3, <1>4, <1>5, <1>6

\* Every step keeps published and still to do what is due.
LEMMA OwedStep ==
    ASSUME JInv, [Next]_vars
    PROVE  Owed'
<1> USE DEF JInv
<1>1. CASE Connect
  <2>1. << Health >> \in Seq(DocumentSet)
    BY HealthIsDocument
  <2>2. << >> \o << Health >> = << Health >>
    BY <2>1, ConcatEmptySeq
  <2>3. published' = << >> /\ todo' = << Health >> /\ due' = << Health >> /\ wire' = "none"
    BY <1>1 DEF Phase, TypeOK, Connect
  <2> QED
    BY <2>2, <2>3 DEF Owed
<1>2. CASE Skip
  <2>1. DocumentsDue(taken + 1) = << >>
    BY <1>2 DEF Skip, Line, DocumentsDue
  <2>2. due' = due
    BY <1>2, <2>1, ConcatEmptySeq DEF TypeOK, Skip, Take
  <2> QED
    BY <1>2, <2>2 DEF Owed, Skip
<1>3. CASE Normalize
  <2>1. todo = << >> /\ wire = "none" /\ published \in Seq(DocumentSet)
    BY <1>3 DEF TypeOK, Phase, Normalize
  <2>2. due = published
    BY <2>1, ConcatEmptySeq DEF Owed
  <2>3. due' = due \o todo'
    BY <1>3, NormalizeMeans
  <2>4. wire' = "none" /\ published' = published
    BY <1>3, <2>1 DEF Normalize
  <2> QED
    BY <2>2, <2>3, <2>4 DEF Owed
<1>4. CASE Send
  BY <1>4 DEF Owed, Send
<1>5. CASE PubAck
  BY <1>5 DEF Owed, PubAck
<1>6. CASE BrokerTake
  <2>1. pc # "publishing"
    BY <1>6 DEF Phase, BrokerTake
  <2> QED
    BY <1>6, <2>1, TakenIsDue DEF Owed, BrokerTake
<1>7. CASE NetworkBreaks
  BY <1>7 DEF Owed, NetworkBreaks
<1>8. CASE \/ \E l \in Lines : Write(l)
           \/ Close \/ Flush \/ Kill \/ ReaderLeaves \/ Tick \/ BrokerDrops \/ UNCHANGED vars
  BY <1>8 DEF Owed, Write, Close, Flush, Kill, ReaderLeaves, Tick, BrokerDrops, vars
<1>9. CASE \/ SettingsError \/ ConnectFails \/ Drain \/ DrainEnds \/ WriteError \/ Eof
           \/ PublishError \/ PublishTimeout \/ Disconnect \/ DisconnectError \/ Leave
  BY <1>9 DEF Owed, SettingsError, ConnectFails, Drain, DrainEnds, WriteError, Eof,
              PublishError, PublishTimeout, Disconnect, DisconnectError, Leave, Exit
<1> QED
  BY <1>1, <1>2, <1>3, <1>4, <1>5, <1>6, <1>7, <1>8, <1>9 DEF Next, Run

-----------------------------------------------------------------------------
(* The exit status.                                                        *)

\* A process that ends with status 0 after everything was read has passed it on.
LEMMA ExitPasses ==
    ASSUME TypeOK, Passing, AtEof, outcome = "ok", Running,
           NEW status \in {0, 1}, Exit(status), rc' = 0, UNCHANGED <<passthrough, input>>
    PROVE  passthrough' = "yes" => out' = input'
<1>1. SUFFICES ASSUME passthrough = "yes" PROVE out' = input
  OBVIOUS
<1>2. IsPrefix(Written, input) /\ Len(Written) = taken
  BY <1>1 DEF Passing, Written
<1>3. taken = Len(input)
  BY LenProperties DEF AtEof, HasLine, TypeOK
<1>4. Written = input
  BY <1>2, <1>3, WrittenTypes, FullPrefix DEF TypeOK
<1>5. CASE ReaderGone
  <2>1. buffer = << >> /\ out' = out
    BY <1>5 DEF Exit
  <2> QED
    BY <1>4, <2>1, WrittenTypes DEF Written
<1>6. CASE ~ReaderGone
  BY <1>4, <1>6 DEF Exit, Written
<1> QED
  BY <1>5, <1>6

\* Every step keeps what exit status 0 says.
LEMMA TruthStep ==
    ASSUME JInv, [Next]_vars
    PROVE  Truth'
<1> USE DEF JInv
<1>1. CASE SettingsError
  BY <1>1 DEF Truth, SettingsError, Exit
<1>2. CASE DrainEnds
  <2>1. AtEof /\ outcome = "ok" /\ Running /\ Exit(0) /\ UNCHANGED <<passthrough, input>>
    BY <1>2 DEF DrainEnds, Phase, Running
  <2>2. rc' = 0 => (passthrough' = "yes" => out' = input')
    BY <2>1, ExitPasses
  <2>3. link' = "none" /\ (AtEof <=> AtEof')
    BY <1>2 DEF DrainEnds, Phase, AtEof, HasLine
  <2> QED
    BY <2>1, <2>2, <2>3 DEF Truth
<1>3. CASE Leave
  <2> DEFINE status == IF outcome = "ok" THEN 0 ELSE 1
  <2>1. Exit(status) /\ status \in {0, 1} /\ Running /\ UNCHANGED <<passthrough, input>>
    BY <1>3 DEF Leave, Running
  <2>2. rc' = 0 => outcome = "ok"
    BY <1>3 DEF Leave, Exit
  <2> HIDE DEF status
  <2>3. outcome = "ok" => AtEof /\ todo = << >>
    BY <1>3 DEF Phase, Leave
  <2>4. rc' = 0 => (passthrough' = "yes" => out' = input')
    BY <2>1, <2>2, <2>3, ExitPasses
  <2>5. todo = << >> => published = due
    BY ConcatEmptySeq DEF Owed, TypeOK
  <2>6. UNCHANGED <<todo, published, due>> /\ (AtEof <=> AtEof')
    BY <1>3 DEF Leave, AtEof, HasLine
  <2> QED
    BY <2>2, <2>3, <2>4, <2>5, <2>6 DEF Truth
<1>4. CASE BrokerTake
  BY <1>4 DEF Truth, BrokerTake, TypeOK, AtEof, HasLine
<1>5. CASE Flush
  BY <1>5 DEF Truth, Flush, Phase
<1>6. CASE Tick \/ BrokerDrops \/ NetworkBreaks \/ UNCHANGED vars
  BY <1>6 DEF Truth, Tick, BrokerDrops, NetworkBreaks, AtEof, HasLine, vars
<1>7. CASE \/ \E l \in Lines : Write(l)
           \/ Close \/ Kill \/ ReaderLeaves
  BY <1>7 DEF Truth, Write, Close, Kill, ReaderLeaves, Running
<1>8. CASE \/ ConnectFails \/ Connect \/ Drain \/ Skip \/ Normalize \/ WriteError \/ Eof
           \/ Send \/ PubAck \/ PublishError \/ PublishTimeout \/ Disconnect \/ DisconnectError
  BY <1>8 DEF Truth, ConnectFails, Connect, Drain, Skip, Normalize, WriteError, Eof,
              Send, PubAck, PublishError, PublishTimeout, Disconnect, DisconnectError
<1> QED
  BY <1>1, <1>2, <1>3, <1>4, <1>5, <1>6, <1>7, <1>8 DEF Next, Run

-----------------------------------------------------------------------------
(* The invariant, and what follows from it.                                *)

\* The invariant holds at the start of main().
LEMMA InitHolds == Init => JInv
<1> SUFFICES ASSUME Init PROVE JInv
  OBVIOUS
<1>1. TypeOK
  BY EmptySeq, JsonlAdapterAssumption DEF Init, TypeOK
<1>2. << >> \o << >> = << >> /\ Len(<< >>) = 0 /\ IsPrefix(<< >>, << >>)
  <2>1. << >> \in Seq(Lines)
    BY EmptySeq
  <2> QED
    BY <2>1, PrefixReflexive, ConcatEmptySeq, EmptySeq
<1>3. Phase /\ Remembered /\ Passing /\ Owed /\ Truth
  BY <1>2 DEF Init, Phase, Remembered, Passing, Owed, Truth
<1> QED
  BY <1>1, <1>3 DEF JInv

\* The invariant holds throughout.
LEMMA InvariantHolds == Spec => []JInv
<1>1. JInv /\ [Next]_vars => JInv'
  BY TypeStep, PhaseStep, RememberedStep, PassingStep, OwedStep, TruthStep DEF JInv
<1> QED
  BY InitHolds, <1>1, PTL DEF Spec

\* The state space of the adapter: there is something to publish exactly while it
\* publishes (main, publish).
THEOREM JsonlTypes == Spec => []TypeOK
<1>1. JInv => TypeOK
  BY DEF JInv
<1> QED
  BY <1>1, InvariantHolds, PTL

\* Exit status 0 means that the stream was read to its end and passed on, and that
\* the broker, if there was one, has everything that was due (main).
THEOREM ExitStatusTrue == Spec => []ExitTellsTheTruth
<1>1. JInv => ExitTellsTheTruth
  BY LenProperties DEF JInv, Truth, ExitTellsTheTruth, AtEof, HasLine, TypeOK
<1> QED
  BY <1>1, InvariantHolds, PTL

\* Every step of the adapter is a step of the pipe to the next command, or none.
LEMMA PassesOnStep ==
    ASSUME JInv, [Next]_vars
    PROVE  [PassedOn!Next]_<<input, out>>
<1> USE DEF JInv
<1>1. ASSUME NEW l \in Lines, Write(l) PROVE PassedOn!Put
  <2>1. IsPrefix(input, input') /\ UNCHANGED out
    BY <1>1, PrefixOfAppend DEF TypeOK, Write
  <2> QED
    BY <2>1 DEF PassedOn!Put, PassedOn!IsPrefix, IsPrefix
<1>2. CASE Flush \/ SettingsError \/ DrainEnds \/ Leave
  <2>1. /\ buffer' = << >> /\ UNCHANGED <<passthrough, input, taken>>
        /\ \/ out' = Written /\ (outcome' = outcome \/ ~Running') /\ (Running' => Running)
           \/ out' = out /\ ~Running'
    BY <1>2 DEF Flush, SettingsError, DrainEnds, Leave, Exit, Written, Running
  <2>2. IsPrefix(out, out') /\ IsPrefix(out', input) /\ UNCHANGED input
    BY <2>1, EmptiedPasses
  <2> QED
    BY <2>2 DEF PassedOn!Next, PassedOn!Move, PassedOn!IsPrefix, IsPrefix
<1>3. CASE \/ Close \/ Kill \/ ReaderLeaves \/ BrokerTake \/ Tick \/ BrokerDrops
           \/ NetworkBreaks \/ UNCHANGED vars
  BY <1>3 DEF Close, Kill, ReaderLeaves, BrokerTake, Tick, BrokerDrops, NetworkBreaks, vars
<1>4. CASE \/ ConnectFails \/ Connect \/ Drain \/ Skip \/ Normalize \/ WriteError \/ Eof
           \/ Send \/ PubAck \/ PublishError \/ PublishTimeout \/ Disconnect
           \/ DisconnectError
  BY <1>4 DEF ConnectFails, Connect, Drain, Skip, Normalize, WriteError, Eof, Send,
              PubAck, PublishError, PublishTimeout, Disconnect, DisconnectError
<1> QED
  BY <1>1, <1>2, <1>3, <1>4 DEF Next, Run, PassedOn!Next

\* The next command of the pipeline gets what the agent wrote, from its beginning,
\* unchanged and in order (sys.stdout.write).
THEOREM PassesOnTheorem == Spec => PassesOn
<1>1. Init => PassedOn!Init
  BY DEF Init, PassedOn!Init
<1>2. JInv /\ [Next]_vars => [PassedOn!Next]_<<input, out>>
  BY PassesOnStep
<1> QED
  BY <1>1, <1>2, InvariantHolds, PTL DEF Spec, PassesOn, PassedOn!Spec

\* Every step of the adapter is a step of the pipe to the broker, or none.
LEMMA PublishesInOrderStep ==
    ASSUME JInv, [Next]_vars
    PROVE  [Published!Next]_<<due, published>>
<1> USE DEF JInv
<1>1. CASE Connect
  <2>1. << >> \o << Health >> = << Health >> /\ << Health >> \in Seq(DocumentSet)
    BY HealthIsDocument
  <2>2. IsPrefix(<< >>, << Health >>)
    BY <2>1, EmptySeq, PrefixOfConcat
  <2>3. IsPrefix(due, due') /\ UNCHANGED published
    BY <1>1, <2>2 DEF Phase, Connect
  <2> QED
    BY <2>3 DEF Published!Next, Published!Put, Published!IsPrefix, IsPrefix
<1>2. CASE Skip
  <2>1. DocumentsDue(taken + 1) = << >>
    BY <1>2 DEF Skip, Line, DocumentsDue
  <2> QED
    BY <1>2, <2>1, ConcatEmptySeq DEF TypeOK, Skip, Take
<1>3. CASE Normalize
  <2>1. due' = due \o todo' /\ todo' \in Seq(DocumentSet)
    BY <1>3, NormalizeMeans, DocumentTypes
  <2>2. IsPrefix(due, due \o todo')
    BY <2>1, PrefixOfConcat DEF TypeOK
  <2>3. IsPrefix(due, due') /\ UNCHANGED published
    BY <1>3, <2>1, <2>2 DEF Normalize
  <2> QED
    BY <2>3 DEF Published!Next, Published!Put, Published!IsPrefix, IsPrefix
<1>4. CASE BrokerTake
  <2>1. IsPrefix(published', due)
    BY <1>4, TakenIsDue, PrefixOfConcat
  <2>2. IsPrefix(published, published') /\ UNCHANGED due
    BY <1>4, TakenIsDue DEF BrokerTake
  <2> QED
    BY <2>1, <2>2 DEF Published!Next, Published!Move, Published!IsPrefix, IsPrefix
<1>5. CASE \/ \E l \in Lines : Write(l)
           \/ Close \/ Flush \/ Kill \/ ReaderLeaves \/ Tick \/ BrokerDrops
           \/ NetworkBreaks \/ UNCHANGED vars
  BY <1>5 DEF Write, Close, Flush, Kill, ReaderLeaves, Tick, BrokerDrops, NetworkBreaks, vars
<1>6. CASE \/ SettingsError \/ ConnectFails \/ Drain \/ DrainEnds \/ WriteError \/ Eof
           \/ Send \/ PubAck \/ PublishError \/ PublishTimeout \/ Disconnect
           \/ DisconnectError \/ Leave
  BY <1>6 DEF SettingsError, ConnectFails, Drain, DrainEnds, WriteError, Eof, Send,
              PubAck, PublishError, PublishTimeout, Disconnect, DisconnectError, Leave, Exit
<1> QED
  BY <1>1, <1>2, <1>3, <1>4, <1>5, <1>6 DEF Next, Run

\* The broker gets what is due for the lines, from the beginning, each document once
\* and in order (publish, normalize_jsonl_event).
THEOREM PublishesInOrderTheorem == Spec => PublishesInOrder
<1>1. Init => Published!Init
  BY DEF Init, Published!Init
<1>2. JInv /\ [Next]_vars => [Published!Next]_<<due, published>>
  BY PublishesInOrderStep
<1> QED
  BY <1>1, <1>2, InvariantHolds, PTL DEF Spec, PublishesInOrder, Published!Spec

=============================================================================
