------------------------- MODULE BrokerSupervision -------------------------
(***************************************************************************)
(* How the desktop app keeps its connection to the broker.                 *)
(*                                                                         *)
(* Two queues run at the same time.  The client's own queue sees the       *)
(* network and reports what it sees: "up", "down" or a message; each       *)
(* report is posted to the main queue as a block.  The main queue runs     *)
(* these blocks in order, between them the retry timer, the liveness timer *)
(* and the user's commands, and replaces the client whenever it connects.  *)
(* Blocks of a client that was replaced are still in the queue: they must  *)
(* have no effect.                                                         *)
(***************************************************************************)
EXTENDS Protocol, Naturals, Sequences

CONSTANTS
    Clients,      \* MQTTClient objects; one that is gone may be used again
    MaxPosted     \* bound: how many blocks wait in the main queue

ASSUME SupervisionAssumption == Null \notin Clients /\ MaxPosted \in Nat

VARIABLES
    conn,         \* what the client's queue is doing with the connection
    cancelled,    \* clients that were told to disconnect and are not gone yet
    posted,       \* the blocks in the main queue: [client, kind]
    current,      \* mqttClient
    connected,    \* model.connected, and that of every session
    established,  \* hasEstablishedBrokerConnection
    retry,        \* brokerRetryWorkItem is set
    scheduled,    \* how many work items will run: not cancelled, not run yet
    appState,     \* model.runtimeState
    gremlins,     \* what the gremlins show, as a set: "lifecycle" for inferredState
    host,         \* settings.host is not empty
    calm          \* the network has settled, and the user leaves it alone

network    == <<conn, posted>>
flags      == <<cancelled, current, connected, established, retry, scheduled, appState>>
app        == <<connected, established, retry, scheduled, appState, gremlins>>
supervisor == <<flags, gremlins>>
vars       == <<network, supervisor, host, calm>>

-----------------------------------------------------------------------------
(* The client's queue.                                                     *)

\* After CONNACK.
Up == {"subscribing", "listening", "deaf"}

Phases == {"gone", "preparing", "waiting", "handshake", "refused", "failed", "dead"} \cup Up

Post(c, kind) == posted' = Append(posted, [client |-> c, kind |-> kind])

Room == Len(posted) < MaxPosted

\* c goes on from one phase to the next, and reports nothing.  A step that is under
\* way while the main queue cancels c counts as one before it.
Advance(c, phase) ==
    /\ c \notin cancelled
    /\ conn' = [conn EXCEPT ![c] = phase]
    /\ UNCHANGED <<posted, supervisor, host, calm>>

\* The same, with a report.
AdvanceAndReport(c, phase, kind) ==
    /\ Room
    /\ c \notin cancelled
    /\ conn' = [conn EXCEPT ![c] = phase]
    /\ Post(c, kind)
    /\ UNCHANGED <<supervisor, host, calm>>

\* .ready: CONNECT is sent, and CONNACK expected.
Ready(c) ==
    /\ conn[c] \in {"preparing", "waiting"}
    /\ Advance(c, "handshake")

\* CONNACK with code 0; the client then subscribes.
Accepted(c) ==
    /\ conn[c] = "handshake"
    /\ AdvanceAndReport(c, "subscribing", "up")

\* The first packet after SUBSCRIBE is a SUBACK, and the receive loop starts.
Suback(c) ==
    /\ conn[c] = "subscribing"
    /\ Advance(c, "listening")

\* It is another packet, and nothing is received any more.
OtherThanSuback(c) ==
    /\ conn[c] = "subscribing"
    /\ Advance(c, "deaf")

\* A PUBLISH that decodes.
Message(c) ==
    /\ conn[c] = "listening"
    /\ AdvanceAndReport(c, "listening", "message")

\* .waiting, which may be reported again and again.
Waiting(c) ==
    /\ ~calm
    /\ conn[c] \in {"preparing", "waiting"}
    /\ AdvanceAndReport(c, "waiting", "down")

\* CONNACK with another code: the connection stays open, and nobody reads it.
Refused(c) ==
    /\ ~calm
    /\ conn[c] = "handshake"
    /\ AdvanceAndReport(c, "refused", "down")

\* A receive completes or fails, or the connection does.
Lost(c) ==
    /\ ~calm
    /\ conn[c] \in {"preparing", "waiting", "handshake"} \cup Up
    /\ AdvanceAndReport(c, "failed", "down")

\* .failed after a receive that failed, or after a refusal: reported once more.
Failed(c) ==
    /\ conn[c] \in {"failed", "refused"}
    /\ AdvanceAndReport(c, "dead", "down")

\* .cancelled, the last thing a client sees.
Cancelled(c) ==
    /\ c \in cancelled
    /\ Room
    /\ conn' = [conn EXCEPT ![c] = "gone"]
    /\ cancelled' = cancelled \ {c}
    /\ Post(c, "down")
    /\ UNCHANGED <<current, app, host, calm>>

-----------------------------------------------------------------------------
(* The main queue.                                                         *)

\* Every gremlin shows this.
Paint(display) == gremlins' = IF gremlins = {} THEN {} ELSE {display}

\* Mutant: a failure schedules a retry although one is scheduled.
ScheduleBrokerRetryAgain(held, count) ==
    /\ retry' = TRUE
    /\ scheduled' = count + 1

\* scheduleBrokerRetry, given the work item held and how many are scheduled.
ScheduleBrokerRetry(held, count) ==
    /\ retry' = TRUE
    /\ scheduled' = IF held THEN count ELSE count + 1

\* How many work items are left by cancelBrokerRetry.
LeftByCancel(held, count) == IF held THEN count - 1 ELSE count

\* Mutant: the work item is cancelled and still held.
CancelKeepingItem(held, count) ==
    /\ retry' = held
    /\ scheduled' = LeftByCancel(held, count)

CancelBrokerRetry(held, count) ==
    /\ retry' = FALSE
    /\ scheduled' = LeftByCancel(held, count)

\* Mutant: a failure is only shown.
HandleFailureWithoutRetry(held, count) ==
    /\ connected' = FALSE
    /\ appState' = "error"
    /\ Paint("error")
    /\ retry' = held
    /\ scheduled' = count

\* handleBrokerConnectionFailed: there is no retry before the first success.
HandleBrokerConnectionFailed(held, count) ==
    /\ connected' = FALSE
    /\ appState' = "error"
    /\ Paint("error")
    /\ IF established THEN ScheduleBrokerRetry(held, count)
                      ELSE retry' = held /\ scheduled' = count

\* A client object that nothing refers to.
Fresh(c) == conn[c] = "gone" /\ \A i \in DOMAIN posted : posted[i].client # c

\* Mutant: mqttClient is set before the previous client is read.
ReplaceSwapped(next) ==
    /\ current' = next
    /\ IF current = Null
       THEN UNCHANGED <<cancelled, posted>>
       ELSE /\ cancelled' = cancelled \cup {next}
            /\ Post(current, "down")

\* Both parts of connect() for the previous client: it is told to disconnect, which
\* makes it report at once.
Replace(next) ==
    /\ current' = next
    /\ IF current = Null
       THEN UNCHANGED <<cancelled, posted>>
       ELSE /\ cancelled' = cancelled \cup {current}
            /\ Post(current, "down")

\* connect(), given the retry that is held and scheduled when it is called.
Connect(held, count) ==
    /\ Room
    /\ UNCHANGED <<established, host, calm>>
    /\ \/ /\ ~host
          /\ Replace(Null)
          /\ HandleBrokerConnectionFailed(FALSE, LeftByCancel(held, count))
          /\ UNCHANGED conn
       \/ /\ host
          /\ \E c \in Clients :
                /\ Fresh(c)
                /\ Replace(c)
                /\ conn' = [conn EXCEPT ![c] = "preparing"]
          /\ CancelBrokerRetry(held, count)
          /\ connected' = FALSE
          /\ appState' = "starting"
          /\ IF established THEN Paint("starting") ELSE UNCHANGED gremlins

\* The app starts, or the user chooses Reconnect.
Reconnect ==
    /\ ~calm
    /\ Connect(retry, scheduled)

\* The work item runs, five seconds after it was scheduled.
RetryFires ==
    /\ scheduled > 0
    /\ Connect(FALSE, scheduled - 1)

\* The user changes the settings.
EditHost ==
    /\ ~calm
    /\ host' = ~host
    /\ UNCHANGED <<network, supervisor, calm>>

\* Mutant: a block of any client is taken.
FromCurrentUnchecked(block) == TRUE

\* self.mqttClient === client
FromCurrent(block) == block.client = current

OnUp ==
    /\ connected' = TRUE
    /\ established' = TRUE
    /\ CancelBrokerRetry(retry, scheduled)
    /\ appState' = "idle"
    /\ Paint("lifecycle")

OnDown ==
    /\ HandleBrokerConnectionFailed(retry, scheduled)
    /\ UNCHANGED established

\* A document makes a gremlin or updates one; the others stay as they are.
OnMessage ==
    /\ gremlins' = gremlins \cup {"lifecycle"}
    /\ UNCHANGED <<connected, established, retry, scheduled, appState>>

\* The main queue runs the next block.
RunBlock ==
    /\ posted # <<>>
    /\ posted' = Tail(posted)
    /\ LET block == Head(posted)
       IN  \/ FromCurrent(block) /\ block.kind = "up" /\ OnUp
           \/ FromCurrent(block) /\ block.kind = "down" /\ OnDown
           \/ FromCurrent(block) /\ block.kind = "message" /\ OnMessage
           \/ ~FromCurrent(block) /\ UNCHANGED app
    /\ UNCHANGED <<conn, cancelled, current, host, calm>>

\* Mutant: the timer does not ask for the connection.
RefreshAlways ==
    /\ Paint("lifecycle")
    /\ UNCHANGED <<network, flags, host, calm>>

\* The liveness timer.
RefreshSessionLiveness ==
    /\ connected
    /\ Paint("lifecycle")
    /\ UNCHANGED <<network, flags, host, calm>>

\* The user kills the last gremlin.
KillSession ==
    /\ gremlins' = {}
    /\ UNCHANGED <<network, flags, host, calm>>

\* From here on the broker accepts, no connection is lost, and nobody interferes.
Settle ==
    /\ host
    /\ calm' = TRUE
    /\ UNCHANGED <<network, supervisor, host>>

-----------------------------------------------------------------------------
Init ==
    /\ conn        = [c \in Clients |-> "gone"]
    /\ cancelled   = {}
    /\ posted      = <<>>
    /\ current     = Null
    /\ connected   = FALSE
    /\ established = FALSE
    /\ retry       = FALSE
    /\ scheduled   = 0
    /\ appState    = "idle"
    /\ gremlins    = {}
    /\ host        \in BOOLEAN
    /\ calm        = FALSE

ClientStep(c) ==
    \/ Ready(c) \/ Accepted(c) \/ Suback(c) \/ OtherThanSuback(c) \/ Message(c)
    \/ Waiting(c) \/ Refused(c) \/ Lost(c) \/ Failed(c) \/ Cancelled(c)

Next ==
    \/ \E c \in Clients : ClientStep(c)
    \/ Reconnect \/ RetryFires \/ EditHost \/ RunBlock
    \/ RefreshSessionLiveness \/ KillSession \/ Settle

\* The queues run what they are given and the timer fires; a settled network
\* answers, and a cancelled connection ends.
Fairness ==
    /\ WF_vars(RunBlock)
    /\ WF_vars(RetryFires)
    /\ \A c \in Clients : WF_vars(Ready(c)) /\ WF_vars(Accepted(c)) /\ WF_vars(Cancelled(c))

Spec == Init /\ [][Next]_vars /\ Fairness

-----------------------------------------------------------------------------
(* Properties.                                                             *)

Blocks   == [client : Clients, kind : {"up", "down", "message"}]
Displays == {"lifecycle", "starting", "error"}

\* The variables have their types, and only clients that exist are cancelled.
TypeOK ==
    /\ conn \in [Clients -> Phases]
    /\ cancelled \subseteq {c \in Clients : conn[c] # "gone"}
    /\ posted \in Seq(Blocks)
    /\ current \in Clients \cup {Null}
    /\ connected \in BOOLEAN /\ established \in BOOLEAN /\ retry \in BOOLEAN
    /\ host \in BOOLEAN /\ calm \in BOOLEAN
    /\ scheduled \in Nat
    /\ appState \in {"idle", "starting", "error"}
    /\ gremlins \subseteq Displays

\* The blocks of the current client that say whether it is connected.
Reports == {i \in DOMAIN posted : posted[i].client = current /\ posted[i].kind # "message"}

IsUp(c) == c # Null /\ conn[c] \in Up

\* The flag of the app is late but never wrong: the last report that waits for the
\* main queue, or the flag itself when none does, says how the connection is, though
\* clients are replaced while their reports are on the way.
FlagFollowsConnection ==
    IF Reports = {}
    THEN connected = IsUp(current)
    ELSE \E i \in Reports : /\ \A j \in Reports : j <= i
                            /\ (posted[i].kind = "up") = IsUp(current)

\* A retry never cuts a working connection: at most one is scheduled, it is the one
\* the app can cancel, and only while it is not connected.
RetryOnlyWhenDown ==
    scheduled > 0 => scheduled = 1 /\ retry /\ ~connected

\* The app never rests without a connection once it has had one: it has a retry
\* scheduled, or a client that is still trying, or a report to handle.
NeverStranded ==
    established /\ ~connected =>
        \/ scheduled > 0
        \/ current # Null /\ conn[current] \in {"preparing", "handshake"}
        \/ Reports # {}

\* What a gremlin shows agrees with the app: it shows its session only while the app
\* is connected, and an error or a reconnect whenever the app does.
GremlinsAgree ==
    /\ appState = "idle"     => gremlins \subseteq {"lifecycle"}
    /\ appState = "starting" => gremlins \subseteq {"starting"}
    /\ appState = "error"    => gremlins \subseteq {"error"}

\* Once the network settles, an app that was ever connected is connected again, and
\* stays so.
Recovers == (calm /\ established) ~> [](connected /\ appState = "idle")

=============================================================================
