# Menagerie in TLA+

A verification project for Menagerie: the Codex hooks and tools that publish
session documents over MQTT, the collector that stores them, and the macOS app
that shows each session as a gremlin. The modules are translated from the code
in `src/`; TLC checks them on small instances and TLAPS proves the main safety
properties for every value of the constants. `PROJECT.json` lists the runs, the
source lines behind each definition, the hazards and the theorems.

## The system

| Part | State it keeps | Operations | What makes it correct |
|---|---|---|---|
| Normalization (`events.py`) | none | hook payloads and JSONL lines become events; each yields a state, a health and a lifecycle | ids, topics and deadlines fit together; private text stays in |
| Hook emitter and publisher (`hook_emitter.py`, `publisher.py`) | one short-lived process per hook: connection, progress, exception | connect, publish event / state / session health / client heartbeat, disconnect, exit | ends; tells the truth in its exit status where failures are reported; leaves one consistent pair of retained documents |
| Naming tool (`session_name.py`) | the same | publishes a retained profile | exit status 0 only when the profile is there |
| JSONL adapter (`jsonl_adapter.py`) | one long connection, current thread id | publishes for each line of `codex exec --json`, passes stdin through | the stream comes out unchanged, documents in order, and exit status 0 is true |
| Python MQTT client (`mqtt.py`) | socket, next packet id | connect, publish with QoS 1, subscribe, receive loop | publish returns only after its PUBACK; messages in order; every wait is bounded |
| Broker (Mosquitto, `broker/`) | retained documents, queues per subscriber, access list | retain, forward, acknowledge, replay after SUBSCRIBE | external; its limits and its access list are in the repository |
| Collector (`collector.py`) | tables `events` and `current_state` in SQLite, one MQTT connection | add a document, delete a state row, serve HTTP reads | the tables agree with each other and with what is retained |
| Desktop app (`MenagerieApp.swift`, `Models.swift`) | gremlins by session id, waiting profiles, connection flags, retry and liveness timers | apply state / health / profile, name, kill, reconnect, refresh | the board shows what is retained; gremlins age and exit |
| Desktop MQTT client (`MQTTClient.swift`) | connection, keep-alive timer, packet id | handshake, subscribe, receive loop, QoS 0 publish | messages of one connection reach the main queue in order |

The parts share nothing but the broker. A hook publishes an event (not
retained), then the state and the health of the session (both retained), then
its own heartbeat. The collector and the app subscribe to all four trees with
clean sessions, so after each reconnect they get the retained documents again
and nothing else of what they missed. The app is also a publisher: it names
sessions (a retained profile) and kills gremlins (empty payloads that delete
retained documents).

What is hard here:

* Codex runs hooks of one session in parallel and kills them after ten seconds,
  so runs overlap, stop between two documents, and leave packets in flight.
* Documents arrive late, twice and out of order: overlap, replay, reconnects.
* A deletion is an event, not a document: whoever is away misses it for good.
* The app tells documents apart by trying decoders, and remembers the topics.
* Nothing ever says that a session is over; only deadlines do.
* The receive loop takes a timeout for quiet, also inside a packet, and only whole
  quiet intervals make it send PINGREQ; the adapter sends none at all.
* The broker may die and come back with retained documents of half a minute ago.
* Hooks learn their session from their input, the naming tool from its
  environment, and both must arrive at the same topic.

Every such hazard is in `PROJECT.json` with its line and the properties that
watch it, or the reason why none does yet.

## Modules

| Module | Models | Extends |
|---|---|---|
| `Protocol` | topics and the state of each kind of event | |
| `Documents` | the documents of a source, their topics, and what a SUBSCRIBE replays | `Protocol` |
| `Publishing` | hook and naming processes, the broker's side of a PUBLISH | `Protocol` |
| `Normalization` | what `events.py` makes of a hook's input and environment, as operators | `Protocol` |
| `HookInputs` | the processes of `Publishing` with the inputs they read | `Publishing`, `Normalization` |
| `Pipe` | what a stream promises: an abstract specification | |
| `JsonlAdapter` | `jsonl_adapter.py` between agent, broker and next command; implements `Pipe` twice | `Protocol` |
| `MqttClient` | one connection of the Python client, packet by packet | |
| `Collector` | the MQTT thread and both tables, the broker's queue and its disk | `Documents` |
| `Gremlins` | the board of the app, names, kills, both directions of its connection | `Documents` |
| `BrokerSupervision` | the app's connection: client objects, reports on the main queue, flags, retry | `Protocol` |
| `Lifecycle` | deadlines, what the app infers from them, its timer | `Protocol` |
| `PublishingProofs` | the theorems about `Publishing` and `HookInputs` | `HookInputs`, TLAPS |
| `CollectorProofs`, `GremlinsProofs`, `BrokerSupervisionProofs`, `LifecycleProofs`, `JsonlAdapterProofs`, `MqttClientProofs` | the theorems about each component | their module and TLAPS |
| `SequenceLemmas` | what the proofs need of sequences: prefixes, elements, queues whose last relevant element decides, orders of a set | TLAPS |
| `MC*` | the instances TLC checks | their module |

### Publishing

`pc` is where a process is: `reading` its input, `connecting` in
`MqttClient.connect`, `sending`
before a `publish()`, `waiting` for its PUBACK, `closing` in the `finally`
clause after an exception, `leaving` when `publish_event` has returned or
raised, then `exited` or `killed`. `sent` counts the calls of `publish()`,
`failed` says that an exception left the reading or the publishing code. `input` is
`invalid` once a hook has found no JSON object on standard input: it then goes on with
an event called `unknown`, about the session that its environment alone gives
(`UnreadKey`). Any other exception of `json.load`, such as the one for bytes that are
not UTF-8, is caught nowhere and ends the process without an answer (`ReadError`). Exit
status 1 stands for any but 0. `wire` is the packet
in flight for the last message: the PUBLISH, the PUBACK, or none. There is never
more than one, because `publish()` blocks. `applied` counts what the broker has
taken; `BrokerReceive` needs no living process, so a packet of a killed hook may
arrive at any later time. `Clear` is any deletion by the app. `before[p]` is
history for two properties: who had finished without an error when `p` started.

### Normalization and HookInputs

`Normalization` has one operator per function of `events.py` that decides something:
which spelling of a field counts, what an environment variable overrides, which
session and workspace an input belongs to, and which parts of the input are published.
Texts are opaque; a published part is a `Piece` that says where it goes, where it
comes from and in which form (`plain`, `redacted`, `hash`, `keys`). `redact_text` is
the form `redacted`: what its patterns find is not modelled. An environment carries
what `os.getcwd()` returns (`getcwd`) beside its variables: the naming tool takes that
path, without symbolic links, where a hook takes the one in its input or in `PWD`.
`topic_segment` is a function given by the instance, which need not be idempotent: cut
after 96 characters, a segment may end in a dash that the next call strips.
`HookInputs` lets the hooks of `Publishing` read any of several inputs, or what they
make of an input that is no JSON object (`Unread`), in any of several environments;
the constant `EventOf` of `Publishing` is assumed to be what `CanonicalHookEvent`
makes of them, and TLC checks that assumption. `OneSession` says how Codex starts the
processes of a session (one thread id, one directory, no session id configured) and
`SegmentSettles` what `topic_segment` does when it is applied again: the second time
may take off dashes that the cut has exposed, the third time nothing.

### Pipe, JsonlAdapter and MqttClient

`Pipe` says that the sink is always a prefix of the source. `JsonlAdapter` is a
pipe from `input` to `out` (the stream passed on) and from `due` to `published`
(the documents). `due` is a ghost: the documents of the lines read so far, with
the thread of the last line that named one, written without the variables of
`main()`. `pc` follows `main()`: `start`, `draining` is the loop after a failed
connection, `reading` and `publishing`/`waiting` the loop proper, `closing` the
`finally` clause, `leaving` the way out. `buffer` is standard output that the
interpreter has not written yet: it is lost with a killed process, and flushing it
to a pipe without a reader turns exit status 0 into 120. `quiet` is how long the
broker has heard nothing; the adapter never sends PINGREQ.

Two things the model makes plain, neither of which a document denies: a publish
that fails ends the process and cuts the stream passed on (a failed first
connection does not), and a first connection that fails ends with exit status 0
although nothing was published. `ExitTellsTheTruth` and `FinishesStream` are
stated accordingly.

In `MqttClient`, `pc` names the packet a call waits for, `looping` and `handling`
are `loop_forever` before and inside `on_message`. Packets are read in two pieces
(`partial`); a timeout between the two loses the first, and `framing` is then
`lost`. `Misread` is what `loop_forever` makes of the bytes that follow: it swallows
any number of packets and may end inside the next one, and what it has read looks like
nothing yet, like a packet that is passed over, like a DISCONNECT, like something that
cannot be parsed, or like a PUBLISH, with any packet id. Such a message (`MadeUp`) is
handled and acknowledged as if somebody had sent it. The reader may meet the beginning
of a packet again, by chance or because everything sent has been read: `framing` is
then `regained`, and real messages follow, some perhaps missing. `up` and `down` are the two
directions of the connection, `link = "lost"` is a connection that is gone without
an error on either side. The client is driven as the repository drives it:
publishers call `publish` and `disconnect`, the collector `subscribe` and
`loop_forever`. `Publishing`, `JsonlAdapter` and `Collector` use the same
operations as coarser steps; `AckMeansTaken` and `DeliversInOrder` are what they
rely on.

### Collector

`Publish` lets the broker take the next document of a source; a source may stop after
any of them, which covers failed and killed hooks, and two sources interleave freely.
The broker replays retained documents filter by filter, in any order within a filter.
`Add` is the single transaction of `EventStore.add`, on one SQLite connection under
one lock, so the HTTP threads see both statements or neither. `Drop` is a broken
connection, an exception in the store, or a restart of the process: the queue is gone,
the tables stay. `Crash` is a broker that dies and is started again: what it retains
is what it wrote last (`saved`), every connection is lost, and a publisher that was
half way gives up (`cut`). `UpdatesStatus` is the condition of collector.py:94 as
written, substring test included.

### Gremlins

`sessions` and `pending` are `sessionModels` and `pendingProfiles`, both by
session id. `DecodedAs` follows the order of the decoders: an event with a state
fits `SessionStateDocument`, one without fits `SessionHealthDocument`, so
the branch for `SessionEvent` is never reached by a document of this system and
`lastEventTopic` is never set. `inbox` is what is on its way to the main queue:
`Lose` keeps any prefix of it, since blocks already queued still pass the identity
check, and `Subscribe` discards it, since `connect()` has replaced the client.
`outbox` is what the app has published and the broker has not taken; `BrokerTake`
applies the access list. Windows, positions and summaries are left out.

### BrokerSupervision

`conn[c]` is how far the queue of a client object has come: `preparing` or
`waiting` before `.ready`, `handshake` until CONNACK, then `subscribing`, and
`listening` once a SUBACK has started the receive loop, or `deaf` when another
packet came first. `refused`, `failed` and `dead` have reported that they are down.
Each report is a block in `posted`, which the main queue runs in order
(`RunBlock`); a block of another client than `current` has no effect. `Connect` is
`connect()` with all it calls: it cancels the retry, drops the client, whose
`disconnect()` posts a report of its own, and then either fails at once (no host)
or starts a new client. `retry` is the work item the app holds, `scheduled` counts
those that will run, so that a second one could be seen. `gremlins` is the set of
things shown by gremlins. Objects are used again only when nothing refers to them,
as with memory. The model justifies two guards of `Lifecycle`: a document and a
timer tick are applied only while the link is up (`GremlinsAgree`).

### Lifecycle

One session and one app. Publishers read their own environment and their own clock
(`Settings`, `Skews`), so two documents of a session may carry unrelated deadlines;
`by` is a ghost in a document, the settings its deadlines were computed from.
`Receive` applies any published document, the newest or an older one. Some events of
the JSONL adapter have no state and no deadlines: the app decodes them as health
documents and keeps what it had (`Given`). A gremlin may exist before its first
deadlines, and is then shown as reported. `at` is history: the time at which `shown`
was last inferred.

## Runs

| Run | Result | What it shows |
|---|---|---|
| `publishing` | pass | ordering, consistency, honest exit codes and termination of overlapping, failing and killed publishers; no private text unasked; names reach the session of the hooks |
| `jsonl` | pass | the adapter is two pipes, whatever breaks; exit status 0 is true; it ends after its agent |
| `mqtt_client` | pass | returns and acknowledgements mean what they say, messages in order, silence is bridged, every wait ends; what is left of that after a timeout inside a packet |
| `collector` | pass | tables agree with each other and, once drained, with the retained states, even after the broker fell back to older ones; the status settles |
| `collector_stale` | violation | a state deleted while the collector is away stays in `/v1/status` (deployment.md:26 calls the retained state the source of truth) |
| `collector_history` | violation | the state document replaces its own event in the stored history (protocol.md:9, README.md:17) |
| `gremlins` | pass | once caught up, the board is complete and current and names are those retained |
| `gremlins_kill` | violation | a kill after an event deletes on the event topic; the retained state or health survives (README.md:204) |
| `gremlins_merge` | violation | profiles are merged by session id alone (protocol.md:97) |
| `supervision` | pass | the flags follow the connection through replaced clients and queued reports; one retry, when needed; recovery |
| `lifecycle` | pass | gremlins age in one direction, not too early, and to the end |
| `lifecycle_idle` | violation | waiting and review stay on display after `idleAfter` (protocol.md:122) |

Deadlock checking is on in `supervision`, which never rests. It is off in the other
runs: publishers run a bounded number of times and the system then rests.

### Bounds

* `publishing`: four processes about one session, two of which run (`MaxRuns`).
  All properties relate at most two processes and one session, and processes
  touch each other only through the broker, so pairs are the interesting case:
  hook with hook, hook with naming run, naming run with naming run. Each hook has
  an input with every field and one with other spellings and little else, each in
  five environments (both flags, both prefixes of the variables, a flag that the
  newer variable switches off, a workspace id given or not), each of them with the
  directory on a symbolic link and without. Either hook may find no JSON, and the
  directory has a segment that is cut at a dash.
* `jsonl`: three of four lines in any order (a thread that starts, another thread
  with a turn that fails, an item without thread or state, a blank line), so that
  a thread is named, kept and changed. Two faults (`MaxFaults`), so that one may
  meet the handling of another; the broker's silence limit is one tick.
* `mqtt_client`: two packet ids for three publishes, so that they wrap; a
  keep-alive of two ticks, so that one and a half of it falls between two timeouts,
  and a shorter timeout for connecting; two messages of either QoS and two
  packets under way in each direction, so that a message may precede the SUBACK and
  a PINGRESP may meet a PUBLISH; one made-up message (`MaxForged`), with any id that
  the broker may be using. Time stops while two packets of the client are
  unread (`MaxInFlight`).
* `collector`: two hook events of one session and a stateless event; a queue of
  three, so that it overflows; one lost connection or broker crash, one write to
  its disk and one deletion. Heartbeats are part of the module and of its proofs,
  not of this instance: they update no row. Sessions do not share rows, and the
  second connection already brings everything a later one could.
* `gremlins`: one session, two events with a state, one without, one profile, one
  name given in the app, one kill, one lost connection or restart. Sources wait
  while two messages are on their way to the app (`MaxInbox`), which still lets a
  kill and a name overtake an event and its state. `gremlins_merge` has two
  workspaces with one session id instead.
* `supervision`: three client objects and three blocks in the main queue, so that
  two replaced clients are still closing while the current one reports, and a
  success, its loss and a stale report wait together. Failures, reconnects and
  changes of the host are not bounded.
* `lifecycle`: two events of three kinds with settings in the right and in the
  wrong order (one of them negative), two types of JSONL events, one of them without a
  state, publishers' clocks that are one second behind, right or ahead, and a clock of
  the app that runs past every deadline.

### Fairness

`publishing` assumes weak fairness of the steps of each process from connecting on,
since connect, send and receive have a socket timeout (mqtt.py:204, 211, 227) and the
rest is straight-line code. It assumes nothing of the network, the broker or the app,
nor that reading standard input ends, which depends on Codex closing it.
`jsonl` assumes the same of the adapter, and nothing of the agent, the broker, the
network or the next command. `mqtt_client` assumes that the client runs, that time
passes while it waits, and that TCP gives up on data that is never acknowledged;
the broker and the network may stop at any point. An `on_message` that never
returns is excluded: the one of the collector is two SQL statements.
`collector` assumes weak fairness of connecting and of handling: `run_mqtt` never
leaves its loop, and the properties allow for messages the broker dropped.
Publishers, deletions and lost connections are not fair. `lifecycle` assumes that
time passes and that the repeating timer of MenagerieApp.swift:329 fires.
`supervision` assumes that the queues run their blocks, that the retry timer fires,
that a cancelled connection ends, and that a network that has settled (`calm`)
lets a new connection become ready and answers its CONNECT. The last is an
assumption about the network: the client itself has no timeout for CONNACK.
`gremlins` states safety only.

### Where a property makes an exception

* `SplitOnlyByOverlap` allows a split pair when the runs overlapped, which the
  code cannot prevent, or when the later state's health has not been taken yet.
* `NoStaleOverwrite` speaks of earlier runs that ended without an error. The
  packet of a killed hook may still overwrite a newer document, and so may a broker
  that died: `Publishing` has a broker that forgets nothing.
* `NameReachesSession` is about a name given inside Codex with nothing but the name.
  Where the directory of the session is reached by a symbolic link and no workspace is
  configured, the tool and the hooks hash different paths, and the name goes to a
  workspace of its own (`SamePlace`). `MENAGERIE_SESSION_ID` outranks
  `CODEX_THREAD_ID` for the tool but not the session id of the input for a hook, so
  with it set names and hooks part. The property compares document ids only where the
  session id is not cut at a dash; topics are compared always.
* `PrivateByDefault` is about hooks. The JSONL adapter publishes each line as
  redacted raw payload whatever the flags say (events.py:560), as README.md:116
  promises the flags for hook payloads only.
* `DeliversInOrder` promises a prefix of what the broker sent, and `AcksFollowHandling`
  exactly the acknowledgements of it, until a timeout falls inside a packet. After that
  messages may be missing, made-up ones may be handled, and one of these may carry the id
  of a message that the broker sent, which is then acknowledged unread. What is left:
  real messages come in order and once, and nothing is acknowledged before something of
  its id was handled.
* `PingsWhenSilent` bounds how long the client neither sends nor reads. It does not say
  that the broker hears from it in time: messages with QoS 0 need no answer and put
  PINGREQ off, so the broker may drop a subscriber that keeps hearing them.
* `NotGivenUpEarly` counts the app's clock from the publisher's stamp: a publisher whose
  clock is behind has its gremlin given up earlier by as much.
* `ExitTellsTheTruth` promises documents only if there was a connection.
* `StatusCoversRetained` and `OrphansAreInherited` hold once the collector has
  drained its queue and nothing was dropped; a row may be ahead by one event. Like
  `StatusConverges` they are about workspaces that are not called `state`, in
  which documents of every kind update the rows.
* `NeverStranded` and `Recovers` speak of an app that was connected before. One
  that was not has no retry by design, and an app may be connected and deaf
  (MQTTClient.swift:157): connected means CONNACK.
* `ShownIsRetained` and `NameIsRetained` except documents the app deleted while
  the gremlin came back, and names lost with a connection; both need a user
  action that races with a message.

## Proofs

All theorems are of the form `Spec => ...` and are checked by `tlapm` with Z3,
Zenon and LS4. Some have a hypothesis about the constants beyond the assumptions of
the modules: `NoStateWorkspace` in `CollectorProofs`, `UniqueIds` in
`GremlinsProofs`; every passing run about these theorems satisfies them.

* `PublishingProofs`, from `PublishingAssumption`. `StateAnnounced`,
  `NoStaleOverwrite` and `SplitOnlyByOverlap` are not inductive: they need to
  know that a process that ended without an error has nothing in flight. `IInv`
  adds that the packet in flight is the one after the last the broker took
  (`InFlight`), that a process that has not failed has waited for everything it
  sent (`Blocking`), and that everything retained was written by its publisher.
  `ScriptKept` says that what a process will publish changes only while it reads.
  The lemmas on scripts say in which order a process writes; one lemma per group
  of conjuncts shows that a step keeps it. `PrivateByDefault` is proved for any input
  and any environment, from no further assumption: `ContentPermitted` follows every
  piece of the published event to where it comes from, and a preview in the stream
  item to the preview in the payload it is made of. `NameReachesSession` is proved
  from `OneSession` and `SegmentSettles`, for the environments in which the directory
  has one workspace by both its paths: the tool applies `topic_segment` once more
  than the hooks, which makes no difference from the second time on.
* `CollectorProofs`, from `DocumentsAssumption`, `NullIsNoDocument` and
  `CollectorAssumption`. `StatusInHistory` needs that two documents with one id are of
  one session and either equal or both carriers of a state (`SameId`), so whatever
  replaces the event row replaces the status row as well, and that only documents that
  update the status are in its table (`Indexed`). `RowsAreStates` assumes in addition
  that no workspace is called `state`; without that the substring test of
  collector.py:94 makes it false. The theorem says that this name is all that is
  wrong. `CoversRetained` and `OrphansInherited` speak of a drained queue, so neither
  is inductive: `Settled` says of every moment of a subscription that, whatever the
  row of a session will be once the queue is worked off, it fits what is retained. The
  last message that touches the row decides (`Settles`), so only what happens at
  either end of the queue has to be looked at: handling the first message does not
  change what the row will be, a new last one decides it. A subscription begins with
  everything retained in the queue, in any order within a filter. Both theorems assume
  that no workspace is called `state`: otherwise health documents update rows too.
* `GremlinsProofs`, from `DocumentsAssumption`, `GremlinsAssumption` and
  `NullIsNoProfile`: the types for any sources, and the three
  properties of a board that has caught up for any sources whose session ids differ
  (`UniqueIds`). Codex makes the ids, so they do; `gremlins_merge` shows what the app
  does where they do not. `Complete` says that every session of which something is
  retained is on the board or will be told of by the inbox. `NamesSettle` and
  `ReportsSettle` use `Settles` as in the collector: whatever name and whatever report
  the board will have once the inbox is worked off, it fits. Names need to know in
  addition that a gremlin has its own profile topic only (`OwnTopic`) and that a
  session without a retained profile has no name but one set in the app
  (`Nameless`); reports, that documents come from sources that have begun to publish,
  and that a state once published is retained or was deleted (`Begun`). A session the
  user killed during a subscription, a name lost with a connection and a document
  deleted by the app are the exceptions of the properties, and are carried through.
* `BrokerSupervisionProofs`, from `SupervisionAssumption`. All five safety
  properties follow from one invariant. `Says` is what a part of the queue will
  have made of the flag when it has run; the invariant says that the whole queue
  says how the connection is (`QueueSaysUp`), that the part before a message says
  "up" (`MessagesFindConnection`), that a client is current, cancelled or gone
  (`OneClient`), and how flags and retry go together. The lemmas `SaysAppend` to
  `SaysNothing` are about posting and running blocks; each action has a lemma.
* `JsonlAdapterProofs`, from `JsonlAdapterAssumption`: both refinements of `Pipe`,
  the exit status and the types, for any lines, threads, faults and bounds. `JInv`
  says what is known at each place of `main()` (`Phase`), that the remembered
  thread is the current one (`Remembered`), that what is written, flushed or not, is
  a prefix of the input and all of it that was read while nothing was raised
  (`Passing`), and that published and still to do are together what is due, the
  document whose PUBACK is on its way being in both (`Owed`). Types are not
  inductive without `Remembered`: what is due has a session only because the
  current thread is one that was seen. There is one lemma per conjunct with a step
  per action. `SequenceLemmas` has what is needed of sequences.
* `MqttClientProofs`, from `MqttClientAssumption`. `Counts` says that a publisher
  has at most one packet under way, in one direction, and which; `AckMeansTaken`
  follows, as both sides number the messages. `Silence` bounds how long the client
  has been silent by how long it waits. `PingsWhenSilent`
  follows, since reading or a timeout begins the wait anew and a timeout sends. `Order`
  is what `DeliversInOrder` needs: for a subscriber that has always known where packets
  begin, the messages on their way continue what it has handled without a gap
  (`Continues`), and while the connection is up they go on to the last one sent
  (`Completes`). `DeliversInOrder` alone is not inductive: it says nothing of what is
  still to be read. Once the framing was lost the invariant is weaker: the real messages
  that are still to be read come later than those handled, in order, since misreading
  swallows packets from the front and handles none of them. `AcksFollowHandling`
  needs that acknowledgements are complete until the first packet is stuck behind a
  lost connection (`Acknowledging`): from then on none is sent, so those that were
  remain the first ones. It keeps of that, once the framing was lost, that
  everything acknowledged was handled.
* `LifecycleProofs`, from `LifecycleAssumption`. The invariant `AInv` says that
  what is shown was inferred at a moment not later than now from the document
  last applied, or is the reported state while there are no deadlines, and that all
  deadlines grant the times configured for the publisher that computed them, in order.
  `LaterIsOlder` then gives the action property `OnlyAges`: the timer infers from the
  same document at a later moment.

Every safety property of the passing runs, every action property and every refinement
is a theorem. `StatusRowsAreStates` is a theorem only: with its hypothesis it has
nothing that a small instance could show. Only model-checked are the liveness
properties, which are out of the prover's reach (`EveryRunEnds`, `FinishesStream`,
`WaitsEnd`, `StatusConverges`, `Recovers`, `SilentSessionsExit`). The runs that expect
a violation have nothing to prove. The theorems hold for every value of the constants
that satisfies the assumptions; TLC evaluates each assumption on the instances, so
none of them excludes everything.

## Not modelled

The patterns of `redact_text`, the wording of documents, severities and tones; the
bytes of packets; HTTP handlers, which only read (a negative `limit` passes
`min(limit, 500)` at collector.py:164 and SQLite then lists everything, which is
no state); windows, views and the keychain; wrappers, packaging and the smoke test.
JSON that no publisher here produces is left out of the collector and the app, and
text that is not UTF-8 or cannot be encoded out of the JSONL adapter. TLS
and authentication appear only as a connection that fails. Each hook leaves a
retained heartbeat that nothing deletes (publisher.py:98): unbounded by design, and
nothing to check.

## Plan

Done, in this order: `Protocol`, `Publishing` with its proofs, `Collector` with
its proofs, `Documents`, `Gremlins`, `Lifecycle` with its proofs,
`BrokerSupervision` with its proofs, `Pipe`, `JsonlAdapter` with its proofs,
`MqttClient` with its proofs, `Normalization` and `HookInputs` with their proofs, the
broker's disk in `Collector`, the properties of a drained collector, and the proofs
about `Gremlins`.

Next, the most important first:

1. How the components fit together, as theorems: that the coarser steps of
   `Publishing` and `Collector` are what `MqttClient` does.
2. The broker's disk in `Gremlins`, in an instance of its own with fewer documents:
   with those of the present one the state space is too large.
