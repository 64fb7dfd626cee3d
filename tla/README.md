# A verification project for the EM IoT platform

TLA+ models of the platform's programs, TLC configurations that check them on
small instances, and theorems that TLAPS proves for every value of the
constants. The source is `src/`; every definition that models code is listed
with the lines it stands for under `map` in `PROJECT.json`. Paths below are
relative to `src/services/PubSub_Server/` unless they begin with `src/`.

## 1. The system

Devices hold one TCP connection each to a broker written in Python (asyncio).
A frame is a type byte, a 16-bit length and a JSON payload. The broker
authenticates a device with an HTTP backend, forwards the messages it publishes
to the devices that subscribed to their topic, appends them to Kafka, and
writes backend commands to the device they are for. A Kafka consumer in the same
process stores telemetry in MongoDB, which an HTTP API queries. The other end of
the TCP connection is a C++ library for Arduino.

| Component | State | Operations | Talks to |
|---|---|---|---|
| Access rules (`broker/acl.py`), matching, choice of Kafka topic | none | `check_publish_acl`, `check_subscribe_acl`, `_matches`, head of `send_message` | called by handlers, manager, producer |
| Subscription manager (`broker/subscriptions.py`) | `_subscriptions` (pattern → clients), `_client_subs` (client → patterns) | `subscribe`, `unsubscribe`, `remove_client`, `get_subscribers` | handlers, `_cleanup`, `register_connection` |
| Connections and handlers (`broker/connection.py`, `handlers.py`) | per connection: coroutine, `device_id`, writer | `run`, `handle_*`, `_cleanup` | registry, manager, producer, backend |
| Registry (`broker/server.py`) | `_connections` (device id → connection) | `register_connection`, `unregister_connection`, `get_connection` | connections, command routing |
| Command routing (`main.py`) | none | `route_command_to_device` | registry |
| Producer, consumer (`kafka_bridge/`) | Kafka log, position, committed offset, running task | `send_message`, `send_status`, `start`, `_consume_loop`, `stop` | Kafka, handlers, writer |
| MongoDB client (`mongodb_layer/client.py`) | client, collection with a time to live | `initialize`, `_ensure_timeseries_collections`, `close` | MongoDB, `main` |
| Writer (`mongodb_layer/writer.py`) | documents | `handle_telemetry_message` | MongoDB |
| Send buffers (asyncio transports, as `handlers.py` and `main.py` use them) | bytes not yet taken by the peer, coroutines in `drain()` | every `write` and `drain` | connections, command routing, devices |
| Device library (`src/firmware/lib/PubSub_Client`) | `_state`, `_pingOutstanding`, activity times, socket | `connect`, `publish`, `subscribe`, `unsubscribe`, `loop`, `disconnect` | broker |
| Process life cycle (`main.py`, `server.py` start/stop) | which parts run | start-up, shutdown | all |
| Wire format (`protocol/`, `sendFrame`) | the bytes under way | `encode_frame`, `read_frame`, `sendFrame` | both ends |
| Queries (`mongodb_layer/queries.py`, `api/`) | none; documents with times | two queries | MongoDB |

**What is hard here.** One event loop runs all coroutines, so a stretch between
two `await`s is atomic, and everything may change over an `await`: the
registration of a second connection of a device while the first is about to
clean up, the departure of a subscriber while a publication is being forwarded
to another, the loss of a connection during its authentication. Two ends written
in two languages wait for each other with time limits and take one frame for an
answer. The consumer's offset is committed by a timer that knows nothing of the
message in hand. A write to one device suspends the coroutine that serves
another. A shutdown closes in turn what sessions still use. `PROJECT.json` lists
each of these hazards at its line, with the properties that would catch it or
the reason why none does.

**What makes each part correct.** Access: a device only ever receives what its
rules let it subscribe to. Manager: its two indexes name one relation and
publications reach exactly that relation. Broker: registry, subscriptions and
reported status follow the sessions and never outlive them; nothing is written
to a session that has ended; every connection is released. Device: what the
library believes of its connection is true of *this* connection; calls return; a
dead broker is noticed. Wire: what is handled is what was sent, and what was
reported as sent is not lost in silence. Buffers: they stay bounded, and a
coroutine waits for ever only for a device that does not read. Pipeline: a reading is lost or
repeated only where a fault struck; queries answer with the newest; documents
expire. Life cycle: nothing is closed before those who use it.

## 2. The modules

| Module | Stands for |
|---|---|
| `TopicRules` | `acl.py`, `_matches`, the Kafka topic of a message |
| `SubscriptionRelation` | abstract: a set of (client, pattern) pairs |
| `Subscriptions` | the manager with both dictionaries |
| `SubscriptionsProofs` | theorems about it, and that it implements the relation |
| `Broker` | connections, handlers, registry, status events, command routing; uses `Subscriptions` by INSTANCE |
| `BrokerProofs` | theorems about the broker |
| `DeviceClient` | the firmware library, the two byte streams, a broker that answers or vanishes, time |
| `DeviceClientProofs` | theorems about the library |
| `Pipeline` | Kafka topics, consumer task, writer, faults and restarts |
| `PipelineProofs` | theorems about the pipeline and its store |
| `TelemetryStore` | the collection, its time to live, documents and the two queries |
| `WireFormat` | the bytes between library and broker: both encoders, `read_frame`, writes in part |
| `WireFormatProofs` | theorems about the bytes |
| `SendBuffers` | transports' buffers, `drain()`, and the coroutines that wait in it |
| `SendBuffersProofs` | theorems about the buffers |
| `Lifecycle` | `main()`: start, degraded modes, interrupt, cleanup, beside the sessions |
| `LifecycleProofs` | theorems about the shutdown |
| `MC*` | the constants for TLC |

`Broker` EXTENDS `TopicRules` and instantiates `Subscriptions` with its own
`subscriptions` and `clientSubs`; `Pipeline` EXTENDS `TopicRules` for the topic
choice and instantiates `TelemetryStore`, whose actions are parts of its own:
starting a process makes sure of the collection, handling a message inserts its
document. `DeviceClient` is the other end of one connection of `Broker`: it keeps
of the broker what a single device sees of it. `WireFormat`, `SendBuffers` and
`Lifecycle` look at the same connections from below and above: bytes instead of
frames, buffers instead of a `drain()` that returns, a whole process instead of
a server that runs. Each keeps of the session only what its question needs.

Definitions marked `Fault:` are plausible mistakes in the definition that
follows them. Each property has one that breaks it (`mutants` in
`PROJECT.json`); no specification refers to them.

### Topics

A topic is the sequence of its segments. The code works on strings, and in two
places this shows. `check_subscribe_acl` strips the closing slash of
`devices/{id}/` before it compares prefixes: the constant `Extends` holds the
pairs of identifiers one of which begins with the other, and the assumption
`ExtendsAssumption` says that an identifier begins with itself and that only the
empty one begins the wildcard `#`. `send_message` looks for `commands/response`
anywhere in the topic: the constant `SpellsResponse` holds the pairs of
neighbouring segments that spell it, the two words themselves among them
(`SpellsResponseAssumption`). Identifiers are one segment long (none contains a
slash).

### Broker

An action is what a coroutine does from one suspension to the next; `phase[c]`
says at which `await` connection `c` waits. A frame that arrives and its handler
up to the next `await` are one action (`Publish`, `Subscribe`, ...); the return
of an `await` is another (`ForwardResume`, `ReplyDone`, `OfflineSent`, ...).

| Code | Model |
|---|---|
| `_connections`, `device_id` | `connections`, `deviceId` |
| payload of CONNECT while the backend is asked | `claimed` |
| transport open, `close()` called, lost | `sock` |
| the rest of the subscriber list in `handle_publish` | `pending` |
| PUBLISH frames put on a writer | `written`, as (sender, topic) |
| last event of a device in `iot.device-events` | `status` |

Details a reader may look for:

- `handle_publish` takes the subscribers once and looks up each connection when
  its turn comes. `Forward` follows it: the set is a snapshot, the registry is
  read anew.
- `drain()` returns at once on a writer with nothing buffered, so the CONNACK
  and the registration are one action, unless the transport is lost
  (`AuthAcceptedLost`); `drain()` then suspends and raises with `device_id` set
  and nothing registered.
- `_cleanup` goes by the device id, whoever runs it, and an id that is `""`
  counts as none.
- `send_status` puts the event in the log when it is called; `KafkaReliable =
  FALSE` lets Kafka refuse it.
- With `STUB_AUTH` the backend's answer is immediate: `Connect` followed by
  `AuthAccepted`.
- A slot is used again only when no registry entry leads to it, so that a new
  connection is not taken for an old one.

### DeviceClient

The library is single-threaded and polls. `call` names the call in progress;
`Tick` lets time pass, in units of the two time limits, which are both 1.
`toBroker` and `fromBroker` are the frames under way; `aligned` is whether the
next byte begins a frame: `readFrame` may return with a header taken and its
payload still in the stream, after which it reads payload bytes as headers.
`accepted`, `granted`, `confirmed` and `sincePing` record what is true of the
present connection, for the properties to compare with what the library
believes; `late` that a call has returned without its answer. From then on the
answer may be taken for the next call's, and `ConfirmedGranted` says nothing: a
late SUBACK makes the next `subscribe()` return true for a pattern that the
broker refuses. A CONNACK that cannot be parsed leaves the library in a state of
its own, rejected, with the connection stopped. `Demanded` is the set of fields the
broker requires of a CONNECT. In the code the library does not send one of them,
the secret, so nothing after the CONNACK would ever happen (see section 3); the
runs demand those fields that the library sends.

### Pipeline

One partition, one consumer group. `AutoCommit` commits the position at any
time, the message in hand included, as aiokafka does by default; a crash, a
shutdown, an error of Kafka or of MongoDB may come at any point, and an insertion
that is cut short may or may not have reached the database. `loop = "ended"` is
a task that is over while the process goes on, which the code never repairs.

A message carries the timestamp of its payload, or none, and the time at which
`send_message` passed it on; the document has the first of the two that there
is. The payload's is of the device's own clock, which may be ahead: such a reading
is stored and shows when the server's clock has come to it. Each insertion of a
message makes a document of its own (`<<number, timestamp, copy>>`), so a reading
that is inserted again takes another place of a query's limit. `EnsureCollection` is what every start does to the collection, which may
have been made by hand without a time to live. A query is the set of its
possible answers: which of several equally old documents the limit cuts off is
MongoDB's choice.

The weather station example sends the seconds since its start as a timestamp,
which the writer takes for milliseconds since 1970. Its documents have the model
time 1, past their time to live when they are inserted: the history query never
shows them and MongoDB removes them.

### WireFormat

A byte has `Base` values and a length is below `Base * Base`, as 256 and 65536.
Of JSON the model keeps that text has no control character, and so no type code
and no high byte of a short length, that an object ends at its last byte, and
that it has two bytes at the least, its braces;
`Unquoted` is a text that is no object, which `publish()` makes of a topic or
payload with a quote. The encoders are two definitions, from the two languages;
`Header` of the library works on a length that `PayloadLen` has cut to 16 bits.
`WriteCut` is a `write()` that takes part of a frame, after which the library
goes on; `Ends` is the loss of any suffix of the stream.

`reported` are the payloads for which `publish()` returned true; `sent` those of
them that went out whole. The two differ when a length has wrapped: the call
returns true and other bytes go out. `ReportedHandled` says that the broker ends
the session of such a frame rather than pass it over, as it does with an
`Unquoted` one. A payload of exactly 65536 bytes is the exception: it goes out as
an empty frame, which the broker takes.

`CutEnds` says that a session does not survive a cut. Two cuts it may survive: the
first byte of a PUBLISH and the first three of a ping, with nothing more of either,
make up the header of an empty frame, and the stream is in step again, which TLC
shows if the property is stated for any number of cuts. Without a cut a session
need not end, and a device may ping for ever (`PingWhole` is not counted among
the frames).

### SendBuffers

`out` counts the frames in a transport's buffer, `drains[w]` is the connection a
coroutine waits for. `drain()` returns at once below the high-water mark; above,
it waits until the device has read down to the low one, or raises when the
connection is lost. Who waits decides what the exception does: `handle_publish`
and `route_command_to_device` log it, a reply's ends the session. The one
coroutine of the commands consumer is `Commands`. A device whose write is
blocked does not read, which is how two publishers that subscribe to one another
come to wait for each other.

No `drain()` has a time limit, and TCP does not give up on a peer that
acknowledges without reading, so such a wait may last for ever. The model does
not assume it away: devices outside `Readers` may stop to read, and connections
need not fail. `Stuck` is the set of connections a wait for which may last: the
devices that may have stopped to read, and the devices that are blocked while the
coroutine that ought to read from them waits, in its turn, for one of these: a
chain that ends in a device that does not read, or a circle (two publishers, or
one device whose own replies fill its buffer). `WritersContinue` says that every
other wait comes to its end.

### Lifecycle

`stage` is the `await` that `main()` is at. Each service fails as the code lets
it: MongoDB leaves `mongo_manager` empty, the producer is there but dead, a
consumer's task ends for good, `start_server` goes straight to the cleanup. A
connection is taken while the server listens; its handshake may be accepted or
refused later, whatever `main()` is at by then, and on a connection that was
reset it ends in a cleanup that speaks for the device. A session is left and
cleaned up in two steps, and its transport may be reset at any time, because
`wait_closed` waits for transports and not for coroutines. `parameters` are those of `KafkaTopicConsumer.__init__`: as declared,
where `main()` raises TypeError before its `try` and the process is down, and as
`main()` names them, where everything else happens.

## 3. The runs

Passing:

| Run | Instance | States | Shows |
|---|---|---|---|
| `subscriptions` | 3 clients, 3 patterns (exact, `/#`, `#`), 4 topics | 729 | indexes agree, no empty pattern stays, topics reach exactly the holders of a matching pattern, the relation is implemented |
| `broker` | 2 connections, ids `d1` and `""`, 2 frames each, Kafka may refuse | 255 k | registry and subscriptions never outlive the sessions; the dictionaries change through the manager only; connections that are closed or lost are released, handshakes end |
| `broker_forward` | 3 connections, ids `d`, `d1`, `d10`, 1 frame each, patterns granted and denied | 2.2 M | a message goes no further than to devices whose id begins the sender's, and never to a session that has ended, while subscribers leave and return; no device stays online in the log |
| `device_library` | 2 frames each way | 310 k | connected means accepted on this connection, a ping is this connection's, a confirmed pattern was granted, a dead broker is noticed, calls return |
| `pipeline` | 2 messages, timestamps none, old or ahead, 2 faults of any kind, limit 2 | 514 k | each fault loses at most one reading and adds at most one copy; the latest document is the newest; a reading of the hour is in the answer unless documents no older, copies included, fill it; without a fault, a reading is stored, and removed in the end |
| `wire` | 3 frames and pings, 8 payloads, a byte of 5 values | 626 k | what is handled was sent, in order and with nothing skipped; what `publish()` reported is handled or the session has ended; a cut ends the session of a device that goes on talking |
| `backpressure` | 3 connections, 2 of them send and read on, marks 2 and 1 | 69 k | buffers are bounded, only a session's own connection ends it, a wait in `drain()` lasts only for a device that does not read or is blocked in a circle or chain |
| `lifecycle` | 2 devices | 5.2 k | users are closed before what they use, no device is left online but a reset one, the shutdown ends once the connections are closed |

Runs that end in a violation, each of a sentence of the repository:

| Run | Violated | The code does |
|---|---|---|
| `replaced_cleanup` | `ActiveRegistered` | the cleanup of a replaced connection removes the entry of its successor (`broker/connection.py:133`) |
| `prefix_forward` | `OwnTopicsOnly` | the subscribe rule compares prefixes without the closing slash, so `d1` is sent what `d10` publishes (`broker/acl.py:57`) |
| `device_pong` | `PongGivenTime` | the first `loop()` after a ping gives up, whether its answer is there or not (`IoTPubSubClient.cpp:379`) |
| `mongo_outage` | `CommittedStored` | a failed insertion is logged and its offset committed (`mongodb_layer/writer.py:83`) |

Consequences of the same code that have no run of their own:

- After `replaced_cleanup` the device is offline in the log while its session
  goes on, and a third connection does not close the second.
- `connect()` puts no secret into its CONNECT (`IoTPubSubClient.cpp:219`), which
  `ConnectPayload` requires (`protocol/models.py:18`): the broker answers
  `invalid_payload` to every connection of the library.
- A shutdown that cancels the handler loses the reading in hand the way a failed
  insertion does.
- As the code stands `main()` passes `handler=` and `name=` to a consumer that
  takes neither (`main.py:116`), so the process ends before the broker listens.
- The server waits for its connections before `stop()` closes them
  (`broker/server.py:97`, Python 3.12): a shutdown lasts as long as a device
  stays, and the loop that closes connections finds none open.
- What `prefix_forward` shows goes as far as identifiers that begin one another
  and no further: `ForwardRelated`, and the theorem `AccessRules`.
- A device that acknowledges and does not read holds up its publishers and all
  commands for as long as it stays (`broker/handlers.py:101`, `main.py:71`).

Observed while reading, without a property: a device whose id is `""` leaves its
registry entry behind; a message that arrives while `subscribe()` waits is read
and dropped; a frame larger than the library's buffer leaves the stream within a
frame; command responses go to `iot.device-events` although a topic of their own
is defined; commands are routed by device and not by subscription; the history
route takes `start`, `stop`, `fields` and `aggregate` and uses none of them.

### Bounds, and why they are enough

- *Connections.* What goes wrong between connections of one device needs the
  one that ends, the one that is registered and a third that takes its place.
  The sessions of a slot repeat without bound: only frames per session are
  bounded (`MaxFrames`), slots are used again.
- *Frames.* One frame per session is enough for a publication; two let a session
  subscribe and unsubscribe, or subscribe after it was replaced.
- *Identifiers.* `d`, `d1`, `d10`: one that begins with another twice over, so
  that a publication of `d10` has two other possible subscribers and
  `handle_publish` suspends in the middle of its list.
- *Device.* A tick is both time limits: what matters is whether a limit has
  passed, not by how much. Two frames under way let an answer be late by one
  call. Frames sent to a broker that is gone are not kept.
- *Pipeline.* Two faults let one strike what another left (a crash after a
  failed insertion, two crashes before the same commit). Two messages, one
  handled and one behind it, with timestamps that may contradict their order.
  The clock goes on until both are past their time to live (`SendUntil`, `Ttl`;
  no timestamp is later than `SendUntil`). With a limit of two the documents of
  both readings fit, and two documents of one reading hide the other.
- *Wire.* With five values to a byte a length of 6 or 7 has a type code for its
  low byte, 25 wraps to nothing and 28 to three bytes of text: the cases that 256
  values have at 257, 258, 65536 or 65539 bytes. A cut frame, the one read across
  it and a third that may be taken for something else need three frames. Whole
  pings are not counted; they wait while 8 bytes (`MaxBytes`) are unread, two
  frames.
- *Buffers.* Marks of 2 and 1 keep the two apart; two coroutines besides a
  session's own may wait for one connection. Reconnections are not bounded.
- *Life cycle.* One session of a device at a time and one interrupt. Two devices
  let one leave while the other's connection is reset.
- Symmetry is used over connections, in runs without temporal properties beyond
  `[][A]_v`.

Three runs may stop for good (`CHECK_DEADLOCK FALSE`): `pipeline`, when all
messages are published and expired, all faults spent and the consumer has ended;
`wire`, when the session has ended or all frames are read; `lifecycle`, when the
process is down. Every other run checks for deadlock.

### Fairness

- `Broker`: weak fairness of each connection's own steps (`ServerStep`): every
  `await` but `read_frame` is of Kafka, HTTP or a drain, each of which has a
  time limit or depends on the peer; `read_frame` has its own (10 s, 120 s). A
  closed transport is lost in the end. This assumes that a `drain()` comes to its
  end: `Released` and `HandshakeEnds` are about a broker without the waits that
  `SendBuffers` shows to last (`Stuck`). No fairness is assumed of devices.
- `SendBuffers`: a coroutine that can go on does, a frame that a device is blocked
  with is taken when there is room for it, and the devices of `Readers` read again
  and again between their writes (strong fairness, because a blocked write
  disables it now and then), as their `loop()` does. No connection is assumed to
  fail, no other device to read, and no coroutine to get out of `drain()`.
- `DeviceClient`: time passes, a call that can return does, and the application
  calls `loop()` between its other calls again and again, as `IoTPubSubClient.h`
  asks (strong fairness, because other calls disable it now and then). None of
  the broker or the network.
- `Pipeline`: the task runs and a process that is down is started again, as its
  deployment does; time passes and MongoDB looks for expired documents again and
  again. No fairness of commits.
- `WireFormat`: the reader runs and its time limit passes. None of the device.
- `Lifecycle`: `main()` and the cleanups run. No device has to leave, so the
  shutdown is claimed to end only once the connections are closed.

## 4. The proofs

Every safety property that a passing run checks is proved, for every value of
the constants, except `ReportedHandled`, which is model-checked only. What the proofs take for granted is in the assumptions, which TLC
evaluates for each run's constants:

- `ExtendsAssumption`, `SpellsResponseAssumption`: about strings, see above.
- `SubscriptionsAssumption`, `BrokerAssumption`: topics and patterns are
  sequences of strings; the null values are not connections or devices; the
  bound is a number.
- `SendBuffersAssumption`: finitely many connections, none among its own
  subscribers; senders and readers are among them; the low-water mark is not above
  the high one; a device can send at least one frame before it blocks.
- `DeviceClientAssumption`: patterns are strings; the time limits, and the frames
  that a stream holds, are positive numbers.
- `PipelineAssumption`: topics are sequences of strings, timestamps numbers;
  messages are sent for one tick at least, or the clock, which starts past the
  time to live, would start past its bound; a history query looks back no further
  than the time to live, and its limit is positive.
- `WireFormatAssumption`: a byte has more values than the five that the model
  tells apart; a payload is longer than the largest type code is large (the
  shortest CONNECT or PUBLISH has dozens of bytes, the codes end at 11); the
  library's buffer holds a header and no more than a length field can say.

**`SubscriptionsProofs`.** `TypeOK`, then `IndexAgree`: a client is in a
pattern's entry exactly if the pattern is in the client's. It is inductive with
`TypeOK` because `remove_client` finds a client's patterns through the client
index and would miss some if the indexes disagreed before. `NoEmptyPattern`
follows the same scheme. `SubscribersFound` joins `IndexAgree` to what matching
means (`MatchesMeaning`: a pattern matches a topic when it is the topic, or a
beginning of it with `#` behind). `Implementation` maps the pattern index to a set of
pairs and shows that each operation is the relation's operation of that name.

**`BrokerProofs`.** Eight theorems.

- `TypeCorrect`, `ManagerImplemented`: every step of the broker is a step of the
  manager or leaves it alone (`StepSubscriptions`), so the manager's lemmas hold
  in the broker without proving them again.
- `RegistryAlwaysLive`, `NoSubscriptionOrphaned`, `NeverStaleOnline`. Each is
  inductive with the type invariant. The argument looks at what a step does to
  a session (`StepKinds`): it begins one, handles a frame in it, ends one, or
  none of these. A step that ends a session removes the device's entry,
  subscriptions and online status at once, whichever connection of the device it
  is: the very thing that makes `ActiveRegistered` fail makes these three hold.
  `NoSubscriptionOrphaned` needs `IndexAgree`: otherwise `remove_client` would
  leave a subscription.
- `AccessRules`: if the topic of a publication that the rules let `e` make
  matches a pattern that they let `d` hold, `d` begins `e`. This is weaker than
  what `acl.py` says of the rule; `prefix_forward` shows that the stronger fails.
- `ForwardingRelated`: with `AccessRules`, an invariant over the whole way of a
  message: patterns held are allowed (`PatternsAllowed`), pending deliveries are
  related (`PendingRelated`), registry entries lead to connections of that
  device (`EntryNamed`), and what was written stays related because a
  connection's id is set once.
- `NeverWrittenAfterEnd`: an action property, from the fact that a connection
  that is written to is a registered one, hence live.

**`SendBuffersProofs`.** Three theorems. `BufferBounded` is inductive only with
`BufferInv`: a transport that has not asked its writers to pause is at most at
the high-water mark and nobody waits for it. A write that finds the transport
below the mark then needs no one to account for it, and one that finds it above
adds its coroutine to those that wait (`WriteKeeps`); whenever they are woken,
the buffer is at the low-water mark or gone (`ReleaseWakes`).
`PublishersSurvive` follows from the types: the exception of a lost subscriber
reaches a session only through its own connection.

**`LifecycleProofs`.** Three theorems, from one invariant. `ServicesInv` says what
has been started and what is closed at each stage of `main()`. `DeviceInv` says
that a session has a transport until it is closed or reset, that none is up once
the server is closed, and that a device is online while it is served, and
afterwards only if its transport was reset and the producer closed before its
cleanup. `UsersFirst` needs the first part, `OfflineUnlessReset` both.

**`DeviceClientProofs`.** Four theorems, from one invariant. What the library
believes is compared with the present connection, but what it reads may be of
any age, so the invariant follows the frames of both streams.

- `ClosedInv`: a closed socket has nothing on its streams, and nothing accepted,
  granted or confirmed.
- `ConnackInv`: an accepting CONNACK on its way was sent on this connection.
  `ConnectedAccepted` and `PingOwn` need these two.
- `AnswersInv` is for `ConfirmedGranted`, and holds as long as no call has
  returned without its answer (`late`): one request or one answer is under way at
  the most, over both streams together; it is that of the call in progress; and
  an answer that grants is about the pattern asked for. When a call does return
  early both the invariant and the property fail, which is why the property is
  conditional. `Less` and its lemmas say once that reading a stream, losing it or
  sending other frames adds no request and no answer.

**`PipelineProofs`.** Five theorems, from one invariant. `PositionInv` orders the
offsets: where the group began, its commit, the position. `CopiesInv`
strengthens `CopiesBounded`: a message has one copy for each fault and one more
only if the process that runs now is done with it, because only a fault brings
the position back. `LossBounded` is inductive with both: the messages lost
(`Lost`) grow by the one in hand at the most, in a step that is a fault.
`StoreInv` ties the documents to the readings: a document has the time of its
message and a number up to the message's copies, and a reading that is within its
time to live has a document for each of its copies. From it `LatestNewest` and
`VisibleAnHour` follow in each state, the second by counting: an answer that
leaves out a document of the hour is as long as the limit, and its documents are
pairs of a reading and one of `faults + 1` copies (`PlacesTaken`).

**`WireFormatProofs`.** Four theorems. After a cut write the broker looks for
frames in the midst of others; it must neither take what it finds for a message
nor read past one. The invariant `Framed` says that the messages that went out
whole and have not been handled lie on the stream in order (`Good`), and that an
object can end nowhere else. Wherever the bytes are read from, an object ends in
a brace behind a byte of text; on the stream that is the end of one of these
messages, or the two are the bytes of a length, behind the zero of the flags
(`NoEnd`). Or else the next byte is no type (`Doomed`) and the session ends.

- `SendFrameQuiet`, `AppendQuiet`, `AppendFrame`: a frame that is cut, or whose
  length wrapped, adds no end of an object; a whole one adds its own.
- `CutShort`: when the connection ends, the messages that had not left the
  device are gone and the others lie where they lay.
- `EmptyRead`: a frame without payload reaches into a message in one way only,
  from the byte before it. The next byte is then the low one of that message's
  length, which is no type.
- `ObjectIsFirst`: an object that the broker reads ends where a message ends, and
  begins there too: at each other place for its header the two lengths contradict
  each other, or a type code or a zero lies within text. No message lies in front
  of it, so it is the first.
- `EncodersAgree` compares the two encoders: what `sendFrame` writes is what
  `encode_frame` makes of as much of the payload as 16 bits can count, and of the
  whole payload exactly if 16 bits can count it.

**Only model-checked.** `ReportedHandled`. Liveness (`Released`, `HandshakeEnds`, `DeadBrokerNoticed`,
`CallEnds`, `ReadingsStored`, `Retained`, `CutEnds`, `WritersContinue`,
`ShutdownEnds`): the prover does not reason about fairness and ENABLED. No
definition that the theorems are about is recursive, so no proof needs induction
over data.

## 5. Not modelled

- `decode_frame`, which only the tests call; it rejects as too short or invalid
  what `read_frame` takes for an empty object (a length of zero).
- JSON's escapes. A forwarded payload is encoded anew by `json.dumps` and may grow
  past 65535 bytes; the frame is then dropped for that subscriber like after any
  other error of forwarding.
- The library's receive buffers of 256 bytes, its setters and string handling.
- A second interrupt, and signals without a handler: `main.py` imports `signal`
  and installs none, so SIGTERM skips the cleanup and leaves the devices online in
  the log. The API's thread, with an event loop of its own on a MongoDB client
  made on the main one.
- Two replicas, as `src/k8s/base/pubsub-broker/statefulset.yaml` asks for: registry
  and subscriptions are in the memory of one process, and the code has no
  communication between two that a model could follow.
- The HTTP exchange of authentication beyond its two answers, HTTP statuses of the
  API, configuration, deployment manifests, monitoring, the web page and the
  services that are stubs.

## 6. Plan

1. What holds of the broker instead of `ActiveRegistered`: an open session that is
   not registered began before another connection of its device was cleaned up.
2. The safety part of the liveness arguments: what a waiting state waits for is
   on its way (a coroutine in `drain()` has a connection above the low-water
   mark, a call in progress has a limit that the clock reaches).
