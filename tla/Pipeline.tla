------------------------------ MODULE Pipeline ------------------------------
(***************************************************************************)
(* The way of a device's message to the database: the Kafka topics the     *)
(* producer fills (kafka_bridge/producer.py, send_message), the consumer   *)
(* of the telemetry topic (kafka_bridge/consumer.py, KafkaTopicConsumer)   *)
(* and its handler, the MongoDB writer (mongodb_layer/writer.py).          *)
(*                                                                         *)
(* A topic is one partition, where the messages of one device keep their   *)
(* order, and an offset is the number of messages before it.  The consumer *)
(* commits its position in the background, as the Kafka client does by     *)
(* default, and the last time, if it can, when it is stopped.  The         *)
(* documents are kept by the component TelemetryStore.                     *)
(***************************************************************************)
EXTENDS TopicRules, FiniteSets

CONSTANTS
  TopicNames,   \* the topics that devices publish on
  NoOffset,     \* the group has committed nothing yet
  FaultKinds,   \* the faults that may happen: among "mongo", a call of MongoDB
                \* that fails, "kafka", an error of the consumer, "stop", the server
                \* is shut down, and "crash"
  Stamps,       \* the timestamps that payloads carry
  MaxMessages,  \* bound: the messages published
  SendUntil,    \* bound: the time until which messages are published
  Ttl, Window, Limit, \* see TelemetryStore
  MaxFaults     \* bound: the faults that happen

ASSUME PipelineAssumption ==
  /\ TopicNames \subseteq Seq(STRING)
  /\ FaultKinds \subseteq {"mongo", "kafka", "stop", "crash"}
  /\ Stamps \subseteq Nat
  /\ MaxMessages \in Nat
  /\ SendUntil \in Nat \ {0}
  /\ Ttl \in Nat /\ Window \in 1 .. Ttl /\ Limit \in Nat \ {0}
  /\ MaxFaults \in Nat
  /\ NoOffset \notin Nat

VARIABLES
  logs,       \* Kafka topic -> the messages in it
  loop,       \* where _consume_loop is: "none", there is no process; "joining",
              \* "polling" and "handling", in start(), getone() and the handler;
              \* "stopping" and "failing", in its finally clause on a shutdown
              \* or an error; "ended", it is over and the process goes on
  position,   \* the offset the consumer reads next
  committed,  \* the offset the group has committed
  copies,     \* offset of a message -> how often it was inserted
  base,       \* the offset at which the group began to read
  faults,     \* the faults so far
  now, collection, documents  \* the state of TelemetryStore

Store == INSTANCE TelemetryStore
storeVars == <<now, collection, documents>>

vars == <<logs, loop, position, committed, copies, base, faults, storeVars>>

KafkaTopics == {TelemetryTopic, StatusTopic, ResponseTopic}

\* A message is a reading if the writer can make a document of it: its payload is
\* an object with a field besides device_id and timestamp, and the timestamp is a
\* number, its stamp, or missing.  Its time is the one that send_message adds.
Messages == [topic : TopicNames, reading : BOOLEAN, stamp : Stamps, time : Nat]

telemetry == logs[TelemetryTopic]

Init ==
  /\ logs = [k \in KafkaTopics |-> <<>>]
  /\ loop = "none"
  /\ position = 0
  /\ committed = NoOffset
  /\ copies = [n \in 1 .. MaxMessages |-> 0]
  /\ base = 0
  /\ faults = 0
  /\ Store!Init

Published ==
  Len(logs[TelemetryTopic]) + Len(logs[StatusTopic]) + Len(logs[ResponseTopic])

-----------------------------------------------------------------------------
\* send_message: Kafka has the message, with the time, in the topic chosen for it.
\* The stamp is the device's own, of a clock that may be behind or ahead.
SendMessage(message) ==
  /\ Published < MaxMessages
  /\ now <= SendUntil
  /\ logs' = [logs EXCEPT ![KafkaTopic(message.topic)] = Append(@, message)]
  /\ UNCHANGED <<loop, position, committed, copies, base, faults, storeVars>>

\* A process begins: main() makes sure of the collection and starts the task.
Start ==
  /\ loop = "none"
  /\ loop' = "joining"
  /\ Store!EnsureCollection
  /\ UNCHANGED <<logs, position, committed, copies, base, faults>>

\* Fault: the consumer takes no notice of what its group has committed.
JoinedLatest ==
  /\ loop = "joining"
  /\ loop' = "polling"
  /\ position' = Len(telemetry)
  /\ base' = IF committed = NoOffset THEN Len(telemetry) ELSE base
  /\ UNCHANGED <<logs, committed, copies, faults, storeVars>>

\* Fault: "latest" is taken for the offset after the next message.
JoinedPast ==
  /\ loop = "joining"
  /\ loop' = "polling"
  /\ position' = IF committed = NoOffset THEN Len(telemetry) + 1 ELSE committed
  /\ base' = IF committed = NoOffset THEN Len(telemetry) ELSE base
  /\ UNCHANGED <<logs, committed, copies, faults, storeVars>>

\* The consumer begins where its group has committed, or at the end of the topic
\* if it never has: auto_offset_reset is "latest".
Joined ==
  /\ loop = "joining"
  /\ loop' = "polling"
  /\ position' = IF committed = NoOffset THEN Len(telemetry) ELSE committed
  /\ base' = IF committed = NoOffset THEN Len(telemetry) ELSE base
  /\ UNCHANGED <<logs, committed, copies, faults, storeVars>>

\* Fault: a message is taken when there is another one behind it.
GetOneBehind ==
  /\ loop = "polling"
  /\ position + 1 < Len(telemetry)
  /\ position' = position + 1
  /\ loop' = IF telemetry[position + 1].reading THEN "handling" ELSE "polling"
  /\ UNCHANGED <<logs, committed, copies, base, faults, storeVars>>

\* getone() returns the next message; the writer passes over what is not a
\* reading and inserts a document for what is.
GetOne ==
  /\ loop = "polling"
  /\ position < Len(telemetry)
  /\ position' = position + 1
  /\ loop' = IF telemetry[position + 1].reading THEN "handling" ELSE "polling"
  /\ UNCHANGED <<logs, committed, copies, base, faults, storeVars>>

\* insert_one has its effect.
Stored ==
  /\ copies' = [copies EXCEPT ![position] = @ + 1]
  /\ Store!Insert(position, copies[position] + 1, telemetry[position])

\* Fault: the position is set to the message that was handled, not behind it.
InsertDoneSeek ==
  /\ loop = "handling"
  /\ Stored
  /\ loop' = "polling"
  /\ position' = position - 1
  /\ UNCHANGED <<logs, committed, base, faults>>

InsertDone ==
  /\ loop = "handling"
  /\ Stored
  /\ loop' = "polling"
  /\ UNCHANGED <<logs, position, committed, base, faults>>

\* The Kafka client commits the position, the message in hand included.
AutoCommit ==
  /\ loop \in {"polling", "handling"}
  /\ committed' = position
  /\ UNCHANGED <<logs, loop, position, copies, base, faults, storeVars>>

-----------------------------------------------------------------------------
(* Faults.  An insertion that is cut short may have reached MongoDB.          *)

Happens(kind) ==
  /\ kind \in FaultKinds
  /\ faults < MaxFaults
  /\ faults' = faults + 1

NotStored == UNCHANGED <<copies, storeVars>>
MaybeStored == NotStored \/ (loop = "handling" /\ Stored)

\* insert_one raises; the writer logs the error and the loop goes on.
InsertFails ==
  /\ Happens("mongo")
  /\ loop = "handling"
  /\ MaybeStored
  /\ loop' = "polling"
  /\ UNCHANGED <<logs, position, committed, base>>

\* MongoDB cannot be reached at the start, and the process goes on without the
\* consumer; or collMod fails, which is logged, and the collection stays as it is.
StartDegraded ==
  /\ Happens("mongo")
  /\ loop = "none"
  /\ loop' \in {"ended"} \cup {l \in {"joining"} : collection # "absent"}
  /\ NotStored
  /\ UNCHANGED <<logs, position, committed, base>>

\* start() or getone() raises: the loop is left, and there is nothing to commit
\* if it never joined.
KafkaError ==
  /\ Happens("kafka")
  /\ loop \in {"joining", "polling"}
  /\ loop' = IF loop = "polling" THEN "failing" ELSE "ended"
  /\ NotStored
  /\ UNCHANGED <<logs, position, committed, base>>

\* The server shuts down: stop() cancels the task wherever it waits.
Stop ==
  /\ Happens("stop")
  /\ loop \in {"joining", "polling", "handling", "failing", "ended"}
  /\ MaybeStored
  /\ loop' = CASE loop = "ended" -> "none"
               [] loop = "joining" -> "none"
               [] OTHER -> "stopping"
  /\ UNCHANGED <<logs, position, committed, base>>

\* The finally clause: consumer.stop() commits the position, if it can.
ConsumerStopped ==
  /\ loop \in {"stopping", "failing"}
  /\ loop' = IF loop = "stopping" THEN "none" ELSE "ended"
  /\ committed' \in {committed, position}
  /\ NotStored
  /\ UNCHANGED <<logs, position, base, faults>>

Crash ==
  /\ Happens("crash")
  /\ loop # "none"
  /\ MaybeStored
  /\ loop' = "none"
  /\ UNCHANGED <<logs, position, committed, base>>

Rest == <<logs, loop, position, committed, copies, base, faults>>

\* The clock runs until everything that was published is past its time to live.
Tick == now <= SendUntil + Ttl /\ Store!Tick /\ UNCHANGED Rest
Expire == Store!Expire /\ UNCHANGED Rest

-----------------------------------------------------------------------------
Next ==
  \/ \E topic \in TopicNames, reading \in BOOLEAN, stamp \in Stamps :
       SendMessage([topic |-> topic, reading |-> reading, stamp |-> stamp, time |-> now])
  \/ Start \/ Joined \/ GetOne \/ InsertDone \/ AutoCommit \/ ConsumerStopped
  \/ InsertFails \/ StartDegraded \/ KafkaError \/ Stop \/ Crash
  \/ Tick \/ Expire

Spec == Init /\ [][Next]_vars

\* Fairness.  The process is started again whenever it is down, and the
\* consumer's task runs: Kafka and MongoDB answer, if only with an error.  Time
\* passes, and MongoDB looks for expired documents again and again.
Fairness ==
  /\ WF_vars(Start \/ Joined \/ GetOne \/ InsertDone \/ ConsumerStopped)
  /\ WF_vars(Tick)
  /\ WF_vars(Expire)

FairSpec == Spec /\ Fairness

-----------------------------------------------------------------------------
(* Each variable is over the messages and offsets it holds, and the        *)
(* consumer is never beyond the end of its topic.                          *)
TypeOK ==
  /\ logs \in [KafkaTopics -> Seq(Messages)]
  /\ loop \in {"none", "joining", "polling", "handling", "stopping", "failing", "ended"}
  /\ position \in 0 .. Len(telemetry)
  /\ committed \in {NoOffset} \cup 0 .. Len(telemetry)
  /\ copies \in [1 .. MaxMessages -> Nat]
  /\ base \in 0 .. Len(telemetry)
  /\ faults \in 0 .. MaxFaults
  /\ now \in 1 .. SendUntil + Ttl + 1
  /\ collection \in {"absent", "manual", "ttl"}
  /\ \A d \in documents :
       d[1] \in DOMAIN telemetry /\ d[2] \in Nat \ {0} /\ d[3] \in 1 .. copies[d[1]]

Lost(upTo) ==
  {n \in base + 1 .. upTo : /\ telemetry[n].reading
                            /\ copies[n] = 0
                            /\ ~(loop = "handling" /\ n = position)}

(* Of what the group has begun to read, each failed insertion, error,      *)
(* shutdown and crash loses one reading at the most: the one in hand       *)
(* (consumer.py _consume_loop, writer.py handle_telemetry_message).        *)
LossBounded == Cardinality(Lost(position)) <= faults

(* A reading has one document, and one more for each fault that made the   *)
(* consumer read it again.                                                 *)
CopiesBounded == \A n \in 1 .. MaxMessages : copies[n] <= 1 + faults

(* Without a fault a reading that arrives after the consumer has joined is *)
(* stored in the end, whatever other messages surround it.                 *)
ReadingsStored ==
  \A n \in 1 .. MaxMessages :
    (loop = "polling" /\ faults = 0 /\ position < n /\ n <= Len(telemetry)
       /\ n \in {i \in 1 .. Len(telemetry) : telemetry[i].reading})
      ~> (copies[n] > 0 \/ faults > 0)

\* When a reading was taken, as far as anyone knows.
TakenAt(n) ==
  IF telemetry[n].stamp = Store!NoStamp THEN telemetry[n].time ELSE telemetry[n].stamp

(* The latest reading that the API returns was taken no earlier than any   *)
(* reading stored within its time to live, though readings are stored late *)
(* and again after a crash (writer.py, query_latest_telemetry).            *)
LatestNewest ==
  \A d \in Store!Latest, n \in DOMAIN telemetry :
    copies[n] > 0 /\ now <= TakenAt(n) + Ttl => TakenAt(n) <= TakenAt(d[1])

(* A stored reading taken within the last hour is in the answer to a       *)
(* history query, unless the answer is full of documents that are no older *)
(* (query_device_telemetry): neither its expiry nor the order hides it.    *)
(* The documents that fill an answer may be copies of one reading; each    *)
(* fault adds one place at the most to what a reading takes.  A reading    *)
(* whose stamp is ahead of the clock shows when the clock has come to it.  *)
VisibleAnHour ==
  \A n \in DOMAIN telemetry, answer \in Store!History :
    copies[n] > 0 /\ TakenAt(n) <= now /\ now <= TakenAt(n) + Window =>
      \/ \E d \in answer : d[1] = n
      \/ /\ Cardinality(answer) = Limit
         /\ \A d \in answer : TakenAt(d[1]) >= TakenAt(n)
         /\ Limit <= (1 + faults) * Cardinality({d[1] : d \in answer})

(* Without a fault a stored document is removed in the end, even if the    *)
(* collection existed without a time to live (client.py).                  *)
Retained ==
  \A n \in 1 .. MaxMessages :
    (\E d \in documents : d[1] = n) ~> (faults > 0 \/ ~ \E d \in documents : d[1] = n)

-----------------------------------------------------------------------------
(* What the repository says of the pipeline and the code does not do. *)

(* IoT_Platform_Guide.md: "If MongoDB goes down temporarily, Kafka buffers *)
(* the messages - no data is lost"; consumer.py, stop: "Gracefully stop    *)
(* the consumer."  What the group has committed would be in MongoDB, but   *)
(* for the reading in hand.                                                *)
CommittedStored == committed # NoOffset => Lost(committed) = {}
=============================================================================
