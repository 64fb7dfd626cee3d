--------------------------- MODULE TelemetryStore ---------------------------
(***************************************************************************)
(* The telemetry collection of MongoDB: its creation with a time to live   *)
(* (mongodb_layer/client.py), the document the writer makes of a message   *)
(* (writer.py), what MongoDB removes as time passes, and the answers to    *)
(* the two queries of the API (queries.py, api/routes/telemetry.py) about  *)
(* one device.  Times are in ticks of a clock that all parts share.        *)
(***************************************************************************)
EXTENDS Naturals, FiniteSets

CONSTANTS
  Ttl,     \* MONGO_TTL_SECONDS, in ticks
  Window,  \* the hour that a history query looks back, in ticks
  Limit    \* the documents that a history query returns at the most

VARIABLES
  now,         \* the clock
  collection,  \* "absent", "manual" (created without a time to live) or "ttl"
  documents    \* the documents, as <<the message's number, timestamp, copy>>: a
               \* message that is inserted again has another document

storeVars == <<now, collection, documents>>

\* A payload without a timestamp, or with one that Python takes for false.
NoStamp == 0
\* What the seconds since a device's start are as milliseconds since 1970.
LongAgo == 1

Init ==
  /\ now = LongAgo + Ttl + 1
  /\ collection \in {"absent", "manual"}
  /\ documents = {}

\* Fault: a collection that exists is left as it is.
EnsureExisting ==
  /\ collection' = IF collection = "absent" THEN "ttl" ELSE collection
  /\ UNCHANGED <<now, documents>>

\* _ensure_timeseries_collections: the collection is created with a time to
\* live, or is given one by collMod.  A process that finds it created in the
\* meantime by another one goes on with that one.
EnsureCollection ==
  /\ collection' = "ttl"
  /\ UNCHANGED <<now, documents>>

\* Fault: the writer goes by its own clock.
TimestampNow(message) == now

\* The timestamp of the document: the payload's own, else the Kafka message's.
Timestamp(message) == IF message.stamp # NoStamp THEN message.stamp ELSE message.time

\* insert_one of the message with that number, for the copy-th time.
Insert(n, copy, message) ==
  /\ documents' = documents \cup {<<n, Timestamp(message), copy>>}
  /\ UNCHANGED <<now, collection>>

Expired == {d \in documents : d[2] + Ttl < now}

\* MongoDB removes what is past its time to live, now and then.
Expire ==
  /\ collection = "ttl"
  /\ Expired # {}
  /\ documents' = documents \ Expired
  /\ UNCHANGED <<now, collection>>

Tick ==
  /\ now' = now + 1
  /\ UNCHANGED <<collection, documents>>

Recent == {d \in documents : now - Window <= d[2] /\ d[2] <= now}

Returned == IF Cardinality(Recent) < Limit THEN Cardinality(Recent) ELSE Limit

\* Fault: the oldest come first.
HistoryOldest ==
  {a \in SUBSET Recent : /\ Cardinality(a) = Returned
                         /\ \A d \in a, e \in Recent \ a : d[2] <= e[2]}

\* query_device_telemetry as the route calls it, always without a start and a
\* stop: the documents of the last hour, the newest first, up to the limit.
\* The copies of a reading each take a place.  Which of equally old documents the
\* limit cuts off is open: a set of answers.
History ==
  {a \in SUBSET Recent : /\ Cardinality(a) = Returned
                         /\ \A d \in a, e \in Recent \ a : d[2] >= e[2]}

\* query_latest_telemetry: a document with the latest time, none if there is none.
Latest == {d \in documents : \A e \in documents : d[2] >= e[2]}
=============================================================================
