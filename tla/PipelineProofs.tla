--------------------------- MODULE PipelineProofs ---------------------------
(***************************************************************************)
(* Theorems about Pipeline and TelemetryStore, for any topics and faults,  *)
(* and any number of messages.                                             *)
(***************************************************************************)
EXTENDS Pipeline, FiniteSetTheorems, TLAPS

\* Kafka has the time of each message, and none is from later than now.
MessagesInv ==
  /\ Published <= MaxMessages
  /\ \A n \in DOMAIN telemetry : telemetry[n].time \in 1 .. now

\* The group goes on from where it has committed, never behind its position.
PositionInv ==
  /\ base <= position
  /\ committed # NoOffset => base <= committed /\ committed <= position
  /\ loop = "handling" => position >= 1

\* The messages that this process has read and is done with.
Done(n) ==
  \/ loop = "polling" /\ n <= position
  \/ loop = "handling" /\ n < position

\* One copy for each fault, and one of the process that runs now.
CopiesInv ==
  \A n \in 1 .. MaxMessages :
    /\ copies[n] <= faults + 1
    /\ ~Done(n) => copies[n] <= faults
    /\ n > Len(telemetry) => copies[n] = 0

\* The document that the writer makes of a message when it inserts it once more.
Document(n, k) == <<n, TakenAt(n), k>>

\* The documents are those of stored messages, all but the expired ones.
StoreInv ==
  /\ IsFiniteSet(documents)
  /\ \A d \in documents : \E n \in DOMAIN telemetry : \E k \in 1 .. copies[n] : d = Document(n, k)
  /\ \A n \in DOMAIN telemetry : \A k \in 1 .. copies[n] :
       now <= TakenAt(n) + Ttl => Document(n, k) \in documents

Inv == TypeOK /\ MessagesInv /\ PositionInv /\ CopiesInv /\ StoreInv /\ LossBounded

-----------------------------------------------------------------------------
(* Logs. *)

LEMMA Logs ==
  ASSUME TypeOK
  PROVE  /\ telemetry \in Seq(Messages) /\ Len(telemetry) \in Nat
         /\ DOMAIN telemetry = 1 .. Len(telemetry)
         /\ \A n \in DOMAIN telemetry :
              /\ telemetry[n] \in Messages
              /\ telemetry[n].stamp \in Nat /\ telemetry[n].time \in Nat
         /\ \A k \in KafkaTopics : logs[k] \in Seq(Messages) /\ Len(logs[k]) \in Nat
<1>1. \A k \in KafkaTopics : logs[k] \in Seq(Messages)
  BY DEF TypeOK
<1>2. telemetry \in Seq(Messages)
  BY <1>1 DEF telemetry, KafkaTopics
<1>3. \A m \in Messages : m.stamp \in Nat /\ m.time \in Nat
  BY PipelineAssumption DEF Messages
<1>4. QED
  BY <1>1, <1>2, <1>3

LEMMA Within == TypeOK /\ MessagesInv => Len(telemetry) <= MaxMessages
<1> SUFFICES ASSUME TypeOK, MessagesInv PROVE Len(telemetry) <= MaxMessages
  OBVIOUS
<1>1. PICK a \in Nat, b \in Nat, c \in Nat :
        /\ a = Len(logs[TelemetryTopic]) /\ b = Len(logs[StatusTopic])
        /\ c = Len(logs[ResponseTopic])
  BY Logs DEF KafkaTopics
<1>2. a \in Nat /\ b \in Nat /\ c \in Nat
  BY <1>1
<1>3. a + b + c <= MaxMessages /\ Len(telemetry) = a
  BY <1>1 DEF MessagesInv, Published, telemetry
<1>4. QED
  BY <1>2, <1>3, PipelineAssumption

\* The messages of the telemetry topic are counted by copies.
LEMMA Counted ==
  ASSUME TypeOK, MessagesInv, NEW n \in DOMAIN telemetry
  PROVE  n \in 1 .. MaxMessages /\ copies[n] \in Nat
<1>1. Len(telemetry) \in Nat /\ n \in 1 .. Len(telemetry) /\ Len(telemetry) <= MaxMessages
  BY Within, Logs
<1>2. n \in 1 .. MaxMessages
  BY <1>1, PipelineAssumption
<1>3. QED
  BY <1>2 DEF TypeOK

\* The telemetry topic is as it was, or one message longer.
Grown ==
  \/ telemetry' = telemetry
  \/ \E m \in Messages : m.time = now /\ telemetry' = Append(telemetry, m)

(* send_message, whatever topic it chooses.                                *)
LEMMA SendGrows ==
  ASSUME TypeOK, MessagesInv, NEW topic \in TopicNames, NEW reading \in BOOLEAN,
         NEW stamp \in Stamps,
         SendMessage([topic |-> topic, reading |-> reading, stamp |-> stamp, time |-> now])
  PROVE  logs' \in [KafkaTopics -> Seq(Messages)] /\ Published' <= MaxMessages /\ Grown
<1> DEFINE m == [topic |-> topic, reading |-> reading, stamp |-> stamp, time |-> now]
<1>1. m \in Messages /\ m.stamp = stamp /\ m.time = now
  BY DEF Messages, TypeOK
<1>2. /\ Published < MaxMessages
      /\ logs' = [logs EXCEPT ![KafkaTopic(m.topic)] = Append(@, m)]
  BY DEF SendMessage
<1> HIDE DEF m
<1>3. PICK k \in KafkaTopics : logs' = [logs EXCEPT ![k] = Append(@, m)]
  BY <1>2 DEF KafkaTopic, KafkaTopics
<1>4. /\ \A j \in KafkaTopics : logs[j] \in Seq(Messages) /\ Len(logs[j]) \in Nat
      /\ DOMAIN logs = KafkaTopics
  BY Logs DEF TypeOK
<1>5. Append(logs[k], m) \in Seq(Messages) /\ Len(Append(logs[k], m)) = Len(logs[k]) + 1
  BY <1>1, <1>4
<1>6. logs' \in [KafkaTopics -> Seq(Messages)]
  BY <1>3, <1>4, <1>5 DEF TypeOK
<1>7. Published' = Published + 1
  <2>1. \A j \in KafkaTopics : Len(logs'[j]) = IF j = k THEN Len(logs[j]) + 1 ELSE Len(logs[j])
    BY <1>3, <1>4, <1>5
  <2>2. /\ TelemetryTopic \in KafkaTopics /\ StatusTopic \in KafkaTopics
        /\ ResponseTopic \in KafkaTopics /\ k \in {TelemetryTopic, StatusTopic, ResponseTopic}
        /\ TelemetryTopic # StatusTopic /\ TelemetryTopic # ResponseTopic
        /\ StatusTopic # ResponseTopic
    BY DEF KafkaTopics, TelemetryTopic, StatusTopic, ResponseTopic
  <2>3. PICK a \in Nat, b \in Nat, c \in Nat :
          /\ a = Len(logs[TelemetryTopic]) /\ b = Len(logs[StatusTopic])
          /\ c = Len(logs[ResponseTopic])
    BY <1>4, <2>2
  <2>4. /\ Len(logs'[TelemetryTopic]) = IF k = TelemetryTopic THEN a + 1 ELSE a
        /\ Len(logs'[StatusTopic]) = IF k = StatusTopic THEN b + 1 ELSE b
        /\ Len(logs'[ResponseTopic]) = IF k = ResponseTopic THEN c + 1 ELSE c
    BY <2>1, <2>2, <2>3
  <2>5. Published = a + b + c
    BY <2>3 DEF Published
  <2>6. Published' = (IF k = TelemetryTopic THEN a + 1 ELSE a)
                     + (IF k = StatusTopic THEN b + 1 ELSE b)
                     + (IF k = ResponseTopic THEN c + 1 ELSE c)
    BY <2>4 DEF Published
  <2>7. a \in Nat /\ b \in Nat /\ c \in Nat
    BY <2>3
  <2>8. \/ Published' = (a + 1) + b + c
        \/ Published' = a + (b + 1) + c
        \/ Published' = a + b + (c + 1)
    BY <2>2, <2>6
  <2>9. QED
    BY <2>5, <2>7, <2>8
<1>8. Published \in Nat
  BY <1>4 DEF Published, KafkaTopics
<1>9. Published' <= MaxMessages
  BY <1>2, <1>7, <1>8, PipelineAssumption
<1>10. telemetry' = telemetry \/ telemetry' = Append(telemetry, m)
  BY <1>3, <1>4 DEF telemetry, KafkaTopics
<1>11. Grown
  BY <1>1, <1>2, <1>10 DEF Grown
<1>12. QED
  BY <1>6, <1>9, <1>11

\* What a longer topic keeps.
LEMMA GrownKeeps ==
  ASSUME TypeOK, Grown
  PROVE  /\ Len(telemetry) \in Nat /\ Len(telemetry') \in Nat
         /\ Len(telemetry) <= Len(telemetry')
         /\ DOMAIN telemetry = 1 .. Len(telemetry) /\ DOMAIN telemetry' = 1 .. Len(telemetry')
         /\ \A n \in DOMAIN telemetry :
              /\ n \in DOMAIN telemetry' /\ telemetry'[n] = telemetry[n]
              /\ TakenAt(n)' = TakenAt(n)
         /\ \A n \in DOMAIN telemetry' :
              \/ n \in DOMAIN telemetry
              \/ n = Len(telemetry) + 1 /\ telemetry'[n].time = now
<1>1. telemetry \in Seq(Messages) /\ Len(telemetry) \in Nat
  BY Logs
<1>2. CASE telemetry' = telemetry
  BY <1>1, <1>2 DEF TakenAt, Store!NoStamp
<1>3. ASSUME NEW m \in Messages, m.time = now, telemetry' = Append(telemetry, m)
      PROVE  /\ Len(telemetry') = Len(telemetry) + 1
             /\ DOMAIN telemetry' = 1 .. Len(telemetry) + 1
             /\ telemetry'[Len(telemetry) + 1] = m
             /\ \A n \in 1 .. Len(telemetry) : telemetry'[n] = telemetry[n]
  BY <1>1, <1>3
<1>4. QED
  BY <1>1, <1>2, <1>3 DEF Grown, TakenAt, Store!NoStamp

-----------------------------------------------------------------------------
(* What a step does to the logs and the store. *)

LEMMA Taken ==
  ASSUME TypeOK, MessagesInv, NEW n \in DOMAIN telemetry
  PROVE  /\ TakenAt(n) \in Nat \ {0}
         /\ Store!Timestamp(telemetry[n]) = TakenAt(n)
BY Logs DEF MessagesInv, TypeOK, TakenAt, Store!Timestamp, Store!NoStamp

LEMMA StoredEffect ==
  ASSUME TypeOK, MessagesInv, PositionInv, loop = "handling", Stored
  PROVE  /\ position \in DOMAIN telemetry
         /\ copies' = [copies EXCEPT ![position] = @ + 1]
         /\ documents' = documents \cup {Document(position, copies[position] + 1)}
         /\ UNCHANGED <<now, collection>>
<1>1. position \in DOMAIN telemetry
  BY Logs DEF PositionInv, TypeOK
<1>2. QED
  BY <1>1, Taken DEF Stored, Store!Insert, Document

\* A step sends a message, stores the reading in hand, lets time pass or expires
\* documents, or does nothing to the logs and the store.
Sends   == Grown /\ Published' <= MaxMessages /\ UNCHANGED <<copies, now, documents>>
Stores  == loop = "handling" /\ Stored /\ UNCHANGED logs
Ticks   == now' = now + 1 /\ UNCHANGED <<logs, copies, documents>>
Expires == Store!Expire /\ UNCHANGED <<logs, copies>>

LEMMA Effects ==
  ASSUME TypeOK, MessagesInv, [Next]_vars
  PROVE  Sends \/ Stores \/ Ticks \/ Expires
<1>1. UNCHANGED <<logs, copies, now, documents>> => Sends
  BY DEF Sends, Grown, telemetry, MessagesInv, Published
<1>2. ASSUME NEW topic \in TopicNames, NEW reading \in BOOLEAN, NEW stamp \in Stamps,
             SendMessage([topic |-> topic, reading |-> reading, stamp |-> stamp, time |-> now])
      PROVE  Sends
  BY <1>2, SendGrows DEF SendMessage, Sends, storeVars
<1>3. CASE Start \/ Joined \/ GetOne \/ AutoCommit \/ ConsumerStopped \/ StartDegraded
           \/ KafkaError \/ UNCHANGED vars
  BY <1>1, <1>3 DEF Start, Joined, GetOne, AutoCommit, ConsumerStopped, StartDegraded,
    KafkaError, vars, NotStored, storeVars, Store!EnsureCollection
<1>4. CASE InsertDone \/ InsertFails \/ Stop \/ Crash
  BY <1>1, <1>4 DEF InsertDone, InsertFails, Stop, Crash, MaybeStored, NotStored, storeVars,
    Stores
<1>5. CASE Tick \/ Expire
  BY <1>5 DEF Tick, Expire, Ticks, Expires, Rest, Store!Tick
<1>6. QED
  BY <1>2, <1>3, <1>4, <1>5 DEF Next

(* Every step keeps the messages in their place, and no time is later.     *)
LEMMA MessagesStep ==
  ASSUME TypeOK, MessagesInv, [Next]_vars
  PROVE  MessagesInv' /\ Grown /\ now' >= now /\ now' \in Nat
<1>1. now \in Nat
  BY DEF TypeOK
<1>2. CASE Sends
  <2>1. ASSUME NEW n \in DOMAIN telemetry'
        PROVE  telemetry'[n].time \in 1 .. now
    BY <1>2, GrownKeeps DEF Sends, MessagesInv, TypeOK
  <2>2. QED
    BY <1>1, <1>2, <2>1 DEF Sends, MessagesInv
<1>3. CASE UNCHANGED logs /\ now' \in {now, now + 1}
  <2>1. /\ telemetry' = telemetry /\ Grown /\ Published' = Published
        /\ now' \in Nat /\ now <= now'
    BY <1>1, <1>3 DEF telemetry, Published, Grown
  <2>2. \A n \in DOMAIN telemetry : telemetry[n].time \in 1 .. now'
    BY <1>1, <2>1, Logs DEF MessagesInv
  <2>3. QED
    BY <2>1, <2>2 DEF MessagesInv
<1>4. QED
  BY <1>2, <1>3, Effects
  DEF Stores, Stored, Store!Insert, Ticks, Expires, Store!Expire

-----------------------------------------------------------------------------
(* Types. *)

LEMMA InitInv == Init => Inv
<1> SUFFICES ASSUME Init PROVE Inv
  OBVIOUS
<1>1. /\ \A k \in KafkaTopics : logs[k] = <<>>
      /\ telemetry = <<>> /\ Len(telemetry) = 0 /\ DOMAIN telemetry = {}
  BY DEF Init, telemetry, KafkaTopics
<1>2. now = Ttl + 2 /\ collection \in {"absent", "manual"} /\ documents = {}
  BY PipelineAssumption DEF Init, Store!Init, Store!LongAgo
<1>3. TypeOK
  <2>1. logs \in [KafkaTopics -> Seq(Messages)]
    <3>1. <<>> \in Seq(Messages)
      OBVIOUS
    <3>2. QED
      BY <3>1 DEF Init
  <2>2. now \in 1 .. SendUntil + Ttl + 1 /\ faults \in 0 .. MaxFaults
    BY <1>2, PipelineAssumption DEF Init
  <2>3. position \in 0 .. Len(telemetry) /\ base \in 0 .. Len(telemetry)
    BY <1>1 DEF Init
  <2>4. QED
    BY <1>1, <1>2, <2>1, <2>2, <2>3 DEF Init, TypeOK
<1>4. MessagesInv
  <2>1. Published = 0 + 0 + 0
    <3>1. \A k \in KafkaTopics : Len(logs[k]) = 0
      BY <1>1
    <3>2. QED
      BY <3>1 DEF Published, KafkaTopics
  <2>2. QED
    BY <1>1, <2>1, PipelineAssumption DEF MessagesInv
<1>5. PositionInv /\ CopiesInv
  BY <1>1 DEF Init, PositionInv, CopiesInv, Done
<1>6. StoreInv
  BY <1>1, <1>2, FS_EmptySet DEF StoreInv
<1>7. LossBounded
  <2>1. Lost(position) = {}
    BY DEF Init, Lost
  <2>2. Cardinality(Lost(position)) = 0 /\ faults = 0
    BY <2>1, FS_EmptySet DEF Init
  <2>3. QED
    BY <2>2 DEF LossBounded
<1>8. QED
  BY <1>3, <1>4, <1>5, <1>6, <1>7 DEF Inv

(* Every step keeps the offsets in the log, and in their order.            *)
LEMMA PositionStep ==
  ASSUME TypeOK, MessagesInv, PositionInv, [Next]_vars
  PROVE  /\ PositionInv'
         /\ position' \in 0 .. Len(telemetry') /\ base' \in 0 .. Len(telemetry')
         /\ committed' \in {NoOffset} \cup 0 .. Len(telemetry')
<1>1. /\ Len(telemetry) \in Nat /\ Len(telemetry') \in Nat /\ Len(telemetry) <= Len(telemetry')
      /\ position \in 0 .. Len(telemetry) /\ base \in 0 .. Len(telemetry)
      /\ committed \in {NoOffset} \cup 0 .. Len(telemetry)
  BY MessagesStep, GrownKeeps DEF TypeOK
<1>2. SUFFICES /\ PositionInv'
               /\ position' \in 0 .. Len(telemetry) /\ base' \in 0 .. Len(telemetry)
               /\ committed' \in {NoOffset} \cup 0 .. Len(telemetry)
  BY <1>1
<1> USE DEF PositionInv
<1>3. ASSUME UNCHANGED <<position, base>>, committed' \in {committed, position},
             loop' # "handling" \/ loop = "handling"
      PROVE  /\ PositionInv'
             /\ position' \in 0 .. Len(telemetry) /\ base' \in 0 .. Len(telemetry)
             /\ committed' \in {NoOffset} \cup 0 .. Len(telemetry)
  BY <1>1, <1>3, PipelineAssumption
<1>4. CASE \E topic \in TopicNames, reading \in BOOLEAN, stamp \in Stamps :
        SendMessage([topic |-> topic, reading |-> reading, stamp |-> stamp, time |-> now])
  BY <1>3, <1>4 DEF SendMessage
<1>5. CASE Joined
  <2>1. CASE committed = NoOffset
    BY <1>1, <1>5, <2>1, PipelineAssumption DEF Joined
  <2>2. CASE committed # NoOffset
    BY <1>1, <1>5, <2>2, PipelineAssumption DEF Joined
  <2>3. QED
    BY <2>1, <2>2
<1>6. CASE GetOne
  BY <1>1, <1>6, PipelineAssumption DEF GetOne
<1>7. CASE Start \/ InsertDone \/ AutoCommit \/ ConsumerStopped
  BY <1>3, <1>7 DEF Start, InsertDone, AutoCommit, ConsumerStopped
<1>8. CASE InsertFails \/ StartDegraded \/ KafkaError \/ Stop \/ Crash
  BY <1>3, <1>8 DEF InsertFails, StartDegraded, KafkaError, Stop, Crash
<1>9. CASE Tick \/ Expire \/ UNCHANGED vars
  BY <1>3, <1>9 DEF Tick, Expire, Rest, vars
<1>10. QED
  BY <1>4, <1>5, <1>6, <1>7, <1>8, <1>9 DEF Next

(* Every step keeps the types.                                             *)
LEMMA TypeStep ==
  ASSUME TypeOK, MessagesInv, PositionInv, [Next]_vars
  PROVE  TypeOK'
<1>1. logs' \in [KafkaTopics -> Seq(Messages)]
  <2>1. ASSUME UNCHANGED logs PROVE logs' \in [KafkaTopics -> Seq(Messages)]
    BY <2>1 DEF TypeOK
  <2>2. QED
    BY <2>1, SendGrows DEF Next, vars, Start, Joined, GetOne, InsertDone, AutoCommit,
      ConsumerStopped, InsertFails, StartDegraded, KafkaError, Stop, Crash, Tick, Expire, Rest
<1>2. loop' \in {"none", "joining", "polling", "handling", "stopping", "failing", "ended"}
  BY DEF TypeOK, Next, vars, SendMessage, Start, Joined, GetOne, InsertDone, AutoCommit,
    ConsumerStopped, InsertFails, StartDegraded, KafkaError, Stop, Crash, Tick, Expire, Rest
<1>3. faults' \in 0 .. MaxFaults
  <2>1. faults' = faults \/ (faults < MaxFaults /\ faults' = faults + 1)
    BY DEF Next, vars, SendMessage, Start, Joined, GetOne, InsertDone, AutoCommit,
      ConsumerStopped, InsertFails, StartDegraded, KafkaError, Stop, Crash, Tick, Expire, Rest,
      Happens
  <2>2. QED
    BY <2>1, PipelineAssumption DEF TypeOK
<1>4. now' \in 1 .. SendUntil + Ttl + 1
  <2>1. now' = now \/ (now <= SendUntil + Ttl /\ now' = now + 1)
    BY DEF Next, vars, storeVars, SendMessage, Start, Joined, GetOne, InsertDone, AutoCommit,
      ConsumerStopped, InsertFails, StartDegraded, KafkaError, Stop, Crash, Tick, Expire,
      MaybeStored, NotStored, Stored, Store!EnsureCollection, Store!Insert, Store!Tick,
      Store!Expire
  <2>2. QED
    BY <2>1, PipelineAssumption DEF TypeOK
<1>5. collection' \in {"absent", "manual", "ttl"}
  BY DEF TypeOK, Next, vars, storeVars, SendMessage, Start, Joined, GetOne, InsertDone,
    AutoCommit, ConsumerStopped, InsertFails, StartDegraded, KafkaError, Stop, Crash, Tick,
    Expire, MaybeStored, NotStored, Stored, Store!EnsureCollection, Store!Insert, Store!Tick,
    Store!Expire
<1>6. copies' \in [1 .. MaxMessages -> Nat]
  <2>1. CASE Stores
    <3>1. copies' = [copies EXCEPT ![position] = @ + 1]
      BY <2>1, StoredEffect DEF Stores
    <3>2. \A n \in 1 .. MaxMessages : copies[n] \in Nat /\ copies[n] + 1 \in Nat
      BY DEF TypeOK
    <3>3. QED
      BY <3>1, <3>2 DEF TypeOK
  <2>2. QED
    BY <2>1, Effects DEF Sends, Ticks, Expires, TypeOK
<1>7. \A d \in documents' :
        d[1] \in DOMAIN telemetry' /\ d[2] \in Nat \ {0} /\ d[3] \in 1 .. copies'[d[1]]
  <2>1. DOMAIN telemetry \subseteq DOMAIN telemetry'
    BY MessagesStep, GrownKeeps
  <2>2. \A d \in documents :
          d[1] \in DOMAIN telemetry' /\ d[2] \in Nat \ {0} /\ d[3] \in 1 .. copies[d[1]]
    BY <2>1 DEF TypeOK
  <2>3. CASE Stores
    <3>1. /\ position \in DOMAIN telemetry
          /\ copies' = [copies EXCEPT ![position] = @ + 1]
          /\ documents' = documents \cup {Document(position, copies[position] + 1)}
      BY <2>3, StoredEffect DEF Stores
    <3>2. position \in 1 .. MaxMessages
      BY <3>1, Counted
    <3>3. /\ copies[position] \in Nat /\ copies'[position] = copies[position] + 1
          /\ \A n \in DOMAIN telemetry : n # position => copies'[n] = copies[n]
      BY <3>1, <3>2 DEF TypeOK
    <3>4. /\ Document(position, copies[position] + 1)[1] = position
          /\ Document(position, copies[position] + 1)[2] \in Nat \ {0}
          /\ Document(position, copies[position] + 1)[3] = copies'[position]
      BY <3>1, <3>3, Taken DEF Document
    <3>5. ASSUME NEW d \in documents
          PROVE  d[3] \in 1 .. copies'[d[1]]
      <4>1. d[1] \in DOMAIN telemetry /\ d[3] \in 1 .. copies[d[1]]
        BY DEF TypeOK
      <4>2. QED
        BY <3>3, <4>1
    <3>6. copies'[position] \in 1 .. copies'[position]
      BY <3>3
    <3>7. QED
      BY <2>1, <2>2, <3>1, <3>4, <3>5, <3>6
  <2>4. QED
    BY <2>2, <2>3, Effects DEF Sends, Ticks, Expires, Store!Expire
<1>8. QED
  BY <1>1, <1>2, <1>3, <1>4, <1>5, <1>6, <1>7, PositionStep DEF TypeOK

-----------------------------------------------------------------------------
(* Copies and losses. *)

(* Every step keeps to one copy, and one more for each fault.              *)
LEMMA CopiesStep ==
  ASSUME TypeOK, MessagesInv, PositionInv, CopiesInv, [Next]_vars
  PROVE  CopiesInv'
<1>1. /\ Len(telemetry) \in Nat /\ Len(telemetry') \in Nat /\ Len(telemetry) <= Len(telemetry')
      /\ position \in 0 .. Len(telemetry) /\ faults \in Nat
      /\ copies \in [1 .. MaxMessages -> Nat]
      /\ \A n \in 1 .. MaxMessages : copies[n] \in Nat
  <2>1. /\ Len(telemetry) \in Nat /\ Len(telemetry') \in Nat
        /\ Len(telemetry) <= Len(telemetry')
    BY MessagesStep, GrownKeeps
  <2>2. /\ position \in 0 .. Len(telemetry) /\ faults \in Nat
        /\ copies \in [1 .. MaxMessages -> Nat]
    BY DEF TypeOK
  <2>3. QED
    BY <2>1, <2>2
<1>2. ASSUME UNCHANGED copies, faults' \in {faults, faults + 1},
             \A n \in 1 .. MaxMessages : Done(n) => Done(n)' \/ faults' = faults + 1
      PROVE  CopiesInv'
  <2>1. ASSUME NEW n \in 1 .. MaxMessages
        PROVE  /\ copies'[n] <= faults' + 1
               /\ ~Done(n)' => copies'[n] <= faults'
               /\ n > Len(telemetry') => copies'[n] = 0
    <3>1. /\ copies'[n] = copies[n] /\ copies[n] \in Nat
          /\ copies[n] <= faults + 1 /\ (~Done(n) => copies[n] <= faults)
          /\ n > Len(telemetry) => copies[n] = 0
      BY <1>1, <1>2 DEF CopiesInv
    <3>2. n > Len(telemetry') => n > Len(telemetry)
      BY <1>1
    <3>3. QED
      BY <1>1, <1>2, <3>1, <3>2
  <2>2. QED
    BY <2>1 DEF CopiesInv
<1>3. ASSUME loop = "handling", Stored, faults' \in {faults, faults + 1}, UNCHANGED position,
             faults' = faults => loop' = "polling"
      PROVE  CopiesInv'
  <2>1. /\ position \in 1 .. Len(telemetry)
        /\ copies' = [copies EXCEPT ![position] = @ + 1]
    BY <1>3, <1>1, StoredEffect, Logs
  <2>2. \A n \in 1 .. MaxMessages :
          copies'[n] = IF n = position THEN copies[n] + 1 ELSE copies[n]
    BY <1>1, <2>1
  <2>3. ~Done(position)
    BY <1>1, <1>3 DEF Done
  <2>4. ASSUME NEW n \in 1 .. MaxMessages
        PROVE  /\ copies'[n] <= faults' + 1
               /\ ~Done(n)' => copies'[n] <= faults'
               /\ n > Len(telemetry') => copies'[n] = 0
    <3>1. CASE n = position
      <4>1. copies'[n] = copies[n] + 1 /\ copies[n] <= faults /\ n <= Len(telemetry')
        BY <1>1, <2>1, <2>2, <2>3, <3>1 DEF CopiesInv
      <4>2. faults' = faults + 1 \/ Done(n)'
        BY <1>1, <1>3, <3>1 DEF Done
      <4>3. QED
        BY <1>1, <1>3, <2>1, <3>1, <4>1, <4>2
    <3>2. CASE n # position
      <4>1. copies'[n] = copies[n]
        BY <2>2, <3>2
      <4>2. faults' = faults + 1 \/ (Done(n) => Done(n)')
        BY <1>1, <1>3, <3>2 DEF Done
      <4>3. QED
        BY <1>1, <1>3, <4>1, <4>2 DEF CopiesInv
    <3>3. QED
      BY <3>1, <3>2
  <2>5. QED
    BY <2>4 DEF CopiesInv
<1>4. CASE \E topic \in TopicNames, reading \in BOOLEAN, stamp \in Stamps :
        SendMessage([topic |-> topic, reading |-> reading, stamp |-> stamp, time |-> now])
  BY <1>2, <1>4 DEF SendMessage, Done
<1>5. CASE Start \/ Joined \/ AutoCommit \/ ConsumerStopped
  BY <1>2, <1>5 DEF Start, Joined, AutoCommit, ConsumerStopped, NotStored, Done
<1>6. CASE GetOne
  <2>1. \A n \in 1 .. MaxMessages : Done(n) => Done(n)'
    BY <1>1, <1>6 DEF GetOne, Done
  <2>2. QED
    BY <1>2, <1>6, <2>1 DEF GetOne
<1>7. CASE InsertDone
  BY <1>3, <1>7 DEF InsertDone
<1>8. CASE InsertFails \/ StartDegraded \/ KafkaError \/ Stop \/ Crash
  <2>1. faults' = faults + 1 /\ UNCHANGED position
    BY <1>8 DEF InsertFails, StartDegraded, KafkaError, Stop, Crash, Happens
  <2>2. UNCHANGED copies \/ (loop = "handling" /\ Stored)
    BY <1>8 DEF InsertFails, StartDegraded, KafkaError, Stop, Crash, MaybeStored, NotStored
  <2>3. QED
    BY <1>1, <1>2, <1>3, <2>1, <2>2
<1>9. CASE Tick \/ Expire \/ UNCHANGED vars
  BY <1>2, <1>9 DEF Tick, Expire, Rest, vars, Done
<1>10. QED
  BY <1>4, <1>5, <1>6, <1>7, <1>8, <1>9 DEF Next

(* A finite set that holds one element more has one element more at most.  *)
LEMMA OneMore ==
  ASSUME NEW S, NEW T, NEW x, IsFiniteSet(S), T \subseteq S \cup {x}
  PROVE  Cardinality(T) \in Nat /\ Cardinality(S) \in Nat /\ Cardinality(T) <= Cardinality(S) + 1
<1>1. /\ IsFiniteSet(S \cup {x}) /\ Cardinality(S) \in Nat
      /\ Cardinality(S \cup {x}) <= Cardinality(S) + 1
  <2>1. Cardinality(S) \in Nat
    BY FS_CardinalityType
  <2>2. IsFiniteSet(S \cup {x})
    BY FS_AddElement
  <2>3. Cardinality(S \cup {x}) = IF x \in S THEN Cardinality(S) ELSE Cardinality(S) + 1
    BY FS_AddElement
  <2>4. Cardinality(S) <= Cardinality(S) + 1
    BY <2>1
  <2>5. QED
    BY <2>1, <2>2, <2>3, <2>4
<1>2. IsFiniteSet(T) /\ Cardinality(T) <= Cardinality(S \cup {x})
  BY <1>1, FS_Subset
<1>3. Cardinality(T) \in Nat /\ Cardinality(S \cup {x}) \in Nat
  BY <1>1, <1>2, FS_CardinalityType
<1>4. QED
  BY <1>1, <1>2, <1>3

(* Every step loses one reading at the most, and none without a fault.     *)
LEMMA LossStep ==
  ASSUME TypeOK, MessagesInv, PositionInv, LossBounded, [Next]_vars
  PROVE  LossBounded'
<1>1. /\ Len(telemetry) \in Nat /\ Len(telemetry') \in Nat /\ Len(telemetry) <= Len(telemetry')
      /\ position \in 0 .. Len(telemetry) /\ base \in 0 .. Len(telemetry)
      /\ committed \in {NoOffset} \cup 0 .. Len(telemetry)
      /\ faults \in Nat /\ faults' \in Nat
      /\ \A n \in 1 .. Len(telemetry) : telemetry'[n] = telemetry[n]
  BY MessagesStep, GrownKeeps, TypeStep DEF TypeOK
<1>2. IsFiniteSet(Lost(position)) /\ Cardinality(Lost(position)) \in Nat
  <2>1. IsFiniteSet(base + 1 .. position)
    BY <1>1, FS_Interval
  <2>2. Lost(position) \subseteq base + 1 .. position
    BY DEF Lost
  <2>3. QED
    BY <2>1, <2>2, FS_Subset, FS_CardinalityType
<1>3. ASSUME Lost(position)' \subseteq Lost(position), faults' \in {faults, faults + 1}
      PROVE  LossBounded'
  <2>1. IsFiniteSet(Lost(position)') /\ Cardinality(Lost(position)') <= Cardinality(Lost(position))
    BY <1>2, <1>3, FS_Subset
  <2>2. Cardinality(Lost(position)') \in Nat
    BY <2>1, FS_CardinalityType
  <2>3. QED
    BY <1>1, <1>2, <1>3, <2>1, <2>2 DEF LossBounded
<1>4. ASSUME UNCHANGED <<position, base, copies>>, faults' \in {faults, faults + 1},
             loop = "handling" => loop' = "handling" \/ faults' = faults + 1
      PROVE  LossBounded'
  <2>1. CASE loop = "handling" => loop' = "handling"
    <3>1. Lost(position)' \subseteq Lost(position)
      BY <1>1, <1>4, <2>1 DEF Lost
    <3>2. QED
      BY <1>3, <1>4, <3>1
  <2>2. CASE faults' = faults + 1
    <3>1. Lost(position)' \subseteq Lost(position) \cup {position}
      BY <1>1, <1>4 DEF Lost
    <3>2. Cardinality(Lost(position)') \in Nat
          /\ Cardinality(Lost(position)') <= Cardinality(Lost(position)) + 1
      BY <1>2, <3>1, OneMore
    <3>3. QED
      BY <1>1, <1>2, <2>2, <3>2 DEF LossBounded
  <2>3. QED
    BY <1>4, <2>1, <2>2
<1>5. ASSUME loop = "handling", Stored, UNCHANGED <<position, base>>,
             faults' \in {faults, faults + 1}
      PROVE  LossBounded'
  <2>1. /\ position \in DOMAIN telemetry
        /\ copies' = [copies EXCEPT ![position] = @ + 1]
    BY <1>5, StoredEffect
  <2>2. position \in 1 .. MaxMessages => copies'[position] = copies[position] + 1
    BY <2>1 DEF TypeOK
  <2>3. position \in 1 .. MaxMessages
    <3>1. Len(telemetry) <= MaxMessages /\ position \in 1 .. Len(telemetry)
      BY <2>1, Within, Logs
    <3>2. QED
      BY <1>1, <3>1, PipelineAssumption
  <2>4. /\ copies'[position] # 0
        /\ \A n \in base + 1 .. position : n # position => copies'[n] = copies[n]
    BY <2>1, <2>2, <2>3 DEF TypeOK
  <2>5. Lost(position)' \subseteq Lost(position)
    BY <1>1, <1>5, <2>4 DEF Lost
  <2>6. QED
    BY <1>3, <1>5, <2>5
<1>6. CASE \E topic \in TopicNames, reading \in BOOLEAN, stamp \in Stamps :
        SendMessage([topic |-> topic, reading |-> reading, stamp |-> stamp, time |-> now])
  BY <1>4, <1>6 DEF SendMessage
<1>7. CASE Joined
  <2>1. Lost(position)' \subseteq Lost(position)
    BY <1>1, <1>7, PipelineAssumption DEF Joined, Lost, PositionInv
  <2>2. QED
    BY <1>3, <1>7, <2>1 DEF Joined
<1>8. CASE GetOne
  <2>1. telemetry' = telemetry
    BY <1>8 DEF GetOne, telemetry
  <2>2. Lost(position)' \subseteq Lost(position)
    BY <1>1, <1>8, <2>1 DEF GetOne, Lost
  <2>3. QED
    BY <1>3, <1>8, <2>2 DEF GetOne
<1>9. CASE Start \/ AutoCommit \/ ConsumerStopped
  BY <1>4, <1>9 DEF Start, AutoCommit, ConsumerStopped, NotStored
<1>10. CASE InsertDone
  BY <1>5, <1>10 DEF InsertDone
<1>11. CASE InsertFails \/ StartDegraded \/ KafkaError \/ Stop \/ Crash
  <2>1. faults' = faults + 1 /\ UNCHANGED <<position, base>>
    BY <1>11 DEF InsertFails, StartDegraded, KafkaError, Stop, Crash, Happens
  <2>2. UNCHANGED copies \/ (loop = "handling" /\ Stored)
    BY <1>11 DEF InsertFails, StartDegraded, KafkaError, Stop, Crash, MaybeStored, NotStored
  <2>3. QED
    BY <1>4, <1>5, <2>1, <2>2
<1>12. CASE Tick \/ Expire \/ UNCHANGED vars
  BY <1>4, <1>12 DEF Tick, Expire, Rest, vars
<1>13. QED
  BY <1>6, <1>7, <1>8, <1>9, <1>10, <1>11, <1>12 DEF Next

-----------------------------------------------------------------------------
(* Documents. *)

(* The store counts as everyone does.                                      *)
LEMMA StoreCardinality == \A S : Store!Cardinality(S) = Cardinality(S)
  BY DEF Store!Cardinality, Cardinality

(* Every step keeps the documents those of the stored messages.            *)
LEMMA StoreStep ==
  ASSUME TypeOK, MessagesInv, PositionInv, CopiesInv, StoreInv, [Next]_vars
  PROVE  StoreInv'
<1>1. /\ Grown /\ now \in Nat /\ now' \in Nat /\ now <= now'
      /\ DOMAIN telemetry \subseteq DOMAIN telemetry'
      /\ \A n \in DOMAIN telemetry : TakenAt(n)' = TakenAt(n)
      /\ \A n \in DOMAIN telemetry, k \in Nat : Document(n, k)' = Document(n, k)
  BY MessagesStep, GrownKeeps DEF TypeOK, Document
<1>2. \A n \in DOMAIN telemetry : n \in 1 .. MaxMessages /\ copies[n] \in Nat
  BY Counted
<1>3. \A n \in DOMAIN telemetry : now' <= TakenAt(n)' + Ttl => now <= TakenAt(n) + Ttl
  <2>1. ASSUME NEW n \in DOMAIN telemetry, now' <= TakenAt(n)' + Ttl
        PROVE  now <= TakenAt(n) + Ttl
    <3>1. TakenAt(n) \in Nat /\ TakenAt(n)' = TakenAt(n)
      BY <1>1, Taken
    <3>2. QED
      BY <1>1, <2>1, <3>1, PipelineAssumption
  <2>2. QED
    BY <2>1
<1>4. CASE Sends
  <2>1. ASSUME NEW d \in documents'
        PROVE  \E n \in DOMAIN telemetry' : \E k \in 1 .. copies'[n] : d = Document(n, k)'
    <3>1. PICK n \in DOMAIN telemetry : \E k \in 1 .. copies[n] : d = Document(n, k)
      BY <1>4 DEF Sends, StoreInv
    <3>2. PICK k \in 1 .. copies[n] : d = Document(n, k)
      BY <3>1
    <3>3. k \in Nat /\ n \in DOMAIN telemetry' /\ copies'[n] = copies[n]
      BY <1>1, <1>2, <1>4 DEF Sends
    <3>4. QED
      BY <1>1, <3>2, <3>3
  <2>2. ASSUME NEW n \in DOMAIN telemetry', NEW k \in 1 .. copies'[n], now' <= TakenAt(n)' + Ttl
        PROVE  Document(n, k)' \in documents'
    <3>1. n \in DOMAIN telemetry
      <4>1. (TypeOK /\ MessagesInv => Len(telemetry) <= MaxMessages)'
        BY Within, PTL
      <4>2. Len(telemetry') <= MaxMessages
        BY <4>1, TypeStep, MessagesStep
      <4>3. n \in 1 .. MaxMessages /\ (n \in DOMAIN telemetry \/ n > Len(telemetry))
        BY <1>1, <4>2, GrownKeeps, PipelineAssumption
      <4>4. copies[n] # 0
        BY <1>4, <2>2 DEF Sends
      <4>5. QED
        BY <4>3, <4>4 DEF CopiesInv
    <3>2. k \in 1 .. copies[n] /\ k \in Nat /\ now <= TakenAt(n) + Ttl
      BY <1>2, <1>3, <1>4, <2>2, <3>1 DEF Sends
    <3>3. Document(n, k) \in documents
      BY <3>1, <3>2 DEF StoreInv
    <3>4. QED
      BY <1>1, <1>4, <3>1, <3>2, <3>3 DEF Sends
  <2>3. QED
    BY <1>4, <2>1, <2>2 DEF Sends, StoreInv
<1>5. CASE Stores
  <2> DEFINE new == Document(position, copies[position] + 1)
  <2>1. /\ position \in DOMAIN telemetry
        /\ copies' = [copies EXCEPT ![position] = @ + 1]
        /\ documents' = documents \cup {new}
        /\ telemetry' = telemetry
    BY <1>5, StoredEffect DEF Stores, telemetry
  <2>2. \A n \in DOMAIN telemetry :
          copies'[n] = IF n = position THEN copies[n] + 1 ELSE copies[n]
    BY <1>2, <2>1 DEF TypeOK
  <2>3. IsFiniteSet(documents')
    BY <2>1, FS_AddElement DEF StoreInv
  <2>4. ASSUME NEW d \in documents'
        PROVE  \E n \in DOMAIN telemetry' : \E k \in 1 .. copies'[n] : d = Document(n, k)'
    <3>1. CASE d = new
      <4>1. copies[position] + 1 \in 1 .. copies'[position] /\ copies[position] + 1 \in Nat
        BY <1>2, <2>1, <2>2
      <4>2. QED
        BY <1>1, <2>1, <3>1, <4>1
    <3>2. CASE d \in documents
      <4>1. PICK n \in DOMAIN telemetry : \E k \in 1 .. copies[n] : d = Document(n, k)
        BY <3>2 DEF StoreInv
      <4>2. PICK k \in 1 .. copies[n] : d = Document(n, k)
        BY <4>1
      <4>3. k \in 1 .. copies'[n] /\ k \in Nat
        BY <1>2, <2>2, <4>2
      <4>4. QED
        BY <1>1, <2>1, <4>2, <4>3
    <3>3. QED
      BY <2>1, <3>1, <3>2
  <2>5. ASSUME NEW n \in DOMAIN telemetry', NEW k \in 1 .. copies'[n], now' <= TakenAt(n)' + Ttl
        PROVE  Document(n, k)' \in documents'
    <3>1. n \in DOMAIN telemetry /\ k \in Nat /\ now <= TakenAt(n) + Ttl
      BY <1>2, <1>3, <2>1, <2>2, <2>5
    <3>2. Document(n, k)' = Document(n, k)
      BY <1>1, <3>1
    <3>3. k \in 1 .. copies[n] \/ (n = position /\ k = copies[position] + 1)
      BY <1>2, <2>2, <3>1, <2>5
    <3>4. k \in 1 .. copies[n] => Document(n, k) \in documents
      BY <3>1 DEF StoreInv
    <3>5. QED
      BY <2>1, <3>2, <3>3, <3>4
  <2>6. QED
    BY <2>3, <2>4, <2>5 DEF StoreInv
<1>6. CASE Ticks
  <2>1. telemetry' = telemetry /\ documents' = documents /\ copies' = copies
    BY <1>6 DEF Ticks, telemetry
  <2>2. \A n \in DOMAIN telemetry : \A k \in 1 .. copies[n] : Document(n, k)' = Document(n, k)
    BY <1>1, <1>2
  <2>3. QED
    BY <1>1, <1>3, <2>1, <2>2 DEF StoreInv
<1>7. CASE Expires
  <2>1. /\ telemetry' = telemetry /\ copies' = copies /\ now' = now
        /\ documents' = documents \ {d \in documents : d[2] + Ttl < now}
    BY <1>7 DEF Expires, telemetry, Store!Expire, Store!Expired
  <2>2. IsFiniteSet(documents')
    BY <2>1, FS_Subset DEF StoreInv
  <2>3. ASSUME NEW n \in DOMAIN telemetry, NEW k \in 1 .. copies[n], now <= TakenAt(n) + Ttl
        PROVE  Document(n, k) \in documents'
    <3>1. /\ Document(n, k) \in documents /\ Document(n, k)[2] = TakenAt(n)
          /\ TakenAt(n) \in Nat
      BY <2>3, Taken DEF StoreInv, Document
    <3>2. ~(TakenAt(n) + Ttl < now)
      BY <1>1, <2>3, <3>1, PipelineAssumption
    <3>3. QED
      BY <2>1, <3>1, <3>2
  <2>4. \A n \in DOMAIN telemetry : \A k \in 1 .. copies[n] : Document(n, k)' = Document(n, k)
    BY <1>1, <1>2
  <2>5. QED
    BY <1>1, <2>1, <2>2, <2>3, <2>4 DEF StoreInv
<1>8. QED
  BY <1>4, <1>5, <1>6, <1>7, Effects

-----------------------------------------------------------------------------
(* Theorems. *)

LEMMA Invariance == Spec => []Inv
<1>1. Inv /\ [Next]_vars => Inv'
  BY TypeStep, MessagesStep, PositionStep, CopiesStep, StoreStep, LossStep DEF Inv
<1>2. QED
  BY <1>1, InitInv, PTL DEF Spec

(* TypeOK holds always.                                                    *)
THEOREM TypeCorrect == Spec => []TypeOK
<1>1. Inv => TypeOK
  BY DEF Inv
<1>2. QED
  BY <1>1, Invariance, PTL

(* LossBounded holds always: a fault loses the reading in hand, and none   *)
(* that is behind what the group has committed.                            *)
THEOREM LossAlwaysBounded == Spec => []LossBounded
<1>1. Inv => LossBounded
  BY DEF Inv
<1>2. QED
  BY <1>1, Invariance, PTL

(* CopiesBounded holds always: only a process that has ended leaves what   *)
(* it has read to be read again.                                           *)
THEOREM CopiesAlwaysBounded == Spec => []CopiesBounded
<1>1. Inv => CopiesBounded
  <2>1. SUFFICES ASSUME Inv, NEW n \in 1 .. MaxMessages PROVE copies[n] <= 1 + faults
    BY DEF CopiesBounded
  <2>2. faults \in Nat /\ copies[n] \in Nat /\ copies[n] <= faults + 1
    BY <2>1 DEF Inv, TypeOK, CopiesInv
  <2>3. QED
    BY <2>2
<1>2. QED
  BY <1>1, Invariance, PTL

(* A stored reading that has not expired has its first document.           *)
LEMMA StoredOnce ==
  ASSUME TypeOK, MessagesInv, StoreInv, NEW n \in DOMAIN telemetry,
         copies[n] > 0, now <= TakenAt(n) + Ttl
  PROVE  Document(n, 1) \in documents
<1>1. copies[n] \in Nat
  BY Counted
<1>2. 1 \in 1 .. copies[n]
  BY <1>1
<1>3. QED
  BY <1>2 DEF StoreInv

(* LatestNewest holds always: the latest document is compared with those   *)
(* of all stored readings that have not expired.                           *)
THEOREM LatestAlwaysNewest == Spec => []LatestNewest
<1>1. Inv => LatestNewest
  <2>1. SUFFICES ASSUME Inv, NEW d \in Store!Latest, NEW n \in DOMAIN telemetry,
                        copies[n] > 0, now <= TakenAt(n) + Ttl
                 PROVE  TakenAt(n) <= TakenAt(d[1])
    BY DEF LatestNewest
  <2>2. Document(n, 1) \in documents /\ Document(n, 1)[2] = TakenAt(n)
    BY <2>1, StoredOnce DEF Inv, Document
  <2>3. d \in documents /\ d[2] >= Document(n, 1)[2]
    BY <2>2 DEF Store!Latest
  <2>4. PICK m \in DOMAIN telemetry : \E k \in 1 .. copies[m] : d = Document(m, k)
    BY <2>1, <2>3 DEF Inv, StoreInv
  <2>5. d[1] = m /\ d[2] = TakenAt(m) /\ TakenAt(m) \in Nat /\ TakenAt(n) \in Nat
    BY <2>1, <2>4, Taken DEF Inv, Document
  <2>6. QED
    BY <2>2, <2>3, <2>5
<1>2. QED
  BY <1>1, Invariance, PTL

(* Documents of stored readings are no more than what a reading may have,  *)
(* for each of these readings.                                             *)
LEMMA PlacesTaken ==
  ASSUME TypeOK, MessagesInv, CopiesInv, StoreInv, NEW answer \in SUBSET documents,
         NEW readings, readings = {d[1] : d \in answer}
  PROVE  /\ Cardinality(answer) \in Nat /\ Cardinality(readings) \in Nat
         /\ Cardinality(answer) <= (1 + faults) * Cardinality(readings)
<1>1. IsFiniteSet(answer) /\ faults \in Nat /\ IsFiniteSet(1 .. 1 + faults)
  BY FS_Subset, FS_Interval DEF StoreInv, TypeOK
<1>2. \A d \in answer :
        /\ d[1] \in DOMAIN telemetry /\ d = <<d[1], TakenAt(d[1]), d[3]>>
        /\ d[3] \in 1 .. 1 + faults
  <2>1. SUFFICES ASSUME NEW d \in answer
                 PROVE  /\ d[1] \in DOMAIN telemetry /\ d = <<d[1], TakenAt(d[1]), d[3]>>
                        /\ d[3] \in 1 .. 1 + faults
    OBVIOUS
  <2>2. PICK n \in DOMAIN telemetry : \E k \in 1 .. copies[n] : d = Document(n, k)
    BY DEF StoreInv
  <2>3. PICK k \in 1 .. copies[n] : d = <<n, TakenAt(n), k>>
    BY <2>2 DEF Document
  <2>4. n \in 1 .. MaxMessages /\ copies[n] \in Nat /\ copies[n] <= faults + 1
    BY Counted DEF CopiesInv
  <2>5. k \in 1 .. 1 + faults
    BY <1>1, <2>3, <2>4
  <2>6. QED
    BY <2>3, <2>5
<1>3. IsFiniteSet(readings)
  <2>1. readings \subseteq 1 .. Len(telemetry)
    BY <1>2, Logs
  <2>2. IsFiniteSet(1 .. Len(telemetry))
    BY Logs, FS_Interval
  <2>3. QED
    BY <2>1, <2>2, FS_Subset
<1>4. PICK f : f = [d \in answer |-> <<d[1], d[3]>>]
  OBVIOUS
<1>5. f \in Injection(answer, readings \X (1 .. 1 + faults))
  <2>1. f \in [answer -> readings \X (1 .. 1 + faults)]
    BY <1>2, <1>4
  <2>2. ASSUME NEW d \in answer, NEW e \in answer, f[d] = f[e] PROVE d = e
    <3>1. d[1] = e[1] /\ d[3] = e[3]
      BY <1>4, <2>2
    <3>2. QED
      BY <1>2, <3>1
  <2>3. QED
    BY <2>1, <2>2 DEF Injection, IsInjective
<1>6. /\ IsFiniteSet(readings \X (1 .. 1 + faults))
      /\ Cardinality(readings \X (1 .. 1 + faults)) = Cardinality(readings) * Cardinality(1 .. 1 + faults)
  BY <1>1, <1>3, FS_Product
<1>7. Cardinality(1 .. 1 + faults) = 1 + faults
  BY <1>1, FS_Interval
<1>8. Cardinality(answer) <= Cardinality(readings \X (1 .. 1 + faults))
  BY <1>5, <1>6, FS_Injection
<1>9. Cardinality(answer) \in Nat /\ Cardinality(readings) \in Nat
  BY <1>1, <1>3, FS_CardinalityType
<1>10. PICK c \in Nat : c = Cardinality(readings)
  BY <1>9
<1>11. c * (1 + faults) = (1 + faults) * c
  BY <1>1, <1>10
<1>12. QED
  BY <1>6, <1>7, <1>8, <1>9, <1>10, <1>11

(* VisibleAnHour holds always: within the hour a document has not expired, *)
(* an answer without it is cut off at the limit, and what fills the answer *)
(* are as many documents of a reading as faults can have made.             *)
THEOREM AlwaysVisible == Spec => []VisibleAnHour
<1>1. Inv => VisibleAnHour
  <2>1. SUFFICES ASSUME Inv, NEW n \in DOMAIN telemetry, NEW answer \in Store!History,
                        copies[n] > 0, TakenAt(n) <= now, now <= TakenAt(n) + Window
                 PROVE  \/ \E d \in answer : d[1] = n
                        \/ /\ Cardinality(answer) = Limit
                           /\ \A d \in answer : TakenAt(d[1]) >= TakenAt(n)
                           /\ Limit <= (1 + faults) * Cardinality({d[1] : d \in answer})
    BY DEF VisibleAnHour
  <2> DEFINE first == Document(n, 1)
  <2>2. TakenAt(n) \in Nat /\ now \in Nat
    BY <2>1, Taken DEF Inv, TypeOK
  <2>3. first \in documents /\ first[1] = n /\ first[2] = TakenAt(n)
    <3>1. now <= TakenAt(n) + Ttl
      BY <2>1, <2>2, PipelineAssumption
    <3>2. QED
      BY <2>1, <3>1, StoredOnce DEF Inv, Document
  <2>4. first \in Store!Recent
    <3>1. now - Window <= TakenAt(n) /\ TakenAt(n) <= now
      BY <2>1, <2>2, PipelineAssumption
    <3>2. QED
      BY <2>3, <3>1 DEF Store!Recent
  <2> HIDE DEF first
  <2>5. CASE first \in answer
    BY <2>3, <2>5
  <2>6. CASE first \notin answer
    <3>1. /\ answer \subseteq Store!Recent /\ Cardinality(answer) = Store!Returned
          /\ \A d \in answer : d[2] >= TakenAt(n)
      BY <2>3, <2>4, <2>6, StoreCardinality DEF Store!History
    <3>2. Store!Recent \subseteq documents /\ IsFiniteSet(Store!Recent)
      BY <2>1, FS_Subset DEF Inv, StoreInv, Store!Recent
    <3>3. Cardinality(answer) # Cardinality(Store!Recent)
      BY <2>4, <2>6, <3>1, <3>2, FS_Subset
    <3>4. Cardinality(answer) = Limit
      BY <3>1, <3>3, StoreCardinality DEF Store!Returned
    <3>5. ASSUME NEW d \in answer PROVE TakenAt(d[1]) >= TakenAt(n)
      <4>1. d \in documents
        BY <3>1, <3>2
      <4>2. PICK m \in DOMAIN telemetry : \E k \in 1 .. copies[m] : d = Document(m, k)
        BY <2>1, <4>1 DEF Inv, StoreInv
      <4>3. d[1] = m /\ d[2] = TakenAt(m)
        BY <4>2 DEF Document
      <4>4. QED
        BY <3>1, <4>3
    <3>6. Limit <= (1 + faults) * Cardinality({d[1] : d \in answer})
      <4>1. answer \in SUBSET documents
        BY <3>1, <3>2
      <4>2. Cardinality(answer) <= (1 + faults) * Cardinality({d[1] : d \in answer})
        BY <2>1, <4>1, PlacesTaken DEF Inv
      <4>3. QED
        BY <3>4, <4>2
    <3>7. QED
      BY <3>4, <3>5, <3>6
  <2>7. QED
    BY <2>5, <2>6
<1>2. QED
  BY <1>1, Invariance, PTL

=============================================================================
