----------------------------- MODULE Lifecycle -----------------------------
(***************************************************************************)
(* The life of the server process: what main() starts, in which order it   *)
(* takes it down after an interrupt or a failure, and the sessions of the  *)
(* devices meanwhile (main.py, BrokerServer.start and stop,                *)
(* KafkaTopicConsumer.start and stop).                                     *)
(*                                                                         *)
(* Python 3.12: closing the server waits until every transport is closed,  *)
(* not until the sessions' coroutines have come to their end.  One         *)
(* interrupt is modelled, before the cleanup begins.                       *)
(***************************************************************************)
EXTENDS Naturals

CONSTANT Devices

VARIABLES
  parameters,  \* the names of the parameters of KafkaTopicConsumer.__init__
  stage,       \* what main() is at
  interrupted, \* whether the process was interrupted
  mongo,       \* the MongoDB client: "none", "open" or "closed"
  producer,    \* the Kafka producer: "none", "dead", "live" or "closed"
  consumers,   \* consumer -> "none", "running" or "stopped"
  session,     \* device -> its coroutine: "none", "handshake", "open" or "ending"
  transport,   \* device -> its transport: "up", "closed" or "reset" by its peer
  status       \* device -> its last status event in Kafka, or "none"

vars == <<parameters, stage, interrupted, mongo, producer, consumers, session, transport, status>>
services == <<mongo, producer, consumers>>
devices == <<session, transport, status>>

Consumers == {"telemetry", "commands"}

\* In the order in which they are passed through.
Stages == {"init_mongo", "init_kafka", "listen", "serving", "closing", "stop_telemetry",
           "stop_commands", "stop_server", "close_producer", "close_mongo", "down"}

\* The keyword arguments of main()'s calls, and what the constructor declares.
Arguments == {"topics", "group_id", "handler", "name"}
Declared  == {"topics", "group_id", "handler_callback"}

\* The constructor as it is declared, or as main() takes it to be.
Init ==
  /\ parameters \in {Declared, Arguments}
  /\ stage = "init_mongo" /\ interrupted = FALSE
  /\ mongo = "none" /\ producer = "none"
  /\ consumers = [k \in Consumers |-> "none"]
  /\ session = [d \in Devices |-> "none"]
  /\ transport = [d \in Devices |-> "closed"]
  /\ status = [d \in Devices |-> "none"]

At(from, to) == stage = from /\ stage' = to /\ UNCHANGED parameters

-----------------------------------------------------------------------------
(* main(). *)

\* A failure leaves the server without MongoDB.
InitMongo ==
  /\ At("init_mongo", "init_kafka")
  /\ mongo' \in {"none", "open"}
  /\ UNCHANGED <<interrupted, producer, consumers, devices>>

\* A failure is swallowed by initialize(): the producer is there and drops what
\* it is given.  The consumers are constructed and started next; a call that does
\* not fit raises TypeError before main() has come to its try.
InitKafka ==
  /\ IF Arguments = parameters
     THEN /\ At("init_kafka", "listen")
          /\ consumers' = [telemetry |-> IF mongo = "open" THEN "running" ELSE "none",
                           commands  |-> "running"]
     ELSE At("init_kafka", "down") /\ UNCHANGED consumers
  /\ producer' \in {"dead", "live"}
  /\ UNCHANGED <<interrupted, mongo, devices>>

\* start_server() of BrokerServer.start; its error leads to the cleanup.
Listen ==
  /\ At("listen", "serving") \/ At("listen", "stop_telemetry")
  /\ UNCHANGED <<interrupted, services, devices>>

\* asyncio.run() cancels main(): in its try, this is for the cleanup to handle.
Interrupt ==
  /\ ~interrupted /\ interrupted' = TRUE
  /\ \/ At("init_mongo", "down") \/ At("init_kafka", "down")
     \/ At("listen", "stop_telemetry") \/ At("serving", "closing")
  /\ UNCHANGED <<services, devices>>

\* Fault: wait_closed() does not wait for connections, as before Python 3.12.
TransportsClosedEver == TRUE

TransportsClosed == \A d \in Devices : transport[d] # "up"

\* "async with self._server": close() and wait_closed().
CloseServer ==
  /\ At("closing", "stop_telemetry")
  /\ TransportsClosed
  /\ UNCHANGED <<interrupted, services, devices>>

\* Fault: the task is cancelled in name only.
StopConsumerName(k) == UNCHANGED consumers

\* Fault: main() waits for a consumer that was never started.
StopConsumerRunning(k) ==
  consumers[k] = "running" /\ consumers' = [consumers EXCEPT ![k] = "stopped"]

\* KafkaTopicConsumer.stop(), which waits for the task; also of one that has ended.
StopConsumer(k) ==
  consumers' = [consumers EXCEPT ![k] = IF @ = "running" THEN "stopped" ELSE @]

StopConsumers ==
  /\ \/ At("stop_telemetry", "stop_commands") /\ StopConsumer("telemetry")
     \/ At("stop_commands", "stop_server") /\ StopConsumer("commands")
  /\ UNCHANGED <<interrupted, mongo, producer, devices>>

\* BrokerServer.stop() closes the connections that are registered still.
StopServer ==
  /\ At("stop_server", "close_producer")
  /\ transport' = [d \in Devices |-> IF transport[d] = "up" THEN "closed" ELSE transport[d]]
  /\ UNCHANGED <<interrupted, services, session, status>>

CloseProducer ==
  /\ At("close_producer", "close_mongo")
  /\ producer' = "closed"
  /\ UNCHANGED <<interrupted, mongo, consumers, devices>>

\* What main() leaves running is cancelled by asyncio.run().
CloseMongo ==
  /\ At("close_mongo", "down")
  /\ mongo' = IF mongo = "open" THEN "closed" ELSE mongo
  /\ session' = [d \in Devices |-> "none"]
  /\ UNCHANGED <<interrupted, producer, consumers, transport, status>>

-----------------------------------------------------------------------------
(* What goes on beside main(). *)

\* An error of start() or getone() ends a consumer for good.
ConsumerFails(k) ==
  /\ consumers[k] = "running"
  /\ consumers' = [consumers EXCEPT ![k] = "stopped"]
  /\ UNCHANGED <<parameters, stage, interrupted, mongo, producer, devices>>

\* An event of a device that the producer sends or drops.
Tells(d, s) == status' = [status EXCEPT ![d] = IF producer = "live" THEN s ELSE @]

\* A device connects; only a server that listens takes the connection.
Accept(d) ==
  /\ stage = "serving" /\ session[d] = "none"
  /\ session' = [session EXCEPT ![d] = "handshake"]
  /\ transport' = [transport EXCEPT ![d] = "up"]
  /\ UNCHANGED <<parameters, stage, interrupted, services, status>>

\* Its CONNECT is accepted, whatever main() is at, and it is reported online; on a
\* connection that was reset the CONNACK fails, with device_id set.
Serve(d) ==
  /\ session[d] = "handshake"
  /\ IF transport[d] = "up"
     THEN session' = [session EXCEPT ![d] = "open"] /\ Tells(d, "online")
     ELSE session' = [session EXCEPT ![d] = "ending"] /\ UNCHANGED status
  /\ UNCHANGED <<parameters, stage, interrupted, services, transport>>

\* The peer resets the connection: its coroutine may be at something else.
Reset(d) ==
  /\ transport[d] = "up"
  /\ transport' = [transport EXCEPT ![d] = "reset"]
  /\ UNCHANGED <<parameters, stage, interrupted, services, session, status>>

\* The session's loop ends, with DISCONNECT, end of file, an error or no frame in time.
Leave(d) ==
  /\ session[d] = "open"
  /\ session' = [session EXCEPT ![d] = "ending"]
  /\ UNCHANGED <<parameters, stage, interrupted, services, transport, status>>

\* Fault: the cleanup goes without closing its writer.
ClosedOpen(d) == UNCHANGED transport

Closed(d) == transport' = [transport EXCEPT ![d] = IF @ = "up" THEN "closed" ELSE @]

\* The rest of _cleanup: the device is reported offline, then the writer closed.
Cleanup(d) ==
  /\ session[d] = "ending"
  /\ session' = [session EXCEPT ![d] = "none"]
  /\ Tells(d, "offline")
  /\ Closed(d)
  /\ UNCHANGED <<parameters, stage, interrupted, services>>

\* No CONNECT in time, or one that is refused: _cleanup without a device_id.
Refuse(d) ==
  /\ session[d] = "handshake"
  /\ session' = [session EXCEPT ![d] = "none"]
  /\ Closed(d)
  /\ UNCHANGED <<parameters, stage, interrupted, services, status>>

-----------------------------------------------------------------------------
Main ==
  \/ InitMongo \/ InitKafka \/ Listen
  \/ CloseServer \/ StopConsumers \/ StopServer \/ CloseProducer \/ CloseMongo

Next ==
  \/ Main \/ Interrupt
  \/ \E k \in Consumers : ConsumerFails(k)
  \/ \E d \in Devices :
       Accept(d) \/ Serve(d) \/ Refuse(d) \/ Reset(d) \/ Leave(d) \/ Cleanup(d)

Spec == Init /\ [][Next]_vars

\* The event loop runs main() and the cleanups; no device has to leave.
FairSpec == Spec /\ WF_vars(Main) /\ \A d \in Devices : WF_vars(Cleanup(d))

-----------------------------------------------------------------------------
(* The types, and that no transport outlives its session.                  *)
TypeOK ==
  /\ parameters \in {Declared, Arguments}
  /\ stage \in Stages /\ interrupted \in BOOLEAN
  /\ mongo \in {"none", "open", "closed"}
  /\ producer \in {"none", "dead", "live", "closed"}
  /\ consumers \in [Consumers -> {"none", "running", "stopped"}]
  /\ session \in [Devices -> {"none", "handshake", "open", "ending"}]
  /\ transport \in [Devices -> {"up", "closed", "reset"}]
  /\ status \in [Devices -> {"none", "online", "offline"}]
  /\ \A d \in Devices : session[d] = "none" => transport[d] # "up"

(* A process that went down has reported every device offline, but for one *)
(* whose connection was reset: its coroutine may find the producer closed  *)
(* (_cleanup, the order of main()'s cleanup).                              *)
OfflineUnlessReset ==
  stage = "down" => \A d \in Devices : status[d] = "online" => transport[d] = "reset"

(* What is used is closed last: MongoDB outlives the telemetry consumer,   *)
(* and the producer the commands consumer and every session whose          *)
(* connection was not reset.                                               *)
UsersFirst ==
  /\ consumers["telemetry"] = "running" => mongo = "open"
  /\ producer = "closed" =>
       /\ consumers["commands"] # "running"
       /\ \A d \in Devices : session[d] # "none" => transport[d] = "reset"

(* Once every connection is closed an interrupted process comes to its     *)
(* end, whatever was started and has failed since.                         *)
ShutdownEnds == (stage = "closing" /\ TransportsClosed) ~> stage = "down"
=============================================================================
