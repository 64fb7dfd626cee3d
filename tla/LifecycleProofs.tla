-------------------------- MODULE LifecycleProofs --------------------------
(***************************************************************************)
(* Theorems about Lifecycle, for any set of devices.                       *)
(***************************************************************************)
EXTENDS Lifecycle, TLAPS

\* The stages before the first session, and those after the last one was served.
Starting == {"init_mongo", "init_kafka", "listen"}
Stopped  == {"stop_telemetry", "stop_commands", "stop_server", "close_producer",
             "close_mongo", "down"}

\* What has been started, and what has been closed, at each stage.
ServicesInv ==
  /\ stage \in {"init_mongo", "init_kafka"} =>
       producer = "none" /\ consumers = [k \in Consumers |-> "none"]
  /\ stage = "init_mongo" => mongo = "none"
  /\ mongo = "closed" => stage = "down"
  /\ producer = "closed" => stage \in {"close_mongo", "down"}
  /\ stage = "close_mongo" => producer = "closed"
  /\ consumers["telemetry"] = "running" =>
       mongo = "open" /\ stage \in Starting \cup {"serving", "closing", "stop_telemetry"}
  /\ consumers["commands"] = "running" =>
       stage \in Starting \cup {"serving", "closing", "stop_telemetry", "stop_commands"}

\* A session has a transport until it is closed or reset; only a reset one
\* outlives the server.  A device is online while it is served, and afterwards
\* if its connection was reset and the producer closed before its cleanup.
DeviceInv(d) ==
  /\ stage \in Starting => session[d] = "none" /\ status[d] = "none"
  /\ stage \in Stopped => transport[d] # "up"
  /\ stage = "down" => session[d] = "none"
  /\ session[d] # "none" => transport[d] # "closed"
  /\ producer \in {"none", "dead"} => status[d] # "online"
  /\ status[d] = "online" =>
       \/ session[d] \in {"open", "ending"}
       \/ transport[d] = "reset" /\ producer = "closed"

Inv == TypeOK /\ ServicesInv /\ \A d \in Devices : DeviceInv(d)

-----------------------------------------------------------------------------
(* The invariant holds in the initial states.                              *)
LEMMA InvInit == Init => Inv
<1> SUFFICES ASSUME Init PROVE Inv
  OBVIOUS
<1>1. TypeOK
  BY DEF Init, TypeOK, Stages, Consumers
<1>2. ServicesInv
  BY DEF Init, ServicesInv, Consumers
<1>3. ASSUME NEW d \in Devices PROVE DeviceInv(d)
  BY DEF Init, DeviceInv, Stopped
<1>4. QED
  BY <1>1, <1>2, <1>3 DEF Inv

(* Every step keeps the types.                                             *)
LEMMA TypeStep == Inv /\ [Next]_vars => TypeOK'
<1> SUFFICES ASSUME Inv, [Next]_vars PROVE TypeOK'
  OBVIOUS
<1> USE DEF Inv, TypeOK, Stages, At, services, devices
<1>1. CASE InitMongo
  BY <1>1 DEF InitMongo
<1>2. CASE InitKafka
  BY <1>2 DEF InitKafka, Consumers
<1>3. CASE Listen
  BY <1>3 DEF Listen
<1>4. CASE Interrupt
  BY <1>4 DEF Interrupt
<1>5. CASE CloseServer
  BY <1>5 DEF CloseServer
<1>6. CASE StopConsumers
  BY <1>6 DEF StopConsumers, StopConsumer
<1>7. CASE StopServer
  BY <1>7 DEF StopServer
<1>8. CASE CloseProducer
  BY <1>8 DEF CloseProducer
<1>9. CASE CloseMongo
  BY <1>9 DEF CloseMongo, DeviceInv, Stopped
<1>10. ASSUME NEW k \in Consumers, ConsumerFails(k) PROVE TypeOK'
  BY <1>10 DEF ConsumerFails
<1>11. ASSUME NEW d \in Devices, Accept(d) \/ Serve(d) \/ Refuse(d) PROVE TypeOK'
  BY <1>11 DEF Accept, Serve, Refuse, Tells, Closed
<1>12. ASSUME NEW d \in Devices, Reset(d) PROVE TypeOK'
  BY <1>12 DEF Reset
<1>13. ASSUME NEW d \in Devices, Leave(d) PROVE TypeOK'
  BY <1>13 DEF Leave
<1>14. ASSUME NEW d \in Devices, Cleanup(d) PROVE TypeOK'
  BY <1>14 DEF Cleanup, Tells, Closed
<1>15. CASE UNCHANGED vars
  BY <1>15 DEF vars
<1>16. QED
  BY <1>1, <1>2, <1>3, <1>4, <1>5, <1>6, <1>7, <1>8, <1>9, <1>10, <1>11, <1>12, <1>13,
     <1>14, <1>15 DEF Next, Main

(* Only main() and a failing consumer change a service, in this order.     *)
LEMMA ServicesStep == Inv /\ [Next]_vars => ServicesInv'
<1> SUFFICES ASSUME Inv, [Next]_vars PROVE ServicesInv'
  OBVIOUS
<1> USE DEF Inv, TypeOK, ServicesInv, Starting, Consumers, At, services
<1>1. CASE InitMongo
  BY <1>1 DEF InitMongo
<1>2. CASE InitKafka
  BY <1>2 DEF InitKafka
<1>3. CASE Listen
  BY <1>3 DEF Listen
<1>4. CASE Interrupt
  BY <1>4 DEF Interrupt
<1>5. CASE CloseServer
  BY <1>5 DEF CloseServer
<1>6. CASE StopConsumers
  BY <1>6 DEF StopConsumers, StopConsumer
<1>7. CASE StopServer
  BY <1>7 DEF StopServer
<1>8. CASE CloseProducer
  BY <1>8 DEF CloseProducer
<1>9. CASE CloseMongo
  BY <1>9 DEF CloseMongo
<1>10. ASSUME NEW k \in Consumers, ConsumerFails(k) PROVE ServicesInv'
  BY <1>10 DEF ConsumerFails
<1>11. ASSUME NEW d \in Devices,
              Accept(d) \/ Serve(d) \/ Refuse(d) \/ Reset(d) \/ Leave(d) \/ Cleanup(d)
       PROVE  ServicesInv'
  BY <1>11 DEF Accept, Serve, Refuse, Reset, Leave, Cleanup
<1>12. CASE UNCHANGED vars
  BY <1>12 DEF vars
<1>13. QED
  BY <1>1, <1>2, <1>3, <1>4, <1>5, <1>6, <1>7, <1>8, <1>9, <1>10, <1>11, <1>12
     DEF Next, Main

(* Closing the server leaves no transport up; from then on a session that  *)
(* is left was reset, and the steps of one device do not touch another.    *)
LEMMA DeviceStep == ASSUME Inv, [Next]_vars, NEW d \in Devices PROVE DeviceInv(d)'
<1> USE DEF Inv, TypeOK, ServicesInv, DeviceInv, Starting, Stopped, At, services, devices
<1>1. CASE InitMongo \/ InitKafka \/ Listen
  BY <1>1 DEF InitMongo, InitKafka, Listen
<1>2. CASE Interrupt
  BY <1>2 DEF Interrupt
<1>3. CASE CloseServer
  BY <1>3 DEF CloseServer, TransportsClosed
<1>4. CASE StopConsumers
  BY <1>4 DEF StopConsumers
<1>5. CASE StopServer
  BY <1>5 DEF StopServer
<1>6. CASE CloseProducer
  BY <1>6 DEF CloseProducer
<1>7. CASE CloseMongo
  BY <1>7 DEF CloseMongo
<1>8. ASSUME NEW k \in Consumers, ConsumerFails(k) PROVE DeviceInv(d)'
  BY <1>8 DEF ConsumerFails
<1>9. ASSUME NEW e \in Devices, Accept(e) \/ Serve(e) \/ Refuse(e) PROVE DeviceInv(d)'
  BY <1>9 DEF Accept, Serve, Refuse, Tells, Closed
<1>10. ASSUME NEW e \in Devices, Reset(e) PROVE DeviceInv(d)'
  BY <1>10 DEF Reset
<1>11. ASSUME NEW e \in Devices, Leave(e) PROVE DeviceInv(d)'
  BY <1>11 DEF Leave
<1>12. ASSUME NEW e \in Devices, Cleanup(e) PROVE DeviceInv(d)'
  BY <1>12 DEF Cleanup, Tells, Closed
<1>13. CASE UNCHANGED vars
  BY <1>13 DEF vars
<1>14. QED
  BY <1>1, <1>2, <1>3, <1>4, <1>5, <1>6, <1>7, <1>8, <1>9, <1>10, <1>11, <1>12, <1>13
     DEF Next, Main

(* Inv is an invariant of every behaviour.                                 *)
LEMMA Invariance == Spec => []Inv
<1>1. Inv /\ [Next]_vars => Inv'
  BY TypeStep, ServicesStep, DeviceStep DEF Inv
<1>2. QED
  BY InvInit, <1>1, PTL DEF Spec

(* Every variable keeps its type, and no transport outlives its session.   *)
THEOREM TypeCorrect == Spec => []TypeOK
<1>1. Inv => TypeOK
  BY DEF Inv
<1>2. QED
  BY Invariance, <1>1, PTL

(* MongoDB is closed after the telemetry consumer, the producer after the  *)
(* commands consumer and every session that was not reset (main()).        *)
THEOREM UsersAlwaysFirst == Spec => []UsersFirst
<1>1. Inv => UsersFirst
  BY DEF Inv, UsersFirst, TypeOK, ServicesInv, DeviceInv, Starting, Stopped
<1>2. QED
  BY Invariance, <1>1, PTL

(* When the process is down, a device whose last event is "online" had its *)
(* connection reset (_cleanup, main()).                                    *)
THEOREM NoneLeftOnline == Spec => []OfflineUnlessReset
<1>1. Inv => OfflineUnlessReset
  BY DEF Inv, OfflineUnlessReset, DeviceInv
<1>2. QED
  BY Invariance, <1>1, PTL
=============================================================================
