---------------------------- MODULE BrokerProofs ----------------------------
(***************************************************************************)
(* Proofs about the broker, for any set of connections, devices, topics    *)
(* and patterns, any bound on the frames of a session and both values of   *)
(* KafkaReliable.                                                          *)
(***************************************************************************)
EXTENDS Broker, TLAPS

SubsProofs == INSTANCE SubscriptionsProofs

-----------------------------------------------------------------------------
(* The manager's theorems are about SubsProofs; the broker speaks of Subs.   *)
(* The two name the same operators over the same variables.                  *)
LEMMA SubsSame ==
  /\ SubsProofs!Init <=> Subs!Init
  /\ SubsProofs!TypeOK <=> Subs!TypeOK
  /\ SubsProofs!TypeOK' <=> Subs!TypeOK'
  /\ SubsProofs!IndexAgree <=> Subs!IndexAgree
  /\ SubsProofs!IndexAgree' <=> Subs!IndexAgree'
  /\ [SubsProofs!Next]_SubsProofs!subVars <=> [Subs!Next]_subVars
<1>1. SubsProofs!TypeOK <=> Subs!TypeOK
  BY DEF SubsProofs!TypeOK, Subs!TypeOK
<1>2. SubsProofs!TypeOK' <=> Subs!TypeOK'
  BY DEF SubsProofs!TypeOK, Subs!TypeOK
<1>3. SubsProofs!Init <=> Subs!Init
  BY DEF SubsProofs!Init, Subs!Init, SubsProofs!NoDict, Subs!NoDict
<1>4. SubsProofs!IndexAgree <=> Subs!IndexAgree
  BY DEF SubsProofs!IndexAgree, Subs!IndexAgree, SubsProofs!At, Subs!At
<1>4a. SubsProofs!IndexAgree' <=> Subs!IndexAgree'
  BY DEF SubsProofs!IndexAgree, Subs!IndexAgree, SubsProofs!At, Subs!At
<1>5. [SubsProofs!Next]_SubsProofs!subVars <=> [Subs!Next]_subVars
  <2>1. ASSUME NEW client, NEW pattern
        PROVE  /\ SubsProofs!Subscribe(client, pattern) <=> Subs!Subscribe(client, pattern)
               /\ SubsProofs!Unsubscribe(client, pattern) <=> Subs!Unsubscribe(client, pattern)
               /\ SubsProofs!RemoveClient(client) <=> Subs!RemoveClient(client)
    BY DEF SubsProofs!Subscribe, Subs!Subscribe, SubsProofs!Unsubscribe, Subs!Unsubscribe,
           SubsProofs!RemoveClient, Subs!RemoveClient, SubsProofs!Added, Subs!Added,
           SubsProofs!Discarded, Subs!Discarded, SubsProofs!At, Subs!At
  <2> QED
    BY <2>1 DEF SubsProofs!Next, Subs!Next, SubsProofs!subVars, subVars
<1> QED
  BY <1>1, <1>2, <1>3, <1>4, <1>4a, <1>5

-----------------------------------------------------------------------------
(* Type correctness.  Named is what the types alone do not say: a session  *)
(* has a device id, and a connection under authentication has claimed one. *)

Named ==
  \A c \in Conns :
    /\ phase[c] = "auth" => claimed[c] \in DeviceIds
    /\ phase[c] \in Serving \cup {"failed", "offline"} => deviceId[c] \in DeviceIds

TypeInv == TypeOK /\ Named

LEMMA InitTypeInv == Init => TypeInv
<1> SUFFICES ASSUME Init PROVE TypeInv
  OBVIOUS
<1>1. Subs!TypeOK
  BY SubsProofs!InitType, SubsSame, ExtendsAssumption, SpellsResponseAssumption, BrokerAssumption DEF Init
<1>2. frames \in [Conns -> 0 .. MaxFrames]
  BY BrokerAssumption DEF Init
<1>3. TypeOK
  BY <1>1, <1>2 DEF Init, TypeOK, Phases
<1>4. Named
  BY DEF Init, Named, Serving
<1> QED
  BY <1>3, <1>4 DEF TypeInv

(* The broker's steps on the two dictionaries are the manager's. *)
LEMMA StepSubscriptions ==
  ASSUME TypeInv, [Next]_vars
  PROVE  [Subs!Next]_subVars
<1> USE DEF TypeInv
<1>1. ASSUME NEW c \in Conns, AuthAccepted(c)
      PROVE  [Subs!Next]_subVars
  BY <1>1 DEF AuthAccepted, Register, Named, Subs!Next, subVars
<1>2. ASSUME NEW c \in Conns, NEW p \in TopicPatterns, Subscribe(c, p)
      PROVE  [Subs!Next]_subVars
  BY <1>2 DEF Subscribe, ReadFrame, Named, Serving, Subs!Next, subVars
<1>3. ASSUME NEW c \in Conns, NEW p \in TopicPatterns, Unsubscribe(c, p)
      PROVE  [Subs!Next]_subVars
  BY <1>3 DEF Unsubscribe, ReadFrame, Named, Serving, Subs!Next, subVars
<1>4. ASSUME NEW c \in Conns, End(c), phase[c] \in Serving \cup {"failed"}
      PROVE  [Subs!Next]_subVars
  BY <1>4 DEF End, Cleanup, CloseOnly, Named, Subs!Next, subVars
<1>5. ASSUME NEW c \in Conns, LeaveLoop(c) \/ ReplyFailed(c) \/ ConnackFailed(c)
      PROVE  [Subs!Next]_subVars
  BY <1>4, <1>5 DEF LeaveLoop, ReplyFailed, ConnackFailed, Serving
<1>6. ASSUME NEW c \in Conns,
             \/ HandshakeAborted(c) \/ AuthRejected(c) \/ AuthAcceptedLost(c)
             \/ OnlineSent(c) \/ ForwardResume(c) \/ PublishSent(c) \/ ReplyDone(c)
             \/ OfflineSent(c) \/ Closed(c) \/ Accept(c) \/ Ping(c) \/ Ignore(c)
             \/ ConnectionLost(c)
             \/ \E d \in DeviceIds : Connect(c, d)
             \/ \E topic \in TopicNames : Publish(c, topic)
      PROVE  UNCHANGED subVars
  BY <1>6 DEF HandshakeAborted, AuthRejected, AuthAcceptedLost, OnlineSent,
       ForwardResume, PublishSent, ReplyDone, OfflineSent, Closed, Accept, Ping,
       Ignore, ConnectionLost, Connect, Publish, CloseOnly
<1>7. ASSUME NEW d, NEW topic, RouteCommand(d, topic)
      PROVE  UNCHANGED subVars
  BY <1>7 DEF RouteCommand
<1>8. CASE UNCHANGED vars
  BY <1>8 DEF vars, subVars
<1> QED
  BY <1>1, <1>2, <1>3, <1>5, <1>6, <1>7, <1>8 DEF Next, ServerStep, DeviceStep

(* The subscribers of a topic are devices. *)
LEMMA SubscribersType ==
  ASSUME TypeInv, NEW topic
  PROVE  Subs!GetSubscribers(topic) \subseteq DeviceIds
BY DEF TypeInv, TypeOK, Subs!TypeOK, Subs!GetSubscribers

(* A stretch of handle_publish keeps the types of what it changes. *)
LEMMA ForwardType ==
  ASSUME TypeInv, NEW c \in Conns, NEW todo \in SUBSET (DeviceIds \X TopicNames),
         phase[c] \in Serving, Forward(c, todo)
  PROVE  /\ pending' \in [Conns -> SUBSET (DeviceIds \X TopicNames)]
         /\ written' \in [Conns -> SUBSET ((DeviceIds \cup {NoDevice})
                                             \X (TopicNames \cup CommandTopics))]
         /\ phase' = [phase EXCEPT ![c] = "forward"] \/ phase' = [phase EXCEPT ![c] = "kafka"]
<1> USE DEF TypeInv
<1>1. deviceId[c] \in DeviceIds
  BY DEF Named
<1>2. CASE \E next \in todo :
             /\ connections[next[1]] # NoConn
             /\ \E passed \in SUBSET {m \in todo : connections[m[1]] = NoConn} :
                  pending' = [pending EXCEPT ![c] = todo \ (passed \cup {next})]
             /\ Write(connections[next[1]], <<deviceId[c], next[2]>>)
             /\ GoTo(c, "forward")
  <2>1. PICK next \in todo :
             /\ \E passed \in SUBSET {m \in todo : connections[m[1]] = NoConn} :
                  pending' = [pending EXCEPT ![c] = todo \ (passed \cup {next})]
             /\ Write(connections[next[1]], <<deviceId[c], next[2]>>)
             /\ GoTo(c, "forward")
    BY <1>2
  <2>2. pending' \in [Conns -> SUBSET (DeviceIds \X TopicNames)]
    BY <2>1 DEF TypeOK
  <2>3. <<deviceId[c], next[2]>> \in (DeviceIds \cup {NoDevice}) \X (TopicNames \cup CommandTopics)
    BY <1>1
  <2>4. written' \in [Conns -> SUBSET ((DeviceIds \cup {NoDevice})
                                          \X (TopicNames \cup CommandTopics))]
    BY <2>1, <2>3 DEF TypeOK, Write
  <2> QED
    BY <2>1, <2>2, <2>4 DEF GoTo
<1>3. CASE /\ pending' = [pending EXCEPT ![c] = {}]
           /\ GoTo(c, "kafka")
           /\ UNCHANGED written
  BY <1>3 DEF TypeOK, GoTo
<1> QED
  BY <1>2, <1>3 DEF Forward

(* _cleanup keeps the types of what it changes. *)
LEMMA EndType ==
  ASSUME TypeInv, NEW c \in Conns, phase[c] \in Serving \cup {"failed"}, End(c)
  PROVE  /\ phase' = [phase EXCEPT ![c] = "offline"] \/ phase' = [phase EXCEPT ![c] = "closing"]
         /\ sock' \in [Conns -> {"none", "open", "closing", "lost"}]
         /\ connections' \in [DeviceIds -> Conns \cup {NoConn}]
         /\ status' \in [DeviceIds -> {"none", "online", "offline"}]
         /\ UNCHANGED <<claimed, deviceId, pending, written, frames>>
<1>1. CASE deviceId[c] = EmptyId
  <2>1. CloseOnly(c) /\ UNCHANGED <<claimed, deviceId, pending, written, frames>>
    BY <1>1 DEF End, Cleanup
  <2> QED
    BY <2>1 DEF CloseOnly, Close, GoTo, TypeInv, TypeOK
<1>2. CASE deviceId[c] # EmptyId
  BY <1>2 DEF End, Cleanup, SendStatus, GoTo, TypeInv, TypeOK
<1> QED
  BY <1>1, <1>2

LEMMA StepTypeInv ==
  ASSUME TypeInv, [Next]_vars
  PROVE  TypeInv'
<1> USE DEF TypeInv
<1>0. Subs!TypeOK'
  BY StepSubscriptions, SubsProofs!StepType, SubsSame, ExtendsAssumption,
     SpellsResponseAssumption, BrokerAssumption DEF TypeOK
<1>a. MaxFrames \in Nat
  BY BrokerAssumption
<1> HIDE DEF TypeInv
<1> USE DEF Phases, Serving, GoTo
<1>1. ASSUME NEW c \in Conns, Accept(c) PROVE TypeInv'
  BY <1>0, <1>1 DEF TypeInv, TypeOK, Named, Accept
<1>2. ASSUME NEW c \in Conns, NEW d \in DeviceIds, Connect(c, d) PROVE TypeInv'
  BY <1>0, <1>2 DEF TypeInv, TypeOK, Named, Connect
<1>3. ASSUME NEW c \in Conns, HandshakeAborted(c) PROVE TypeInv'
  BY <1>0, <1>3 DEF TypeInv, TypeOK, Named, HandshakeAborted, CloseOnly, Close
<1>4. ASSUME NEW c \in Conns, AuthRejected(c) PROVE TypeInv'
  BY <1>0, <1>4 DEF TypeInv, TypeOK, Named, AuthRejected, CloseOnly, Close
<1>5. ASSUME NEW c \in Conns, AuthAccepted(c) PROVE TypeInv'
  <2>1. claimed[c] \in DeviceIds
    BY <1>5 DEF TypeInv, Named, AuthAccepted
  <2>2. /\ sock' \in [Conns -> {"none", "open", "closing", "lost"}]
        /\ connections' \in [DeviceIds -> Conns \cup {NoConn}]
    BY <1>5, <2>1 DEF TypeInv, TypeOK, AuthAccepted, Register, Close
  <2>3. status' \in [DeviceIds -> {"none", "online", "offline"}]
    BY <1>5, <2>1 DEF TypeInv, TypeOK, AuthAccepted, SendStatus
  <2> QED
    BY <1>0, <1>5, <2>1, <2>2, <2>3 DEF TypeInv, TypeOK, Named, AuthAccepted
<1>6. ASSUME NEW c \in Conns, AuthAcceptedLost(c) PROVE TypeInv'
  BY <1>0, <1>6 DEF TypeInv, TypeOK, Named, AuthAcceptedLost
<1>7. ASSUME NEW c \in Conns, OnlineSent(c) \/ PublishSent(c) \/ ReplyDone(c)
      PROVE  TypeInv'
  BY <1>0, <1>7 DEF TypeInv, TypeOK, Named, OnlineSent, PublishSent, ReplyDone
<1>8. ASSUME NEW c \in Conns, ReadFrame(c)
      PROVE  frames' \in [Conns -> 0 .. MaxFrames]
  BY <1>a, <1>8 DEF TypeInv, TypeOK, ReadFrame
<1>9. ASSUME NEW c \in Conns, NEW topic \in TopicNames, Publish(c, topic) PROVE TypeInv'
  <2> DEFINE todo == {<<s, topic>> : s \in Subs!GetSubscribers(topic) \ {deviceId[c]}}
  <2>1. todo \in SUBSET (DeviceIds \X TopicNames)
    BY SubscribersType
  <2>2. Forward(c, todo) /\ ReadFrame(c) /\ phase[c] = "loop"
    BY <1>9 DEF Publish, ReadFrame
  <2> HIDE DEF todo
  <2>3. /\ pending' \in [Conns -> SUBSET (DeviceIds \X TopicNames)]
        /\ written' \in [Conns -> SUBSET ((DeviceIds \cup {NoDevice})
                                             \X (TopicNames \cup CommandTopics))]
        /\ phase' = [phase EXCEPT ![c] = "forward"] \/ phase' = [phase EXCEPT ![c] = "kafka"]
    BY <2>1, <2>2, ForwardType
  <2> QED
    BY <1>0, <1>8, <1>9, <2>2, <2>3 DEF TypeInv, TypeOK, Named, Publish
<1>10. ASSUME NEW c \in Conns, ForwardResume(c) PROVE TypeInv'
  <2>1. pending[c] \in SUBSET (DeviceIds \X TopicNames)
    BY DEF TypeInv, TypeOK
  <2>2. /\ pending' \in [Conns -> SUBSET (DeviceIds \X TopicNames)]
        /\ written' \in [Conns -> SUBSET ((DeviceIds \cup {NoDevice})
                                             \X (TopicNames \cup CommandTopics))]
        /\ phase' = [phase EXCEPT ![c] = "forward"] \/ phase' = [phase EXCEPT ![c] = "kafka"]
    BY <1>10, <2>1, ForwardType DEF ForwardResume
  <2> QED
    BY <1>0, <1>10, <2>2 DEF TypeInv, TypeOK, Named, ForwardResume
<1>11. ASSUME NEW c \in Conns,
              \/ Ping(c)
              \/ \E p \in TopicPatterns : Subscribe(c, p) \/ Unsubscribe(c, p)
       PROVE  TypeInv'
  BY <1>0, <1>8, <1>11 DEF TypeInv, TypeOK, Named, Ping, Subscribe, Unsubscribe, Reply, ReadFrame
<1>12. ASSUME NEW c \in Conns, Ignore(c) PROVE TypeInv'
  BY <1>0, <1>8, <1>12 DEF TypeInv, TypeOK, Named, Ignore
<1>13. ASSUME NEW c \in Conns, LeaveLoop(c) \/ ReplyFailed(c) \/ ConnackFailed(c)
       PROVE  TypeInv'
  <2>1. phase[c] \in Serving \cup {"failed"} /\ End(c)
    BY <1>13 DEF LeaveLoop, ReplyFailed, ConnackFailed
  <2>2. /\ phase' = [phase EXCEPT ![c] = "offline"] \/ phase' = [phase EXCEPT ![c] = "closing"]
        /\ sock' \in [Conns -> {"none", "open", "closing", "lost"}]
        /\ connections' \in [DeviceIds -> Conns \cup {NoConn}]
        /\ status' \in [DeviceIds -> {"none", "online", "offline"}]
        /\ UNCHANGED <<claimed, deviceId, pending, written, frames>>
    BY <2>1, EndType
  <2> QED
    BY <1>0, <2>1, <2>2 DEF TypeInv, TypeOK, Named
<1>14. ASSUME NEW c \in Conns, OfflineSent(c) PROVE TypeInv'
  BY <1>0, <1>14 DEF TypeInv, TypeOK, Named, OfflineSent, Close
<1>15. ASSUME NEW c \in Conns, ConnectionLost(c) PROVE TypeInv'
  BY <1>0, <1>15 DEF TypeInv, TypeOK, Named, ConnectionLost
<1>16. ASSUME NEW c \in Conns, Closed(c) PROVE TypeInv'
  BY <1>0, <1>16, <1>a DEF TypeInv, TypeOK, Named, Closed
<1>17. ASSUME NEW d \in DeviceIds, NEW topic \in CommandTopics, RouteCommand(d, topic)
       PROVE  TypeInv'
  BY <1>0, <1>17 DEF TypeInv, TypeOK, Named, RouteCommand, Write
<1>18. CASE UNCHANGED vars
  BY <1>0, <1>18 DEF TypeInv, TypeOK, Named, vars, connVars, subVars
<1> QED
  BY <1>1, <1>2, <1>3, <1>4, <1>5, <1>6, <1>7, <1>9, <1>10, <1>11, <1>12, <1>13,
     <1>14, <1>15, <1>16, <1>17, <1>18 DEF Next, ServerStep, DeviceStep

LEMMA TypeInvariant == Spec => []TypeInv
BY InitTypeInv, StepTypeInv, PTL DEF Spec

(* Every variable of the broker keeps its type. *)
THEOREM TypeCorrect == Spec => []TypeOK
BY TypeInvariant, PTL DEF TypeInv

-----------------------------------------------------------------------------
(* The broker implements the subscription manager: it changes the two       *)
(* dictionaries by the manager's operations, on devices and on patterns of  *)
(* the model.                                                               *)
THEOREM ManagerImplemented == Spec => ImplementsSubscriptions
<1>1. Init => Subs!Init
  BY DEF Init
<1>2. TypeInv /\ [Next]_vars => [Subs!Next]_subVars
  BY StepSubscriptions
<1>3. [Subs!Next]_subVars <=> [Subs!Next]_Subs!subVars
  BY DEF subVars, Subs!subVars
<1> QED
  BY <1>1, <1>2, <1>3, TypeInvariant, PTL DEF Spec, ImplementsSubscriptions, Subs!Spec

(* Hence what is proved of the manager alone holds in the broker: after     *)
(* remove_client no pattern holds the client.                               *)
LEMMA SubscriptionsAgree == Spec => []Subs!IndexAgree
<1>1. Init => Subs!IndexAgree
  BY SubsProofs!InitAgree, SubsSame, ExtendsAssumption, SpellsResponseAssumption, BrokerAssumption DEF Init
<1>2. Subs!IndexAgree /\ [Subs!Next]_subVars => Subs!IndexAgree'
  BY SubsProofs!StepAgree, SubsSame, ExtendsAssumption, SpellsResponseAssumption, BrokerAssumption
<1>3. TypeInv /\ [Next]_vars => [Subs!Next]_subVars
  BY StepSubscriptions
<1> QED
  BY <1>1, <1>2, <1>3, TypeInvariant, PTL DEF Spec

(* remove_client leaves the client under no pattern, and others where they  *)
(* were.                                                                    *)
LEMMA Removed ==
  ASSUME TypeInv, Subs!IndexAgree, NEW d \in DeviceIds, Subs!RemoveClient(d)
  PROVE  \A p \in DOMAIN subscriptions' :
           /\ p \in DOMAIN subscriptions
           /\ d \notin subscriptions'[p]
           /\ subscriptions'[p] \subseteq subscriptions[p]
<1> SUFFICES ASSUME NEW p \in DOMAIN subscriptions'
             PROVE  /\ p \in DOMAIN subscriptions
                    /\ d \notin subscriptions'[p]
                    /\ subscriptions'[p] \subseteq subscriptions[p]
  OBVIOUS
<1>1. /\ p \in DOMAIN subscriptions
      /\ subscriptions'[p] = IF p \in Subs!At(clientSubs, d) THEN subscriptions[p] \ {d}
                             ELSE subscriptions[p]
  BY DEF Subs!RemoveClient, Subs!Discarded
<1>2. p \in TopicPatterns
  BY <1>1 DEF TypeInv, TypeOK, Subs!TypeOK
<1>3. d \in subscriptions[p] => p \in Subs!At(clientSubs, d)
  BY <1>1, <1>2 DEF Subs!IndexAgree, Subs!At
<1> QED
  BY <1>1, <1>3

-----------------------------------------------------------------------------
(* Sessions.  Only three kinds of step matter to who has a session and what *)
(* is recorded of it: a registration, a subscription and a cleanup.  The    *)
(* others are quiet: sessions go on, the registry and the status log stand, *)
(* and subscriptions are lost at most.                                      *)

SessionsGoOn ==
  \A k \in Conns : phase[k] \in Serving => phase'[k] \in Serving /\ deviceId'[k] = deviceId[k]

SubscriptionsShrink ==
  \A p \in DOMAIN subscriptions' :
    p \in DOMAIN subscriptions /\ subscriptions'[p] \subseteq subscriptions[p]

Quiet == SessionsGoOn /\ SubscriptionsShrink /\ UNCHANGED <<connections, status>>

LEMMA StepKinds ==
  ASSUME TypeInv, [Next]_vars
  PROVE  \/ \E c \in Conns : AuthAccepted(c)
         \/ \E c \in Conns, p \in TopicPatterns : Subscribe(c, p)
         \/ \E c \in Conns : phase[c] \in Serving \cup {"failed"} /\ End(c)
         \/ Quiet
<1> USE DEF TypeInv, TypeOK, GoTo, Serving, SessionsGoOn
<1>1. ASSUME NEW c \in Conns,
             \/ Accept(c) \/ HandshakeAborted(c) \/ AuthRejected(c) \/ AuthAcceptedLost(c)
             \/ OfflineSent(c) \/ Closed(c) \/ \E d \in DeviceIds : Connect(c, d)
      PROVE  SessionsGoOn /\ UNCHANGED <<connections, subVars, status>>
  BY <1>1 DEF Accept, HandshakeAborted, AuthRejected, AuthAcceptedLost, OfflineSent,
              Closed, Connect, CloseOnly
<1>2. ASSUME NEW c \in Conns,
             \/ OnlineSent(c) \/ PublishSent(c) \/ ReplyDone(c) \/ Ignore(c) \/ Ping(c)
             \/ ConnectionLost(c)
      PROVE  SessionsGoOn /\ UNCHANGED <<connections, subVars, status>>
  BY <1>2 DEF OnlineSent, PublishSent, ReplyDone, Ignore, Ping, Reply, ConnectionLost
<1>3. ASSUME NEW c \in Conns,
             ForwardResume(c) \/ \E topic \in TopicNames : Publish(c, topic)
      PROVE  SessionsGoOn /\ UNCHANGED <<connections, subVars, status>>
  BY <1>3 DEF ForwardResume, Publish, Forward
<1>4. ASSUME NEW d, NEW topic, RouteCommand(d, topic)
      PROVE  SessionsGoOn /\ UNCHANGED <<connections, subVars, status>>
  BY <1>4 DEF RouteCommand
<1>5. ASSUME NEW c \in Conns, NEW p \in TopicPatterns, Unsubscribe(c, p)
      PROVE  Quiet
  <2>1. SubscriptionsShrink
    BY <1>5 DEF Unsubscribe, Subs!Unsubscribe, Subs!Discarded, SubscriptionsShrink
  <2> QED
    BY <1>5, <2>1 DEF Unsubscribe, Reply, ReadFrame, Quiet
<1>6. CASE UNCHANGED vars
  BY <1>6 DEF vars, connVars, subVars, Quiet, SubscriptionsShrink
<1>7. SessionsGoOn /\ UNCHANGED <<connections, subVars, status>> => Quiet
  BY DEF Quiet, SubscriptionsShrink, subVars
<1>8. ASSUME NEW c \in Conns, LeaveLoop(c) \/ ReplyFailed(c) \/ ConnackFailed(c)
      PROVE  phase[c] \in Serving \cup {"failed"} /\ End(c)
  BY <1>8 DEF LeaveLoop, ReplyFailed, ConnackFailed
<1> HIDE DEF TypeInv, TypeOK, GoTo, Serving, SessionsGoOn
<1> QED
  BY <1>1, <1>2, <1>3, <1>4, <1>5, <1>6, <1>7, <1>8 DEF Next, ServerStep, DeviceStep

(* What a registration does to the sessions. *)
LEMMA AcceptedSession ==
  ASSUME TypeInv, NEW c \in Conns, AuthAccepted(c)
  PROVE  /\ claimed[c] \in DeviceIds /\ phase[c] = "auth"
         /\ deviceId' = [deviceId EXCEPT ![c] = claimed[c]]
         /\ phase' = [phase EXCEPT ![c] = "online"]
         /\ connections' = [connections EXCEPT ![claimed[c]] = c]
         /\ SendStatus(claimed[c], "online")
         /\ Subs!RemoveClient(claimed[c]) \/ UNCHANGED subVars
BY DEF TypeInv, Named, AuthAccepted, Register, GoTo

(* What the end of a session does, for a device id other than "". *)
LEMMA EndedSession ==
  ASSUME TypeInv, NEW c \in Conns, phase[c] \in Serving \cup {"failed"}, End(c)
  PROVE  /\ deviceId[c] \in DeviceIds /\ UNCHANGED deviceId
         /\ phase' = [phase EXCEPT ![c] = "offline"] \/ phase' = [phase EXCEPT ![c] = "closing"]
         /\ IF deviceId[c] = EmptyId THEN UNCHANGED <<connections, subVars, status>>
            ELSE /\ Subs!RemoveClient(deviceId[c])
                 /\ connections' = [connections EXCEPT ![deviceId[c]] = NoConn]
                 /\ SendStatus(deviceId[c], "offline")
BY EndType DEF TypeInv, Named, End, Cleanup, CloseOnly

(* The registry: an entry is written by the session it leads to and leaves  *)
(* with the first session of the device that ends, its own among them.      *)
LEMMA StepRegistryLive ==
  ASSUME TypeInv, RegistryLive, [Next]_vars
  PROVE  RegistryLive'
<1> SUFFICES ASSUME NEW d \in DeviceIds \ {EmptyId}, connections'[d] # NoConn
             PROVE  /\ deviceId'[connections'[d]] = d
                    /\ phase'[connections'[d]] \in Serving
  BY DEF RegistryLive
<1>1. ASSUME NEW c \in Conns, AuthAccepted(c)
      PROVE  /\ deviceId'[connections'[d]] = d
             /\ phase'[connections'[d]] \in Serving
  BY <1>1, AcceptedSession DEF RegistryLive, TypeInv, TypeOK, Serving
<1>2. ASSUME NEW c \in Conns, NEW p \in TopicPatterns, Subscribe(c, p)
      PROVE  /\ deviceId'[connections'[d]] = d
             /\ phase'[connections'[d]] \in Serving
  BY <1>2 DEF Subscribe, Reply, GoTo, RegistryLive, TypeInv, TypeOK, Serving
<1>3. ASSUME NEW c \in Conns, phase[c] \in Serving \cup {"failed"}, End(c)
      PROVE  /\ deviceId'[connections'[d]] = d
             /\ phase'[connections'[d]] \in Serving
  BY <1>3, EndedSession DEF RegistryLive, TypeInv, TypeOK
<1>4. CASE Quiet
  BY <1>4 DEF Quiet, SessionsGoOn, RegistryLive, TypeInv, TypeOK
<1> QED
  BY <1>1, <1>2, <1>3, <1>4, StepKinds

(* A registry entry always leads to a session of its device in progress. *)
THEOREM RegistryAlwaysLive == Spec => []RegistryLive
<1>1. Init => RegistryLive
  BY DEF Init, RegistryLive
<1>2. TypeInv /\ RegistryLive /\ [Next]_vars => RegistryLive'
  BY StepRegistryLive
<1> QED
  BY <1>1, <1>2, TypeInvariant, PTL DEF Spec

LEMMA StepNoOrphan ==
  ASSUME TypeInv, Subs!IndexAgree, NoOrphanSubscription, [Next]_vars
  PROVE  NoOrphanSubscription'
<1> SUFFICES ASSUME NEW d \in DeviceIds \ {EmptyId}, NEW p \in DOMAIN subscriptions',
                    d \in subscriptions'[p]
             PROVE  \E k \in Conns : deviceId'[k] = d /\ phase'[k] \in Serving
  BY DEF NoOrphanSubscription
<1>1. ASSUME NEW c \in Conns, AuthAccepted(c)
      PROVE  \E k \in Conns : deviceId'[k] = d /\ phase'[k] \in Serving
  <2>1. p \in DOMAIN subscriptions /\ d \in subscriptions[p]
    BY <1>1, AcceptedSession, Removed DEF subVars
  <2>2. PICK k \in Conns : deviceId[k] = d /\ phase[k] \in Serving
    BY <2>1 DEF NoOrphanSubscription
  <2> QED
    BY <1>1, <2>2, AcceptedSession DEF TypeInv, TypeOK, Serving
<1>2. ASSUME NEW c \in Conns, NEW q \in TopicPatterns, Subscribe(c, q)
      PROVE  \E k \in Conns : deviceId'[k] = d /\ phase'[k] \in Serving
  <2>1. /\ phase[c] = "loop" /\ phase' = [phase EXCEPT ![c] = "reply"] /\ UNCHANGED deviceId
        /\ Subs!Subscribe(deviceId[c], q) \/ UNCHANGED subVars
    BY <1>2 DEF Subscribe, Reply, ReadFrame, GoTo
  <2>2. d = deviceId[c] \/ (p \in DOMAIN subscriptions /\ d \in subscriptions[p])
    BY <2>1 DEF Subs!Subscribe, Subs!Added, Subs!At, subVars
  <2>3. ASSUME NEW k \in Conns, deviceId[k] = d, phase[k] \in Serving
        PROVE  deviceId'[k] = d /\ phase'[k] \in Serving
    BY <2>1, <2>3 DEF TypeInv, TypeOK, Serving
  <2> QED
    BY <2>1, <2>2, <2>3 DEF NoOrphanSubscription, Serving
<1>3. ASSUME NEW c \in Conns, phase[c] \in Serving \cup {"failed"}, End(c)
      PROVE  \E k \in Conns : deviceId'[k] = d /\ phase'[k] \in Serving
  <2>1. /\ p \in DOMAIN subscriptions /\ d \in subscriptions[p]
        /\ deviceId[c] # d
    BY <1>3, EndedSession, Removed DEF subVars
  <2>2. PICK k \in Conns : deviceId[k] = d /\ phase[k] \in Serving
    BY <2>1 DEF NoOrphanSubscription
  <2> QED
    BY <1>3, <2>1, <2>2, EndedSession DEF TypeInv, TypeOK
<1>4. CASE Quiet
  <2>1. p \in DOMAIN subscriptions /\ d \in subscriptions[p]
    BY <1>4 DEF Quiet, SubscriptionsShrink
  <2> QED
    BY <1>4, <2>1 DEF Quiet, SessionsGoOn, NoOrphanSubscription
<1> QED
  BY <1>1, <1>2, <1>3, <1>4, StepKinds

(* A device that holds a subscription has a session. *)
THEOREM NoSubscriptionOrphaned == Spec => []NoOrphanSubscription
<1>1. Init => NoOrphanSubscription
  BY DEF Init, Subs!Init, Subs!NoDict, NoOrphanSubscription
<1>2. TypeInv /\ Subs!IndexAgree /\ NoOrphanSubscription /\ [Next]_vars
        => NoOrphanSubscription'
  BY StepNoOrphan
<1> QED
  BY <1>1, <1>2, TypeInvariant, SubscriptionsAgree, PTL DEF Spec

LEMMA StepNoStaleOnline ==
  ASSUME TypeInv, NoStaleOnline, [Next]_vars
  PROVE  NoStaleOnline'
<1> SUFFICES ASSUME KafkaReliable = TRUE, NEW d \in DeviceIds \ {EmptyId}, status'[d] = "online"
             PROVE  \E k \in Conns : deviceId'[k] = d /\ phase'[k] \in Serving
  BY BrokerAssumption DEF NoStaleOnline
<1>0. status[d] = "online" => \E k \in Conns : deviceId[k] = d /\ phase[k] \in Serving
  BY DEF NoStaleOnline
<1>1. ASSUME NEW c \in Conns, AuthAccepted(c)
      PROVE  \E k \in Conns : deviceId'[k] = d /\ phase'[k] \in Serving
  <2>1. d = claimed[c] \/ status[d] = "online"
    BY <1>1, AcceptedSession DEF SendStatus, TypeInv, TypeOK
  <2>2. ASSUME NEW k \in Conns, deviceId[k] = d, phase[k] \in Serving
        PROVE  deviceId'[k] = d /\ phase'[k] \in Serving
    BY <1>1, <2>2, AcceptedSession DEF TypeInv, TypeOK, Serving
  <2>3. deviceId'[c] = claimed[c] /\ phase'[c] \in Serving
    BY <1>1, AcceptedSession DEF TypeInv, TypeOK, Serving
  <2> QED
    BY <1>0, <2>1, <2>2, <2>3
<1>2. ASSUME NEW c \in Conns, NEW q \in TopicPatterns, Subscribe(c, q)
      PROVE  \E k \in Conns : deviceId'[k] = d /\ phase'[k] \in Serving
  BY <1>0, <1>2 DEF Subscribe, Reply, GoTo, TypeInv, TypeOK, Serving
<1>3. ASSUME NEW c \in Conns, phase[c] \in Serving \cup {"failed"}, End(c)
      PROVE  \E k \in Conns : deviceId'[k] = d /\ phase'[k] \in Serving
  <2>1. status[d] = "online" /\ deviceId[c] # d
    BY <1>3, EndedSession DEF SendStatus, TypeInv, TypeOK
  <2>2. PICK k \in Conns : deviceId[k] = d /\ phase[k] \in Serving
    BY <1>0, <2>1
  <2> QED
    BY <1>3, <2>1, <2>2, EndedSession DEF TypeInv, TypeOK
<1>4. CASE Quiet
  BY <1>0, <1>4 DEF Quiet, SessionsGoOn
<1> QED
  BY <1>1, <1>2, <1>3, <1>4, StepKinds

(* With a reliable Kafka, no device is left "online" without a session. *)
THEOREM NeverStaleOnline == Spec => []NoStaleOnline
<1>1. Init => NoStaleOnline
  BY DEF Init, NoStaleOnline
<1>2. TypeInv /\ NoStaleOnline /\ [Next]_vars => NoStaleOnline'
  BY StepNoStaleOnline
<1> QED
  BY <1>1, <1>2, TypeInvariant, PTL DEF Spec

-----------------------------------------------------------------------------
(* What a device is sent.  The access rules come first: a topic that e may  *)
(* publish matches a pattern that d may hold only if e's id begins with d's *)
(* (acl.py, check_publish_acl and check_subscribe_acl; subscriptions.py,    *)
(* _matches).                                                               *)
THEOREM AccessRules ==
  ASSUME NEW d \in DeviceIds \ {EmptyId}, NEW e \in DeviceIds,
         NEW topic \in Seq(STRING), NEW pattern \in Seq(STRING),
         CheckPublishAcl(e, topic), CheckSubscribeAcl(d, pattern), Matches(pattern, topic)
  PROVE  <<e, d>> \in Extends
<1>1. Len(pattern) >= 2 /\ <<pattern[2], d>> \in Extends
  BY DEF CheckSubscribeAcl
<1>2. topic[2] = e
  BY DEF CheckPublishAcl
<1>3. CASE pattern = topic
  BY <1>1, <1>2, <1>3
<1>4. CASE /\ pattern[Len(pattern)] = "#"
           /\ \A i \in 1 .. Len(pattern) - 1 : pattern[i] = topic[i]
  <2>1. <<"#", d>> \notin Extends
    BY ExtendsAssumption
  <2>2. Len(pattern) # 2
    BY <1>1, <1>4, <2>1
  <2>3. 2 \in 1 .. Len(pattern) - 1
    BY <1>1, <2>2
  <2> QED
    BY <1>1, <1>2, <1>4, <2>3
<1>5. pattern # <<"#">>
  BY <1>1
<1> QED
  BY <1>3, <1>4, <1>5 DEF Matches

(* The inductive invariant.  A message is checked when it is published and  *)
(* written later, to the connection that the registry then gives: so the    *)
(* invariant has to follow the pending messages, say that the entry of a    *)
(* device leads to a connection of that device, and that a connection       *)
(* without a device, whose id is still to come, has been sent nothing.      *)

Related(sender, d) == d # sender /\ (d # EmptyId => <<sender, d>> \in Extends)

PatternsAllowed ==
  \A p \in DOMAIN subscriptions : \A d \in subscriptions[p] : CheckSubscribeAcl(d, p)

PendingRelated ==
  \A c \in Conns : \A m \in pending[c] : phase[c] = "forward" /\ Related(deviceId[c], m[1])

Unnamed ==
  \A c \in Conns :
    /\ phase[c] \in {"idle", "handshake", "auth"} => deviceId[c] = NoDevice
    /\ deviceId[c] = NoDevice => written[c] = {}
    /\ sock[c] = "none" <=> phase[c] = "idle"

EntryNamed ==
  \A d \in DeviceIds :
    connections[d] # NoConn =>
      \/ deviceId[connections[d]] = d
      \/ d = EmptyId /\ phase[connections[d]] = "idle"

ForwardInv == PatternsAllowed /\ PendingRelated /\ Unnamed /\ EntryNamed /\ ForwardRelated

(* A message written to the registered connection of a device it may go to. *)
LEMMA WriteRelated ==
  ASSUME TypeInv, Unnamed, EntryNamed, ForwardRelated,
         NEW d \in DeviceIds, connections[d] # NoConn,
         NEW sender \in DeviceIds \cup {NoDevice}, NEW topic,
         sender = NoDevice \/ Related(sender, d),
         Write(connections[d], <<sender, topic>>), UNCHANGED <<deviceId, sock>>,
         \A c \in Conns : phase'[c] = phase[c] \/ {phase[c], phase'[c]} \subseteq Serving
  PROVE  Unnamed' /\ ForwardRelated'
<1> DEFINE k == connections[d]
<1>1. k \in Conns /\ NoDevice \notin DeviceIds
  BY BrokerAssumption DEF TypeInv, TypeOK
<1>2. CASE UNCHANGED written
  BY <1>2 DEF Unnamed, ForwardRelated, Serving
<1>3. CASE /\ sock[k] \in {"open", "closing"}
           /\ written' = [written EXCEPT ![k] = @ \cup {<<sender, topic>>}]
  <2>1. deviceId[k] = d
    BY <1>1, <1>3 DEF EntryNamed, Unnamed
  <2>2. /\ written'[k] = written[k] \cup {<<sender, topic>>}
        /\ \A c \in Conns \ {k} : written'[c] = written[c]
    BY <1>1, <1>3 DEF TypeInv, TypeOK
  <2>3. Unnamed'
    BY <1>1, <2>1, <2>2 DEF Unnamed, Serving
  <2>4. ForwardRelated'
    BY <1>1, <2>1, <2>2 DEF ForwardRelated, Related
  <2> QED
    BY <2>3, <2>4
<1> QED
  BY <1>2, <1>3 DEF Write

(* A stretch of handle_publish, from a set of messages that are all related *)
(* to the sender.                                                           *)
LEMMA ForwardKeeps ==
  ASSUME TypeInv, ForwardInv, NEW c \in Conns, phase[c] \in Serving,
         NEW todo \in SUBSET (DeviceIds \X TopicNames),
         \A m \in todo : Related(deviceId[c], m[1]),
         Forward(c, todo), UNCHANGED <<sock, deviceId, connections, subscriptions>>
  PROVE  ForwardInv'
<1>1. deviceId[c] \in DeviceIds
  BY DEF TypeInv, Named
<1>2. PatternsAllowed'
  BY DEF ForwardInv, PatternsAllowed
<1>3. ASSUME NEW next \in todo, connections[next[1]] # NoConn,
             NEW passed, pending' = [pending EXCEPT ![c] = todo \ (passed \cup {next})],
             Write(connections[next[1]], <<deviceId[c], next[2]>>), GoTo(c, "forward")
      PROVE  ForwardInv'
  <2>1. \A k \in Conns : phase'[k] = phase[k] \/ {phase[k], phase'[k]} \subseteq Serving
    BY <1>3 DEF GoTo, TypeInv, TypeOK, Serving
  <2>2. next[1] \in DeviceIds /\ Related(deviceId[c], next[1])
    OBVIOUS
  <2>3. Unnamed' /\ ForwardRelated'
    BY <1>1, <1>3, <2>1, <2>2, WriteRelated DEF ForwardInv
  <2>4. PendingRelated'
    BY <1>3 DEF ForwardInv, PendingRelated, GoTo, TypeInv, TypeOK
  <2>5. EntryNamed'
    BY <2>1 DEF ForwardInv, EntryNamed, TypeInv, TypeOK, Serving
  <2> QED
    BY <1>2, <2>3, <2>4, <2>5 DEF ForwardInv
<1>4. CASE /\ pending' = [pending EXCEPT ![c] = {}]
           /\ GoTo(c, "kafka")
           /\ UNCHANGED written
  BY <1>2, <1>4 DEF ForwardInv, PendingRelated, Unnamed, EntryNamed, ForwardRelated,
       GoTo, TypeInv, TypeOK, Serving
<1> QED
  BY <1>3, <1>4 DEF Forward

LEMMA StepForwardInv ==
  ASSUME TypeInv, RegistryLive, Subs!IndexAgree, ForwardInv, [Next]_vars
  PROVE  ForwardInv'
<1>a. NoDevice \notin DeviceIds /\ NoConn \notin Conns
  BY BrokerAssumption
<1> USE DEF GoTo, Serving, Phases
<1>1. ASSUME NEW c \in Conns, Accept(c) PROVE ForwardInv'
  BY <1>1, <1>a DEF Accept, ForwardInv, PatternsAllowed, PendingRelated, Unnamed, EntryNamed,
       ForwardRelated, TypeInv, TypeOK, subVars
<1>2. ASSUME NEW c \in Conns, NEW d \in DeviceIds, Connect(c, d) PROVE ForwardInv'
  BY <1>2, <1>a DEF Connect, ForwardInv, PatternsAllowed, PendingRelated, Unnamed, EntryNamed,
       ForwardRelated, TypeInv, TypeOK, subVars
<1>3. ASSUME NEW c \in Conns, HandshakeAborted(c) \/ AuthRejected(c) PROVE ForwardInv'
  BY <1>3, <1>a DEF HandshakeAborted, AuthRejected, CloseOnly, Close, ForwardInv,
       PatternsAllowed, PendingRelated, Unnamed, EntryNamed, ForwardRelated, TypeInv, TypeOK,
       subVars
<1>4. ASSUME NEW c \in Conns, AuthAcceptedLost(c) PROVE ForwardInv'
  BY <1>4, <1>a DEF AuthAcceptedLost, ForwardInv, PatternsAllowed, PendingRelated, Unnamed,
       EntryNamed, ForwardRelated, TypeInv, TypeOK, Named, subVars
<1>5. ASSUME NEW c \in Conns, AuthAccepted(c) PROVE ForwardInv'
  <2>1. PatternsAllowed'
    BY <1>5, AcceptedSession, Removed DEF ForwardInv, PatternsAllowed, subVars
  <2>2. PendingRelated'
    BY <1>5, AcceptedSession DEF AuthAccepted, ForwardInv, PendingRelated, TypeInv, TypeOK
  <2>3. Unnamed'
    BY <1>5, <1>a, AcceptedSession DEF AuthAccepted, Register, Close, ForwardInv, Unnamed,
         TypeInv, TypeOK
  <2>4. EntryNamed'
    BY <1>5, <1>a, AcceptedSession DEF ForwardInv, EntryNamed, Unnamed, TypeInv, TypeOK
  <2>5. ForwardRelated'
    BY <1>5, <1>a, AcceptedSession DEF AuthAccepted, ForwardInv, Unnamed, ForwardRelated,
         TypeInv, TypeOK
  <2> QED
    BY <2>1, <2>2, <2>3, <2>4, <2>5 DEF ForwardInv
<1>6. ASSUME NEW c \in Conns,
             OnlineSent(c) \/ PublishSent(c) \/ ReplyDone(c) \/ Ping(c) \/ Ignore(c)
      PROVE  ForwardInv'
  BY <1>6 DEF OnlineSent, PublishSent, ReplyDone, Ping, Reply, Ignore, ReadFrame, ForwardInv,
       PatternsAllowed, PendingRelated, Unnamed, EntryNamed, ForwardRelated, TypeInv, TypeOK,
       subVars
<1>7. ASSUME NEW c \in Conns, NEW topic \in TopicNames, Publish(c, topic)
      PROVE  ForwardInv'
  <2> DEFINE todo == {<<s, topic>> : s \in Subs!GetSubscribers(topic) \ {deviceId[c]}}
  <2>1. todo \in SUBSET (DeviceIds \X TopicNames)
    BY SubscribersType
  <2>2. /\ Forward(c, todo) /\ phase[c] \in Serving /\ CheckPublishAcl(deviceId[c], topic)
        /\ UNCHANGED <<sock, deviceId, connections, subscriptions>>
    BY <1>7 DEF Publish, ReadFrame, subVars
  <2>3. ASSUME NEW s \in Subs!GetSubscribers(topic), s # deviceId[c]
        PROVE  Related(deviceId[c], s)
    <3>1. PICK p \in DOMAIN subscriptions : s \in subscriptions[p] /\ Matches(p, topic)
      <4>1. PICK q \in DOMAIN subscriptions : s \in subscriptions[q] /\ Subs!Matches(q, topic)
        BY DEF Subs!GetSubscribers
      <4>2. Subs!Matches(q, topic) <=> Matches(q, topic)
        BY DEF Subs!Matches, Matches
      <4> QED
        BY <4>1, <4>2
    <3>2. p \in TopicPatterns /\ s \in DeviceIds
      BY <3>1 DEF TypeInv, TypeOK, Subs!TypeOK
    <3>3. CheckSubscribeAcl(s, p)
      BY <3>1 DEF ForwardInv, PatternsAllowed
    <3>4. p \in Seq(STRING) /\ topic \in Seq(STRING)
      BY <3>2, BrokerAssumption
    <3>5. deviceId[c] \in DeviceIds
      BY <2>2 DEF TypeInv, Named
    <3> QED
      BY <2>2, <2>3, <3>1, <3>2, <3>3, <3>4, <3>5, AccessRules DEF Related
  <2>4. \A m \in todo : Related(deviceId[c], m[1])
    BY <2>3
  <2> HIDE DEF todo
  <2> QED
    BY <2>1, <2>2, <2>4, ForwardKeeps
<1>8. ASSUME NEW c \in Conns, ForwardResume(c) PROVE ForwardInv'
  <2>1. pending[c] \in SUBSET (DeviceIds \X TopicNames)
    BY DEF TypeInv, TypeOK
  <2>2. \A m \in pending[c] : Related(deviceId[c], m[1])
    BY DEF ForwardInv, PendingRelated
  <2> QED
    BY <1>8, <2>1, <2>2, ForwardKeeps DEF ForwardResume, subVars
<1>9. ASSUME NEW c \in Conns, NEW p \in TopicPatterns, Subscribe(c, p)
      PROVE  ForwardInv'
  <2>1. PatternsAllowed'
    BY <1>9 DEF Subscribe, Subs!Subscribe, Subs!Added, Subs!At, ForwardInv, PatternsAllowed,
         subVars
  <2> QED
    BY <1>9, <2>1 DEF Subscribe, Reply, ReadFrame, ForwardInv, PendingRelated, Unnamed,
         EntryNamed, ForwardRelated, TypeInv, TypeOK
<1>10. ASSUME NEW c \in Conns, NEW p \in TopicPatterns, Unsubscribe(c, p)
       PROVE  ForwardInv'
  <2>1. PatternsAllowed'
    BY <1>10 DEF Unsubscribe, Subs!Unsubscribe, Subs!Discarded, ForwardInv, PatternsAllowed
  <2> QED
    BY <1>10, <2>1 DEF Unsubscribe, Reply, ReadFrame, ForwardInv, PendingRelated, Unnamed,
         EntryNamed, ForwardRelated, TypeInv, TypeOK
<1>11. ASSUME NEW c \in Conns, LeaveLoop(c) \/ ReplyFailed(c) \/ ConnackFailed(c)
       PROVE  ForwardInv'
  <2>1. /\ phase[c] \in {"loop", "reply", "failed"} /\ End(c)
        /\ phase[c] \in Serving \cup {"failed"}
    BY <1>11 DEF LeaveLoop, ReplyFailed, ConnackFailed
  <2>2. PatternsAllowed'
    BY <2>1, EndedSession, Removed DEF ForwardInv, PatternsAllowed, subVars
  <2>3. \A k \in Conns : sock'[k] = "none" <=> sock[k] = "none"
    BY <2>1 DEF End, Cleanup, CloseOnly, Close, TypeInv, TypeOK
  <2>4. PendingRelated' /\ Unnamed' /\ ForwardRelated'
    BY <2>1, <2>3, EndType DEF ForwardInv, PendingRelated, Unnamed, ForwardRelated, TypeInv,
         TypeOK
  <2>5. EntryNamed'
    BY <2>1, EndedSession DEF ForwardInv, EntryNamed, TypeInv, TypeOK
  <2> QED
    BY <2>2, <2>4, <2>5 DEF ForwardInv
<1>12. ASSUME NEW c \in Conns, OfflineSent(c) \/ ConnectionLost(c) PROVE ForwardInv'
  BY <1>12 DEF OfflineSent, ConnectionLost, Close, ForwardInv, PatternsAllowed,
       PendingRelated, Unnamed, EntryNamed, ForwardRelated, TypeInv, TypeOK, subVars
<1>13. ASSUME NEW c \in Conns, Closed(c) PROVE ForwardInv'
  <2>1. \A d \in DeviceIds : connections[d] = c => d = EmptyId
    BY <1>13, <1>a DEF Closed, RegistryLive
  <2>2. EntryNamed'
    BY <1>13, <2>1 DEF Closed, ForwardInv, EntryNamed, TypeInv, TypeOK
  <2> QED
    BY <1>13, <1>a, <2>2 DEF Closed, ForwardInv, PatternsAllowed, PendingRelated, Unnamed,
         ForwardRelated, TypeInv, TypeOK, subVars
<1>14. ASSUME NEW d \in DeviceIds, NEW topic \in CommandTopics, RouteCommand(d, topic)
       PROVE  ForwardInv'
  <2>1. Unnamed' /\ ForwardRelated'
    BY <1>14, WriteRelated DEF RouteCommand, ForwardInv
  <2> QED
    BY <1>14, <2>1 DEF RouteCommand, ForwardInv, PatternsAllowed, PendingRelated, EntryNamed,
         subVars
<1>15. CASE UNCHANGED vars
  BY <1>15 DEF vars, connVars, subVars, ForwardInv, PatternsAllowed, PendingRelated, Unnamed,
       EntryNamed, ForwardRelated
<1> QED
  BY <1>1, <1>2, <1>3, <1>4, <1>5, <1>6, <1>7, <1>8, <1>9, <1>10, <1>11, <1>12, <1>13,
     <1>14, <1>15 DEF Next, ServerStep, DeviceStep

LEMMA ForwardInvariant == Spec => []ForwardInv
<1>1. Init => ForwardInv
  BY DEF Init, Subs!Init, Subs!NoDict, ForwardInv, PatternsAllowed, PendingRelated, Unnamed,
     EntryNamed, ForwardRelated
<1>2. TypeInv /\ RegistryLive /\ Subs!IndexAgree /\ ForwardInv /\ [Next]_vars => ForwardInv'
  BY StepForwardInv
<1> QED
  BY <1>1, <1>2, TypeInvariant, RegistryAlwaysLive, SubscriptionsAgree, PTL DEF Spec

(* A device is sent messages of devices whose id begins with its own only,  *)
(* and never its own.                                                       *)
THEOREM ForwardingRelated == Spec => []ForwardRelated
BY ForwardInvariant, PTL DEF ForwardInv

-----------------------------------------------------------------------------
(* Who writes: only a connection that the registry names is written to.     *)
LEMMA WrittenRegistered ==
  ASSUME TypeInv, [Next]_vars, NEW k \in Conns, ~ written'[k] \subseteq written[k]
  PROVE  \E d \in DeviceIds : connections[d] = k /\ sock[k] # "none"
<1>1. ASSUME NEW c \in Conns, NEW todo \in SUBSET (DeviceIds \X TopicNames), Forward(c, todo)
      PROVE  \E d \in DeviceIds : connections[d] = k /\ sock[k] # "none"
  <2>1. PICK next \in todo : Write(connections[next[1]], <<deviceId[c], next[2]>>)
    BY <1>1 DEF Forward
  <2> QED
    BY <2>1 DEF Write, TypeInv, TypeOK
<1>2. ASSUME NEW c \in Conns,
             ForwardResume(c) \/ \E topic \in TopicNames : Publish(c, topic)
      PROVE  \E d \in DeviceIds : connections[d] = k /\ sock[k] # "none"
  <2>1. CASE ForwardResume(c)
    BY <1>1, <2>1 DEF ForwardResume, TypeInv, TypeOK
  <2>2. ASSUME NEW topic \in TopicNames, Publish(c, topic)
        PROVE  \E d \in DeviceIds : connections[d] = k /\ sock[k] # "none"
    BY <1>1, <2>2, SubscribersType DEF Publish
  <2> QED
    BY <1>2, <2>1, <2>2
<1>3. ASSUME NEW d \in DeviceIds, NEW topic, RouteCommand(d, topic)
      PROVE  \E e \in DeviceIds : connections[e] = k /\ sock[k] # "none"
  BY <1>3 DEF RouteCommand, Write, TypeInv, TypeOK
<1>4. ASSUME NEW c \in Conns,
             \/ Accept(c) \/ HandshakeAborted(c) \/ AuthRejected(c) \/ AuthAcceptedLost(c)
             \/ AuthAccepted(c) \/ OnlineSent(c) \/ PublishSent(c) \/ ReplyDone(c)
             \/ Ping(c) \/ Ignore(c) \/ LeaveLoop(c) \/ ReplyFailed(c) \/ ConnackFailed(c)
             \/ OfflineSent(c) \/ ConnectionLost(c) \/ Closed(c)
             \/ \E d \in DeviceIds : Connect(c, d)
             \/ \E p \in TopicPatterns : Subscribe(c, p) \/ Unsubscribe(c, p)
      PROVE  FALSE
  BY <1>4 DEF Accept, HandshakeAborted, AuthRejected, AuthAcceptedLost, AuthAccepted,
       OnlineSent, PublishSent, ReplyDone, Ping, Reply, Ignore, LeaveLoop, ReplyFailed,
       ConnackFailed, End, OfflineSent, ConnectionLost, Closed, Connect, Subscribe,
       Unsubscribe, TypeInv, TypeOK
<1>5. CASE UNCHANGED vars
  BY <1>5 DEF vars, connVars
<1> QED
  BY <1>2, <1>3, <1>4, <1>5 DEF Next, ServerStep, DeviceStep

(* No message is put on a connection whose session has begun to end: the    *)
(* registry leads to sessions in progress, and every write goes through it. *)
THEOREM NeverWrittenAfterEnd == Spec => NoWriteAfterEnd
<1>1. ASSUME TypeInv, RegistryLive, ForwardInv, [Next]_vars,
             NEW c \in Conns, ~ written'[c] \subseteq written[c], deviceId[c] # EmptyId
      PROVE  phase[c] \in Serving
  <2>1. PICK d \in DeviceIds : connections[d] = c /\ sock[c] # "none"
    BY <1>1, WrittenRegistered
  <2>2. c # NoConn
    BY BrokerAssumption
  <2>3. d # EmptyId
    BY <1>1, <2>1, <2>2 DEF ForwardInv, EntryNamed, Unnamed
  <2> QED
    BY <1>1, <2>1, <2>2, <2>3 DEF RegistryLive
<1>2. TypeInv /\ RegistryLive /\ ForwardInv /\ [Next]_vars
        => [\A c \in Conns : /\ ~ written'[c] \subseteq written[c]
                             /\ deviceId[c] # EmptyId
                             => phase[c] \in Serving]_vars
  BY <1>1
<1> QED
  BY <1>2, TypeInvariant, RegistryAlwaysLive, ForwardInvariant, PTL DEF Spec, NoWriteAfterEnd
=============================================================================
