------------------------------- MODULE Broker -------------------------------
(***************************************************************************)
(* The TCP broker: BrokerServer (broker/server.py), one ClientConnection   *)
(* per device connection (broker/connection.py), the handlers of the       *)
(* frames it reads (broker/handlers.py), the subscription manager they     *)
(* share, and the delivery of backend commands (route_command_to_device of *)
(* main.py).                                                               *)
(*                                                                         *)
(* Everything runs on one asyncio event loop: a connection's coroutine is  *)
(* atomic from one suspension to the next and anything may happen while it *)
(* is suspended.  An action is such a stretch, and phase[c] says where     *)
(* connection c is suspended:                                              *)
(*   "idle"       no coroutine: the slot is free                           *)
(*   "handshake"  read_frame, for CONNECT                                  *)
(*   "auth"       verify_device_token                                      *)
(*   "failed"     the CONNACK's drain, of a connection found lost          *)
(*   "online"     send_status(device_id, "online")                         *)
(*   "loop"       read_frame, in the dispatch loop                         *)
(*   "reply"      the drain of a SUBACK, UNSUBACK or PINGRESP              *)
(*   "forward"    the drain of a subscriber's writer, in handle_publish    *)
(*   "kafka"      send_message, in handle_publish                          *)
(*   "offline"    send_status(device_id, "offline"), in _cleanup           *)
(*   "closing"    writer.wait_closed(), in _cleanup                        *)
(***************************************************************************)
EXTENDS TopicRules

CONSTANTS
  Conns,          \* connection slots; a slot is used again once it is free
  NoConn,         \* no connection
  NoDevice,       \* no device: device_id is None
  TopicNames,     \* the topics of the messages that devices publish
  CommandTopics,  \* the topics of the commands that the backend sends
  TopicPatterns,  \* the patterns of the subscriptions
  MaxFrames,      \* bound: the frames a session's dispatch loop reads
  KafkaReliable   \* whether every status event reaches Kafka

ASSUME BrokerAssumption ==
  /\ NoConn \notin Conns
  /\ NoDevice \notin DeviceIds
  /\ TopicNames \subseteq Seq(STRING)
  /\ TopicPatterns \subseteq Seq(STRING)
  /\ MaxFrames \in Nat
  /\ KafkaReliable \in BOOLEAN

VARIABLES
  phase,          \* connection -> where its coroutine is suspended
  sock,           \* connection -> state of its transport: "none", "open",
                  \* "closing" (close() called) or "lost" (connection_lost)
  claimed,        \* connection -> the device id its CONNECT names
  deviceId,       \* connection -> ClientConnection.device_id
  connections,    \* device id -> its connection: BrokerServer._connections
  subscriptions,  \* the two dictionaries of the subscription manager
  clientSubs,
  pending,        \* connection -> the <<subscriber, topic>> that the
                  \* handle_publish it runs has yet to forward
  written,        \* connection -> the <<sender, topic>> of the PUBLISH frames
                  \* put on it; the sender of a backend command is NoDevice
  status,         \* device id -> the last event in iot.device-events
  frames          \* connection -> the frames its dispatch loop has read

Subs == INSTANCE Subscriptions

connVars == <<phase, sock, claimed, deviceId, pending, written, frames>>
subVars  == <<subscriptions, clientSubs>>
vars     == <<connVars, connections, subVars, status>>

Phases == {"idle", "handshake", "auth", "failed", "online", "loop", "reply",
           "forward", "kafka", "offline", "closing"}

\* The session of an authenticated connection, from its registration to the
\* start of its cleanup.
Serving == {"online", "loop", "reply", "forward", "kafka"}

Init ==
  /\ phase = [c \in Conns |-> "idle"]
  /\ sock = [c \in Conns |-> "none"]
  /\ claimed = [c \in Conns |-> NoDevice]
  /\ deviceId = [c \in Conns |-> NoDevice]
  /\ connections = [d \in DeviceIds |-> NoConn]
  /\ Subs!Init
  /\ pending = [c \in Conns |-> {}]
  /\ written = [c \in Conns |-> {}]
  /\ status = [d \in DeviceIds |-> "none"]
  /\ frames = [c \in Conns |-> 0]

-----------------------------------------------------------------------------
\* send_status: the event is in the log, in order, when the coroutine first
\* suspends, or Kafka refuses it, which the producer logs and forgets.
SendStatus(d, event) ==
  \/ status' = [status EXCEPT ![d] = event]
  \/ ~KafkaReliable /\ UNCHANGED status

\* writer.close() on each of the connections.
Close(cs) ==
  sock' = [c \in Conns |-> IF c \in cs /\ sock[c] = "open" THEN "closing" ELSE sock[c]]

\* writer.write(PUBLISH): a transport that is closing sends the frame only if
\* it still has others to send, and one that is lost drops it.
Write(c, message) ==
  \/ /\ sock[c] \in {"open", "closing"}
     /\ written' = [written EXCEPT ![c] = @ \cup {message}]
  \/ sock[c] # "open" /\ UNCHANGED written

GoTo(c, place) == phase' = [phase EXCEPT ![c] = place]

-----------------------------------------------------------------------------
(* The handshake: ClientConnection.run up to the dispatch loop. *)

\* A device connects: asyncio calls _handle_client.
Accept(c) ==
  /\ phase[c] = "idle"
  /\ \A d \in DeviceIds : connections[d] # c
  /\ GoTo(c, "handshake")
  /\ sock' = [sock EXCEPT ![c] = "open"]
  /\ UNCHANGED <<claimed, deviceId, pending, written, frames, connections,
                 subVars, status>>

\* A valid CONNECT arrives within the 10 seconds it has.
Connect(c, d) ==
  /\ phase[c] = "handshake"
  /\ GoTo(c, "auth")
  /\ claimed' = [claimed EXCEPT ![c] = d]
  /\ UNCHANGED <<sock, deviceId, pending, written, frames, connections, subVars,
                 status>>

\* The end of _cleanup for a connection without a device id: it says nothing to
\* the rest of the broker and closes its own writer.
CloseOnly(c) ==
  /\ GoTo(c, "closing")
  /\ Close({c})
  /\ UNCHANGED <<connections, subVars, status>>

\* Fault: no time limit on the first frame, only the end of the stream.
HandshakeUntilLost(c) ==
  /\ phase[c] = "handshake"
  /\ sock[c] # "open"
  /\ CloseOnly(c)
  /\ UNCHANGED <<claimed, deviceId, pending, written, frames>>

\* The first frame is late, malformed, not a CONNECT, a CONNECT with an invalid
\* payload, or never comes.
HandshakeAborted(c) ==
  /\ phase[c] = "handshake"
  /\ CloseOnly(c)
  /\ UNCHANGED <<claimed, deviceId, pending, written, frames>>

\* The backend refuses the device, fails, or AUTH_TIMEOUT passes.
AuthRejected(c) ==
  /\ phase[c] = "auth"
  /\ CloseOnly(c)
  /\ claimed' = [claimed EXCEPT ![c] = NoDevice]
  /\ UNCHANGED <<deviceId, pending, written, frames>>

\* Fault: the registry keeps the device id in place of the connection.
RegisterId(c, d) ==
  /\ IF connections[d] = NoConn
     THEN UNCHANGED <<sock, subVars>>
     ELSE Close({connections[d]}) /\ Subs!RemoveClient(d)
  /\ connections' = [connections EXCEPT ![d] = d]

\* Fault: the old connection's patterns are dropped from the client index alone.
RegisterHalf(c, d) ==
  /\ IF connections[d] = NoConn
     THEN UNCHANGED <<sock, subVars>>
     ELSE /\ Close({connections[d]})
          /\ clientSubs' = [k \in DOMAIN clientSubs \ {d} |-> clientSubs[k]]
          /\ UNCHANGED subscriptions
  /\ connections' = [connections EXCEPT ![d] = c]

\* register_connection: the connection that has the device's entry is closed,
\* its subscriptions are dropped and the entry is taken over.
Register(c, d) ==
  /\ IF connections[d] = NoConn
     THEN UNCHANGED <<sock, subVars>>
     ELSE Close({connections[d]}) /\ Subs!RemoveClient(d)
  /\ connections' = [connections EXCEPT ![d] = c]

\* The backend accepts the device: CONNACK, registration and the online event.
\* The CONNACK's drain does not suspend, as nothing was written before it.
AuthAccepted(c) ==
  /\ phase[c] = "auth"
  /\ sock[c] = "open"
  /\ deviceId' = [deviceId EXCEPT ![c] = claimed[c]]
  /\ claimed' = [claimed EXCEPT ![c] = NoDevice]
  /\ Register(c, claimed[c])
  /\ SendStatus(claimed[c], "online")
  /\ GoTo(c, "online")
  /\ UNCHANGED <<pending, written, frames>>

\* The same on a connection that was lost in the meantime: device_id is set, and
\* the CONNACK's drain suspends and then raises, before the registration.
AuthAcceptedLost(c) ==
  /\ phase[c] = "auth"
  /\ sock[c] = "lost"
  /\ deviceId' = [deviceId EXCEPT ![c] = claimed[c]]
  /\ claimed' = [claimed EXCEPT ![c] = NoDevice]
  /\ GoTo(c, "failed")
  /\ UNCHANGED <<sock, pending, written, frames, connections, subVars, status>>

OnlineSent(c) ==
  /\ phase[c] = "online"
  /\ GoTo(c, "loop")
  /\ UNCHANGED <<sock, claimed, deviceId, pending, written, frames, connections,
                 subVars, status>>

-----------------------------------------------------------------------------
(* The dispatch loop.  Every frame but DISCONNECT has a handler; a frame that *)
(* was received before its connection was closed is still handled.            *)

ReadFrame(c) ==
  /\ phase[c] = "loop"
  /\ frames[c] < MaxFrames
  /\ frames' = [frames EXCEPT ![c] = @ + 1]

\* handle_publish from a point where the messages in todo are left to forward:
\* the registry is read anew for each, a subscriber that is not in it is passed
\* over, and the drain of one that is suspends.  The rest goes to Kafka.
Forward(c, todo) ==
  \/ \E next \in todo :
       /\ connections[next[1]] # NoConn
       /\ \E passed \in SUBSET {m \in todo : connections[m[1]] = NoConn} :
            pending' = [pending EXCEPT ![c] = todo \ (passed \cup {next})]
       /\ Write(connections[next[1]], <<deviceId[c], next[2]>>)
       /\ GoTo(c, "forward")
  \/ /\ \A m \in todo : connections[m[1]] = NoConn
     /\ pending' = [pending EXCEPT ![c] = {}]
     /\ GoTo(c, "kafka")
     /\ UNCHANGED written

\* PUBLISH: the subscribers are asked for once, and the sender is not among
\* those the message is forwarded to.
Publish(c, topic) ==
  /\ ReadFrame(c)
  /\ CheckPublishAcl(deviceId[c], topic)
  /\ Forward(c, {<<s, topic>> : s \in Subs!GetSubscribers(topic) \ {deviceId[c]}})
  /\ UNCHANGED <<sock, claimed, deviceId, connections, subVars, status>>

\* A PUBLISH that the access rule denies, a frame with an invalid payload and a
\* frame of another type leave no trace.
Ignore(c) ==
  /\ ReadFrame(c)
  /\ UNCHANGED <<phase, sock, claimed, deviceId, pending, written, connections,
                 subVars, status>>

\* The subscriber's writer has drained, or was lost, which is logged.
ForwardResume(c) ==
  /\ phase[c] = "forward"
  /\ Forward(c, pending[c])
  /\ UNCHANGED <<sock, claimed, deviceId, frames, connections, subVars, status>>

PublishSent(c) ==
  /\ phase[c] = "kafka"
  /\ GoTo(c, "loop")
  /\ UNCHANGED <<sock, claimed, deviceId, pending, written, frames, connections,
                 subVars, status>>

Reply(c) ==
  /\ GoTo(c, "reply")
  /\ UNCHANGED <<sock, claimed, deviceId, pending, written, connections, status>>

\* SUBSCRIBE: an accepted pattern is recorded under the device id.
Subscribe(c, pattern) ==
  /\ ReadFrame(c)
  /\ IF CheckSubscribeAcl(deviceId[c], pattern)
     THEN Subs!Subscribe(deviceId[c], pattern)
     ELSE UNCHANGED subVars
  /\ Reply(c)

Unsubscribe(c, pattern) ==
  /\ ReadFrame(c)
  /\ Subs!Unsubscribe(deviceId[c], pattern)
  /\ Reply(c)

Ping(c) ==
  /\ ReadFrame(c)
  /\ UNCHANGED subVars
  /\ Reply(c)

\* The reply's drain returns, unless the connection is lost.
ReplyDone(c) ==
  /\ phase[c] = "reply"
  /\ sock[c] # "lost"
  /\ GoTo(c, "loop")
  /\ UNCHANGED <<sock, claimed, deviceId, pending, written, frames, connections,
                 subVars, status>>

-----------------------------------------------------------------------------
(* The end of a connection. *)

\* Fault: the registry entry is left to the next registration.
CleanupKeepEntry(c) ==
  IF deviceId[c] = EmptyId
  THEN CloseOnly(c)
  ELSE /\ Subs!RemoveClient(deviceId[c])
       /\ SendStatus(deviceId[c], "offline")
       /\ GoTo(c, "offline")
       /\ UNCHANGED <<sock, connections>>

\* Fault: a connection that is no longer the device's leaves everything alone,
\* the subscriptions it added after it was replaced included.
CleanupOwnOnly(c) ==
  IF deviceId[c] = EmptyId \/ connections[deviceId[c]] # c
  THEN CloseOnly(c)
  ELSE /\ Subs!RemoveClient(deviceId[c])
       /\ connections' = [connections EXCEPT ![deviceId[c]] = NoConn]
       /\ SendStatus(deviceId[c], "offline")
       /\ GoTo(c, "offline")
       /\ UNCHANGED sock

\* Fault: only a connection that was replaced is reported offline.
CleanupSilent(c) ==
  IF deviceId[c] = EmptyId
  THEN CloseOnly(c)
  ELSE /\ Subs!RemoveClient(deviceId[c])
       /\ connections' = [connections EXCEPT ![deviceId[c]] = NoConn]
       /\ IF connections[deviceId[c]] = c THEN UNCHANGED status
          ELSE SendStatus(deviceId[c], "offline")
       /\ GoTo(c, "offline")
       /\ UNCHANGED sock

\* _cleanup up to its first suspension: it goes by the device id, and a device
\* id that is "" counts as none.
Cleanup(c) ==
  IF deviceId[c] = EmptyId
  THEN CloseOnly(c)
  ELSE /\ Subs!RemoveClient(deviceId[c])
       /\ connections' = [connections EXCEPT ![deviceId[c]] = NoConn]
       /\ SendStatus(deviceId[c], "offline")
       /\ GoTo(c, "offline")
       /\ UNCHANGED sock

End(c) == Cleanup(c) /\ UNCHANGED <<claimed, deviceId, pending, written, frames>>

\* DISCONNECT, 120 seconds without a frame, end of stream or a malformed frame.
LeaveLoop(c) == phase[c] = "loop" /\ End(c)

\* A drain that raises: the CONNACK's or a reply's.
ReplyFailed(c) == phase[c] = "reply" /\ sock[c] = "lost" /\ End(c)
ConnackFailed(c) == phase[c] = "failed" /\ End(c)

\* Fault: the writer is not closed after the offline event.
OfflineSentOpen(c) ==
  /\ phase[c] = "offline"
  /\ GoTo(c, "closing")
  /\ UNCHANGED <<sock, claimed, deviceId, pending, written, frames, connections,
                 subVars, status>>

OfflineSent(c) ==
  /\ phase[c] = "offline"
  /\ GoTo(c, "closing")
  /\ Close({c})
  /\ UNCHANGED <<claimed, deviceId, pending, written, frames, connections, subVars,
                 status>>

\* The peer goes away, or a transport that was closed is done.
ConnectionLost(c) ==
  /\ sock[c] \in {"open", "closing"}
  /\ sock' = [sock EXCEPT ![c] = "lost"]
  /\ UNCHANGED <<phase, claimed, deviceId, pending, written, frames, connections,
                 subVars, status>>

\* wait_closed returns and run() ends; the slot forgets the connection.
Closed(c) ==
  /\ phase[c] = "closing"
  /\ sock[c] = "lost"
  /\ GoTo(c, "idle")
  /\ sock' = [sock EXCEPT ![c] = "none"]
  /\ deviceId' = [deviceId EXCEPT ![c] = NoDevice]
  /\ written' = [written EXCEPT ![c] = {}]
  /\ frames' = [frames EXCEPT ![c] = 0]
  /\ UNCHANGED <<claimed, pending, connections, subVars, status>>

-----------------------------------------------------------------------------
\* route_command_to_device: the connection that has the device's entry gets the
\* command; without one the command is dropped.
RouteCommand(d, topic) ==
  /\ d # EmptyId
  /\ connections[d] # NoConn
  /\ Write(connections[d], <<NoDevice, topic>>)
  /\ UNCHANGED <<phase, sock, claimed, deviceId, pending, frames, connections,
                 subVars, status>>

\* What the broker does of its own accord: every suspension but read_frame ends,
\* and so does read_frame at the end of its time or of the stream.
ServerStep(c) ==
  \/ HandshakeAborted(c) \/ AuthRejected(c) \/ AuthAccepted(c) \/ AuthAcceptedLost(c)
  \/ OnlineSent(c) \/ ForwardResume(c) \/ PublishSent(c) \/ ReplyDone(c)
  \/ ReplyFailed(c) \/ ConnackFailed(c) \/ (sock[c] # "open" /\ LeaveLoop(c))
  \/ OfflineSent(c) \/ Closed(c)

\* What a device does.
DeviceStep(c) ==
  \/ Accept(c)
  \/ \E d \in DeviceIds : Connect(c, d)
  \/ \E topic \in TopicNames : Publish(c, topic)
  \/ \E pattern \in TopicPatterns : Subscribe(c, pattern) \/ Unsubscribe(c, pattern)
  \/ Ping(c) \/ Ignore(c) \/ LeaveLoop(c) \/ ConnectionLost(c)

Next ==
  \/ \E c \in Conns : ServerStep(c) \/ DeviceStep(c)
  \/ \E d \in DeviceIds, topic \in CommandTopics : RouteCommand(d, topic)

Spec == Init /\ [][Next]_vars

\* Fairness.  Kafka, the backend and the event loop answer within their time
\* limits and every read has one, so a connection that can make a step of its
\* own makes it; a closed transport is lost in the end.  Drains have no limit: here
\* a peer is taken to read what it was sent, or its connection to fail, which
\* leaves out exactly the waits that SendBuffers shows to last (Stuck).
Fairness ==
  \A c \in Conns :
    /\ WF_vars(ServerStep(c))
    /\ WF_vars(sock[c] = "closing" /\ ConnectionLost(c))

FairSpec == Spec /\ Fairness

-----------------------------------------------------------------------------
(* Each variable is over the constants it indexes and holds. *)
TypeOK ==
  /\ phase \in [Conns -> Phases]
  /\ sock \in [Conns -> {"none", "open", "closing", "lost"}]
  /\ claimed \in [Conns -> DeviceIds \cup {NoDevice}]
  /\ deviceId \in [Conns -> DeviceIds \cup {NoDevice}]
  /\ connections \in [DeviceIds -> Conns \cup {NoConn}]
  /\ Subs!TypeOK
  /\ pending \in [Conns -> SUBSET (DeviceIds \X TopicNames)]
  /\ written \in [Conns -> SUBSET ((DeviceIds \cup {NoDevice}) \X (TopicNames \cup CommandTopics))]
  /\ status \in [DeviceIds -> {"none", "online", "offline"}]
  /\ frames \in [Conns -> 0 .. MaxFrames]

(* The registry never leads to a connection that is not in the midst of a  *)
(* session of that very device, whatever the order in which connections of *)
(* one device register and clean up (connection.py run and _cleanup,       *)
(* server.py register_connection).  The id "" is apart: _cleanup takes it  *)
(* for none.                                                               *)
RegistryLive ==
  \A d \in DeviceIds \ {EmptyId} :
    connections[d] # NoConn => /\ deviceId[connections[d]] = d
                               /\ phase[connections[d]] \in Serving

(* A device that holds a subscription has a session: no subscription is    *)
(* left behind by the last connection of a device, though a connection may *)
(* subscribe after it was replaced or dropped from the registry.           *)
NoOrphanSubscription ==
  \A d \in DeviceIds \ {EmptyId}, pattern \in DOMAIN subscriptions :
    d \in subscriptions[pattern] =>
      \E c \in Conns : deviceId[c] = d /\ phase[c] \in Serving

(* How far the subscribe rule lets messages go: a device is sent those of  *)
(* other devices only whose id begins with its own (acl.py:57 compares the *)
(* prefixes without their slash, so OwnTopicsOnly fails), and never its    *)
(* own; also when connections, subscriptions and registrations change      *)
(* while handle_publish forwards a message.                                *)
ForwardRelated ==
  \A c \in Conns : deviceId[c] # EmptyId =>
    \A message \in written[c] :
      \/ message[1] = NoDevice
      \/ message[1] # deviceId[c] /\ <<message[1], deviceId[c]>> \in Extends

(* While Kafka takes every event, a device whose last event is "online"    *)
(* has a session: none stays online for ever after it is gone              *)
(* (connection.py: the online event follows registration, the offline      *)
(* event every end).                                                       *)
NoStaleOnline ==
  KafkaReliable =>
    \A d \in DeviceIds \ {EmptyId} :
      status[d] = "online" => \E c \in Conns : deviceId[c] = d /\ phase[c] \in Serving

(* No message is put on a connection whose session has begun to end, by a  *)
(* publisher that was suspended when it ended or by a command.             *)
NoWriteAfterEnd ==
  [][\A c \in Conns :
       /\ ~ written'[c] \subseteq written[c]
       /\ deviceId[c] # EmptyId
       => phase[c] \in Serving]_vars

(* The broker uses the subscription manager through its operations only.   *)
ImplementsSubscriptions == Subs!Spec

(* A connection that was closed or lost, and one whose session has ended,  *)
(* is done in the end: its writer is closed and its coroutine returns      *)
(* (connection.py: _cleanup).                                              *)
Released ==
  \A c \in Conns :
    sock[c] \in {"closing", "lost"} \/ phase[c] \in {"offline", "closing"}
      ~> phase[c] = "idle"

(* No connection stays without a session for ever: it is authenticated or  *)
(* closed.                                                                 *)
HandshakeEnds ==
  \A c \in Conns : phase[c] \in {"handshake", "auth"} ~> phase[c] \notin {"handshake", "auth"}

-----------------------------------------------------------------------------
(* What the repository says of the broker and the code does not do. *)

(* acl.py:41, "devices can only subscribe to their own prefix.  This       *)
(* prevents a device from snooping on other devices' commands";            *)
(* protocol_design.md: "Devices can only subscribe to devices/{own_id}/".  *)
(* What a device is sent would be below devices/{its id}/.                 *)
OwnTopicsOnly ==
  \A c \in Conns : \A message \in written[c] :
    deviceId[c] # EmptyId => message[2][2] = deviceId[c]

(* server.py, get_all_connections: "Get all active connections."  Every    *)
(* session with an open socket would be the registered one of its device.  *)
ActiveRegistered ==
  \A c \in Conns : phase[c] \in Serving /\ sock[c] = "open"
                     => connections[deviceId[c]] = c
=============================================================================
