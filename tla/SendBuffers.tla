----------------------------- MODULE SendBuffers -----------------------------
(***************************************************************************)
(* Backpressure between devices: what is written to a connection waits in  *)
(* its transport's buffer, and drain() suspends the coroutine that wrote   *)
(* while the buffer is above its high-water mark.  A publisher's coroutine *)
(* waits in this way for its subscribers (handle_publish), a session for   *)
(* its own device (the replies), and the one coroutine of the commands     *)
(* consumer for the device of each command (route_command_to_device).  A   *)
(* device has one thread, and one that is blocked in a write does not read.*)
(***************************************************************************)
EXTENDS Naturals, FiniteSets

CONSTANTS
  Conns,        \* the connections
  Commands,     \* the coroutine of the commands consumer
  NoConn,       \* no connection
  Subscribers,  \* connection -> those that its messages are forwarded to
  Senders,      \* the connections whose devices send frames
  Readers,      \* the connections whose devices go on reading between their writes
  High, Low,    \* the water marks of a transport's buffer, in frames
  Capacity      \* the frames of a device that wait to be read, at the most

ASSUME SendBuffersAssumption ==
  /\ Commands \notin Conns /\ NoConn \notin Conns /\ IsFiniteSet(Conns)
  /\ Subscribers \in [Conns -> SUBSET Conns]
  /\ \A c \in Conns : c \notin Subscribers[c]
  /\ Senders \subseteq Conns /\ Readers \subseteq Conns
  /\ High \in Nat /\ Low \in 0 .. High /\ Capacity \in Nat \ {0}

VARIABLES
  link,     \* connection -> "up" or "lost"
  session,  \* connection -> "serving" or "ended": whether its coroutine runs
  inbox,    \* connection -> the frames from its device that wait to be read
  out,      \* connection -> the frames in its transport's buffer
  paused,   \* connection -> whether its transport has asked writers to pause
  todo,     \* connection -> those that its message has yet to be forwarded to
  drains,   \* coroutine -> the connection it waits for in drain(), or NoConn
  blocked   \* connection -> whether its device waits in a write

vars == <<link, session, inbox, out, paused, todo, drains, blocked>>

Writers == Conns \cup {Commands}

Init ==
  /\ link = [c \in Conns |-> "up"]
  /\ session = [c \in Conns |-> "serving"]
  /\ inbox = [c \in Conns |-> 0]
  /\ out = [c \in Conns |-> 0]
  /\ paused = [c \in Conns |-> FALSE]
  /\ todo = [c \in Conns |-> {}]
  /\ drains = [w \in Writers |-> NoConn]
  /\ blocked = [c \in Conns |-> FALSE]

-----------------------------------------------------------------------------
\* Fault: a lost subscriber is an error of the publisher's session.
EndedByAny(s, ws) == ws \ {Commands}

\* The sessions that end when the drain of s raises in the coroutines ws: what
\* is raised is caught and logged, but for the reply to the session's own device.
EndedBy(s, ws) == ws \cap {s}

Raise(s, ws) ==
  session' = [c \in Conns |-> IF c \in EndedBy(s, ws) THEN "ended" ELSE session[c]]

\* Fault: the frame is written and drain() forgotten.
WriteOnly(w, s) ==
  /\ out' = [out EXCEPT ![s] = IF link[s] = "up" THEN @ + 1 ELSE @]
  /\ UNCHANGED <<paused, session, drains>>

\* writer.write(frame) and drain() of connection s by coroutine w.
WriteAndDrain(w, s) ==
  \/ /\ link[s] = "up"
     /\ out' = [out EXCEPT ![s] = @ + 1]
     /\ paused' = [paused EXCEPT ![s] = @ \/ out[s] + 1 > High]
     /\ drains' = [drains EXCEPT ![w] = IF paused'[s] THEN s ELSE NoConn]
     /\ UNCHANGED session
  \/ /\ link[s] = "lost"
     /\ Raise(s, {w})
     /\ UNCHANGED <<out, paused, drains>>

\* A coroutine that waits for the next frame or has one to forward on.
Runs(c) == session[c] = "serving" /\ drains[c] = NoConn

\* Fault: a read returns though no frame has come.
TakeFrameEarly(c) ==
  /\ Runs(c) /\ todo[c] = {} /\ link[c] = "up"
  /\ inbox' = [inbox EXCEPT ![c] = @ - 1]

TakeFrame(c) ==
  /\ Runs(c) /\ todo[c] = {} /\ inbox[c] > 0
  /\ inbox' = [inbox EXCEPT ![c] = @ - 1]

\* A PUBLISH is read: its subscribers are asked for.
ReadPublish(c) ==
  /\ TakeFrame(c)
  /\ todo' = [todo EXCEPT ![c] = Subscribers[c]]
  /\ UNCHANGED <<link, session, out, paused, drains, blocked>>

\* A frame with a reply is read: PINGREQ, SUBSCRIBE or UNSUBSCRIBE.
ReadRequest(c) ==
  /\ TakeFrame(c)
  /\ WriteAndDrain(c, c)
  /\ UNCHANGED <<link, todo, blocked>>

\* Fault: the message is kept for a subscriber that is lost.
ForwardRetry(c, s) ==
  /\ Runs(c) /\ s \in todo[c]
  /\ todo' = [todo EXCEPT ![c] = IF link[s] = "up" THEN @ \ {s} ELSE @]
  /\ WriteAndDrain(c, s)
  /\ UNCHANGED <<link, inbox, blocked>>

\* The message is forwarded to one of the subscribers that are left.
Forward(c, s) ==
  /\ Runs(c) /\ s \in todo[c]
  /\ todo' = [todo EXCEPT ![c] = @ \ {s}]
  /\ WriteAndDrain(c, s)
  /\ UNCHANGED <<link, inbox, blocked>>

\* The command of a device: the next one is not taken before this one is drained.
RouteCommand(s) ==
  /\ drains[Commands] = NoConn
  /\ WriteAndDrain(Commands, s)
  /\ UNCHANGED <<link, inbox, todo, blocked>>

\* End of stream, once what was received is read.
EndOfStream(c) ==
  /\ Runs(c) /\ todo[c] = {} /\ inbox[c] = 0
  /\ link[c] = "lost"
  /\ session' = [session EXCEPT ![c] = "ended"]
  /\ UNCHANGED <<link, inbox, out, paused, todo, drains, blocked>>

-----------------------------------------------------------------------------
(* The devices and TCP. *)

\* Those that wait for s in drain() go on.
Waiting(s) == {w \in Writers : drains[w] = s}
Release(s) == drains' = [w \in Writers |-> IF drains[w] = s THEN NoConn ELSE drains[w]]

\* A device sends a frame, or is blocked because the broker does not read.
DeviceWrites(c) ==
  /\ c \in Senders /\ link[c] = "up"
  /\ IF inbox[c] < Capacity
     THEN inbox' = [inbox EXCEPT ![c] = @ + 1] /\ blocked' = [blocked EXCEPT ![c] = FALSE]
     ELSE blocked' = [blocked EXCEPT ![c] = TRUE] /\ UNCHANGED inbox
  /\ UNCHANGED <<link, session, out, paused, todo, drains>>

\* A device reads a frame; at the low-water mark its writers are woken.
DeviceReads(c) ==
  /\ link[c] = "up" /\ ~blocked[c] /\ out[c] > 0
  /\ out' = [out EXCEPT ![c] = @ - 1]
  /\ IF paused[c] /\ out[c] - 1 <= Low
     THEN paused' = [paused EXCEPT ![c] = FALSE] /\ Release(c)
     ELSE UNCHANGED <<paused, drains>>
  /\ UNCHANGED <<link, session, inbox, todo, blocked>>

\* The connection fails, which nothing brings about as long as the device's TCP
\* answers: those that wait for it are woken by an exception.
Lose(c) ==
  /\ link[c] = "up"
  /\ link' = [link EXCEPT ![c] = "lost"]
  /\ out' = [out EXCEPT ![c] = 0]
  /\ paused' = [paused EXCEPT ![c] = FALSE]
  /\ blocked' = [blocked EXCEPT ![c] = FALSE]
  /\ Release(c)
  /\ Raise(c, Waiting(c))
  /\ UNCHANGED <<inbox, todo>>

\* The device connects again.
Reconnect(c) ==
  /\ session[c] = "ended"
  /\ session' = [session EXCEPT ![c] = "serving"]
  /\ link' = [link EXCEPT ![c] = "up"]
  /\ inbox' = [inbox EXCEPT ![c] = 0]
  /\ UNCHANGED <<out, paused, todo, drains, blocked>>

-----------------------------------------------------------------------------
Next ==
  \/ \E c \in Conns :
       \/ ReadPublish(c) \/ ReadRequest(c) \/ EndOfStream(c) \/ RouteCommand(c)
       \/ \E s \in Conns : Forward(c, s)
       \/ DeviceWrites(c) \/ DeviceReads(c) \/ Lose(c) \/ Reconnect(c)

Spec == Init /\ [][Next]_vars

\* Fairness.  The event loop runs each coroutine that can go on, a frame whose
\* write has blocked is taken when there is room, and the device of a reader reads
\* again and again unless it is blocked.  Other devices may stop to read at any
\* time, and no connection needs to fail.
Coroutine(c) ==
  ReadPublish(c) \/ ReadRequest(c) \/ EndOfStream(c) \/ \E s \in Conns : Forward(c, s)

Fairness ==
  \A c \in Conns :
    /\ WF_vars(Coroutine(c))
    /\ WF_vars(blocked[c] /\ inbox[c] < Capacity /\ DeviceWrites(c))
    /\ c \in Readers => SF_vars(DeviceReads(c))

FairSpec == Spec /\ Fairness

-----------------------------------------------------------------------------
(* Each variable is over the connections it indexes and holds.             *)
TypeOK ==
  /\ link \in [Conns -> {"up", "lost"}]
  /\ session \in [Conns -> {"serving", "ended"}]
  /\ inbox \in [Conns -> 0 .. Capacity]
  /\ out \in [Conns -> Nat]
  /\ paused \in [Conns -> BOOLEAN]
  /\ todo \in [Conns -> SUBSET Conns]
  /\ drains \in [Writers -> Conns \cup {NoConn}]
  /\ blocked \in [Conns -> BOOLEAN]

(* What is buffered for a device that does not read is bounded: beyond the *)
(* high-water mark, by one frame of each coroutine that waits for it       *)
(* (handlers.py, main.py: every write is followed by drain()).             *)
BufferBounded ==
  \A c \in Conns : out[c] <= High + Cardinality(Waiting(c))

(* A session ends only when its own connection is lost: a subscriber that  *)
(* goes away in the midst of a publication, or while its buffer is drained,*)
(* does not take the publisher with it (handle_publish).                   *)
PublisherSurvives ==
  [][\A c \in Conns :
       session[c] = "serving" /\ session'[c] = "ended" => link'[c] = "lost"]_vars

\* The connections that a wait for may last for ever: of devices that may stop to
\* read, and of those that are blocked while the coroutine that ought to read from
\* them waits for one of these connections itself.
Stuck ==
  UNION {D \in SUBSET Conns :
           \A c \in D : c \notin Readers \/ (blocked[c] /\ drains[c] \in D)}

(* A publication reaches its end and the commands go on, however the       *)
(* devices and publishers wait for one another, unless the wait is for a   *)
(* device that may stop to read, or one of a circle or a chain of blocked  *)
(* devices.  drain() has no time limit, so these waits are the ones that   *)
(* may last (handle_publish, route_command_to_device).                     *)
WritersContinue ==
  /\ \A c \in Conns :
       (drains[c] # NoConn \/ todo[c] # {})
         ~> ((drains[c] = NoConn /\ todo[c] = {}) \/ drains[c] \in Stuck)
  /\ drains[Commands] # NoConn ~> (drains[Commands] = NoConn \/ drains[Commands] \in Stuck)
=============================================================================
