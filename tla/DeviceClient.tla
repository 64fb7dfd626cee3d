---------------------------- MODULE DeviceClient ----------------------------
(***************************************************************************)
(* The client library of the firmware (IoTPubSubClient.cpp): one device,   *)
(* its TCP connection and the broker at its other end.  The application    *)
(* calls the library from one thread; connect(), subscribe() and           *)
(* unsubscribe() wait for an answer and loop() reads what has arrived, so  *)
(* `call' says which of them is in progress.  Time passes in ticks.        *)
(*                                                                         *)
(* A frame counts as "large" when its payload does not fit the library's   *)
(* buffer; the payloads of the others fit every buffer they are read into. *)
(***************************************************************************)
EXTENDS Integers, Sequences

CONSTANTS
  Patterns,       \* the patterns that the application subscribes to
  KeepAlive,      \* _keepAlive, in ticks
  SocketTimeout,  \* _socketTimeout, in ticks
  Demanded,       \* the fields the broker demands of a CONNECT
  MaxStream       \* bound: the frames under way in each direction

ASSUME DeviceClientAssumption ==
  /\ Patterns \subseteq STRING
  /\ KeepAlive \in Nat \ {0}
  /\ SocketTimeout \in Nat \ {0}
  /\ MaxStream \in Nat \ {0}

VARIABLES
  state,       \* _state
  sock,        \* the TCP connection: "open" or "closed"
  call,        \* the call of the library in progress, or "none"
  asked,       \* the pattern of a subscribe() in progress
  waited,      \* the ticks that waitForResponse has waited
  pinging,     \* _pingOutstanding
  idleIn,      \* the ticks since _lastInActivity, up to KeepAlive + 1
  idleOut,     \* the ticks since _lastOutActivity, up to KeepAlive + 1
  toBroker,    \* the frames under way to the broker
  fromBroker,  \* the frames under way from it, the first perhaps in part read
  aligned,     \* whether the next byte to read begins a frame
  alive,       \* whether the broker is there to answer
  accepted,    \* whether it has accepted the CONNECT of this connection
  granted,     \* the patterns it has recorded on this connection
  confirmed,   \* the patterns subscribe() has returned true for on it
  late,        \* whether a call on it has returned before the answer it is for
  sincePing    \* the ticks since the PINGREQ of this connection: 0, or 1 for
               \* more, or NoPing

streamVars == <<toBroker, fromBroker, aligned>>
peerVars   == <<alive, accepted, granted>>
timeVars   == <<idleIn, idleOut, sincePing>>
vars == <<state, sock, call, asked, waited, pinging, timeVars, streamVars,
          peerVars, confirmed, late>>

NoPing == -1
Frame(type, body) == [type |-> type, body |-> body]

\* The fields of the CONNECT that connect() builds; its secret is not among them.
ConnectFields == {"device_id", "token", "client_version"}

FramesTo ==
  {Frame(type, "none") : type \in {"CONNECT", "PUBLISH", "PINGREQ"}}
    \cup {Frame(type, p) : type \in {"SUBSCRIBE", "UNSUBSCRIBE"}, p \in Patterns}

FramesFrom ==
  {Frame("CONNACK", body) : body \in {"ok", "denied", "invalid"}}
    \cup {Frame("SUBACK", body) : body \in {"ok", "error"}}
    \cup {Frame("PUBLISH", body) : body \in {"fits", "large"}}
    \cup {Frame("UNSUBACK", "ok"), Frame("PINGRESP", "none")}

Init ==
  /\ state = "disconnected"
  /\ sock = "closed"
  /\ call = "none"
  /\ asked = "none"
  /\ waited = 0
  /\ pinging = FALSE
  /\ idleIn = 0 /\ idleOut = 0 /\ sincePing = NoPing
  /\ toBroker = <<>> /\ fromBroker = <<>> /\ aligned = TRUE
  /\ alive = FALSE /\ accepted = FALSE /\ granted = {}
  /\ confirmed = {} /\ late = FALSE

-----------------------------------------------------------------------------
\* What a closed connection had under way is gone, and so is its session.
Hangup ==
  /\ sock' = "closed"
  /\ toBroker' = <<>> /\ fromBroker' = <<>> /\ aligned' = TRUE
  /\ accepted' = FALSE /\ granted' = {} /\ confirmed' = {} /\ late' = FALSE
  /\ UNCHANGED alive

\* The library closes the connection, keeps the reason, and the call returns.
Leave(reason) ==
  /\ state' = reason
  /\ call' = "none"
  /\ Hangup
  /\ UNCHANGED <<asked, waited, pinging, timeVars>>

\* sendFrame on an open connection: what is sent to a broker that is gone is lost.
Send(frame) ==
  /\ IF alive
     THEN Len(toBroker) < MaxStream /\ toBroker' = Append(toBroker, frame)
     ELSE UNCHANGED toBroker
  /\ idleOut' = 0

Connected == state = "connected" /\ sock = "open"

\* Fault: connected() finds the connection lost and leaves _state alone.
LostForgotten == state

\* _state after connected() has been asked.
Noticed == IF state = "connected" /\ sock = "closed" THEN "lost" ELSE state

\* connected() finds the connection lost, on its own account or at the start of
\* a call that needs one.
NoticeLost ==
  /\ call = "none"
  /\ state = "connected"
  /\ sock = "closed"
  /\ state' = Noticed
  /\ UNCHANGED <<sock, call, asked, waited, pinging, timeVars, streamVars, peerVars,
                 confirmed, late>>

-----------------------------------------------------------------------------
(* connect() *)

ConnectFails ==
  /\ call = "none"
  /\ ~Connected
  /\ Leave("failed")

\* A connection is opened unless there is one, and the CONNECT is sent.
Connect ==
  /\ call = "none"
  /\ ~Connected
  /\ state' = Noticed
  /\ sock' = "open"
  /\ alive' = (sock = "closed" \/ alive)
  /\ Len(toBroker) < MaxStream
  /\ toBroker' = Append(toBroker, Frame("CONNECT", "none"))
  /\ idleOut' = 0
  /\ sincePing' = NoPing
  /\ call' = "connect"
  /\ waited' = 0
  /\ late' = (sock = "open" /\ late)
  /\ UNCHANGED <<asked, pinging, idleIn, fromBroker, aligned, accepted, granted,
                 confirmed>>

\* The frames that readFrame can return: the first, when it fits the buffer.
Arrived ==
  {f \in FramesFrom : aligned /\ fromBroker # <<>> /\ f = Head(fromBroker)
                        /\ f.body # "large"}

Take == fromBroker' = Tail(fromBroker) /\ UNCHANGED <<toBroker, aligned>>

\* Fault: waitForResponse waits for as long as the connection is open.
TimedOutClosed == fromBroker = <<>> /\ sock = "closed"

\* waitForResponse gives up.
TimedOut == fromBroker = <<>> /\ waited = SocketTimeout

\* Fault: _pingOutstanding is left as the last connection had it.
ConnackOkPinging ==
  /\ call = "connect"
  /\ Frame("CONNACK", "ok") \in Arrived
  /\ Take
  /\ state' = "connected"
  /\ call' = "none"
  /\ idleIn' = 0 /\ idleOut' = 0
  /\ UNCHANGED <<sock, asked, waited, pinging, sincePing, peerVars, confirmed, late>>

ConnackOk ==
  /\ call = "connect"
  /\ Frame("CONNACK", "ok") \in Arrived
  /\ Take
  /\ state' = "connected"
  /\ call' = "none"
  /\ idleIn' = 0 /\ idleOut' = 0
  /\ pinging' = FALSE
  /\ UNCHANGED <<sock, asked, waited, sincePing, peerVars, confirmed, late>>

\* Fault: the broker's reason is kept in place of the library's own code.
ConnackReason ==
  /\ call = "connect"
  /\ \/ \E reason \in {"denied", "invalid"} :
          Frame("CONNACK", reason) \in Arrived /\ Leave(reason)
     \/ \E f \in Arrived : f.type = "CONNACK" /\ Leave("rejected")
     \/ fromBroker # <<>> /\ Leave("timeout")
     \/ TimedOut /\ Leave("timeout")

\* The broker refuses the device; the answer does not parse, for the memory that
\* its document has or for its text (which of them do is left open); no frame,
\* another frame or a part of one comes.
ConnackBad ==
  /\ call = "connect"
  /\ \/ \E f \in Arrived : f.type = "CONNACK" /\ Leave("rejected")
     \/ \E reason \in {"denied", "invalid"} :
          Frame("CONNACK", reason) \in Arrived /\ Leave("badToken")
     \/ fromBroker # <<>> /\ Leave("timeout")
     \/ TimedOut /\ Leave("timeout")

-----------------------------------------------------------------------------
(* publish(), subscribe(), unsubscribe() *)

Publish ==
  /\ call = "none"
  /\ Connected
  /\ Send(Frame("PUBLISH", "none"))
  /\ UNCHANGED <<state, sock, call, asked, waited, pinging, idleIn, sincePing,
                 fromBroker, aligned, peerVars, confirmed, late>>

Subscribe(pattern) ==
  /\ call = "none"
  /\ Connected
  /\ Send(Frame("SUBSCRIBE", pattern))
  /\ call' = "subscribe"
  /\ asked' = pattern
  /\ waited' = 0
  /\ UNCHANGED <<state, sock, pinging, idleIn, sincePing, fromBroker, aligned,
                 peerVars, confirmed, late>>

Unsubscribe(pattern) ==
  /\ call = "none"
  /\ Connected
  /\ Send(Frame("UNSUBSCRIBE", pattern))
  /\ call' = "unsubscribe"
  /\ waited' = 0
  /\ confirmed' = confirmed \ {pattern}
  /\ UNCHANGED <<state, sock, asked, pinging, idleIn, sincePing, fromBroker,
                 aligned, peerVars, late>>

\* Bytes from within a frame are read as a frame: how many frames go with them,
\* and whether the next byte begins one, depends on them.
ReadAstray(least) ==
  /\ ~aligned
  /\ \E n \in least .. Len(fromBroker) :
       /\ fromBroker' = SubSeq(fromBroker, n + 1, Len(fromBroker))
       /\ aligned' \in {TRUE, n = Len(fromBroker)}
  /\ UNCHANGED toBroker

\* readFrame returns true on such bytes: they do not lie within one payload, as
\* two characters of JSON text make a length that is too large.
ReadJunk == ReadAstray(1)

\* readFrame returns false: the payload is too large, or the rest is late.
ReadFails ==
  \/ /\ aligned
     /\ fromBroker # <<>>
     /\ aligned' = FALSE
     /\ UNCHANGED <<toBroker, fromBroker>>
  \/ fromBroker # <<>> /\ ReadAstray(0)

\* The answer that the call in progress waits for.
Awaited == IF call = "subscribe" THEN "SUBACK" ELSE "UNSUBACK"

\* Fault: the status of the SUBACK is not looked at.
GrantsAny(f) == f.type = "SUBACK"

\* The frame makes subscribe() return true.
Grants(f) == f = Frame("SUBACK", "ok")

\* waitForResponse reads one frame, whatever it is, or gives up; the call
\* returns true if it was a SUBACK that grants a subscription.
Answered ==
  /\ call \in {"subscribe", "unsubscribe"}
  /\ call' = "none"
  /\ \/ \E f \in Arrived :
          /\ Take
          /\ idleIn' = 0
          /\ late' = (late \/ f.type # Awaited)
          /\ confirmed' = confirmed \cup {p \in {asked} : call = "subscribe" /\ Grants(f)}
     \/ /\ \/ ReadJunk /\ idleIn' = 0
           \/ ReadFails /\ UNCHANGED idleIn
           \/ TimedOut /\ UNCHANGED <<streamVars, idleIn>>
        /\ late' = TRUE
        /\ UNCHANGED confirmed
  /\ UNCHANGED <<state, sock, asked, waited, pinging, idleOut, sincePing, peerVars>>

\* disconnect(): the DISCONNECT goes out and the connection is closed.
Disconnect ==
  /\ call = "none"
  /\ Leave("disconnected")

-----------------------------------------------------------------------------
(* loop() *)

\* Fault: keepalive looks at what was sent only.
ExpiredOut == idleOut > KeepAlive

Expired == idleOut > KeepAlive \/ idleIn > KeepAlive

\* The keepalive check, after which what has arrived is read.
Loop ==
  /\ call = "none"
  /\ Connected
  /\ \/ Expired /\ pinging /\ Leave("timeout")
     \/ /\ Expired /\ ~pinging
        /\ Send(Frame("PINGREQ", "none"))
        /\ pinging' = TRUE
        /\ sincePing' = 0
        /\ call' = "loop"
        /\ UNCHANGED <<state, sock, asked, waited, idleIn, fromBroker, aligned,
                       peerVars, confirmed, late>>
     \/ /\ ~Expired
        /\ call' = "loop"
        /\ UNCHANGED <<state, sock, asked, waited, pinging, timeVars, streamVars,
                       peerVars, confirmed, late>>

\* One frame: a PUBLISH is for the application's callback, a PINGRESP ends the
\* ping, others are ignored; a frame that cannot be read ends loop().
LoopReads ==
  /\ call = "loop"
  /\ \/ \E f \in Arrived :
          /\ Take
          /\ idleIn' = 0
          /\ pinging' = (pinging /\ f.type # "PINGRESP")
          /\ UNCHANGED call
     \/ /\ ReadJunk
        /\ idleIn' = 0
        /\ pinging' \in {pinging, FALSE}
        /\ UNCHANGED call
     \/ /\ ReadFails
        /\ call' = "none"
        /\ UNCHANGED <<idleIn, pinging>>
  /\ UNCHANGED <<state, sock, asked, waited, idleOut, sincePing, peerVars, confirmed, late>>

LoopReturns ==
  /\ call = "loop"
  /\ fromBroker = <<>>
  /\ call' = "none"
  /\ UNCHANGED <<state, sock, asked, waited, pinging, timeVars, streamVars, peerVars,
                 confirmed, late>>

-----------------------------------------------------------------------------
(* The broker at the other end, the network and time. *)

Answer(frame) ==
  /\ fromBroker' = Append(fromBroker, frame)
  /\ toBroker' = Tail(toBroker)

\* The broker handles the next frame.
BrokerAnswers ==
  /\ alive
  /\ toBroker # <<>>
  /\ Len(fromBroker) < MaxStream
  /\ LET f == Head(toBroker) IN
     \/ /\ f.type = "CONNECT"
        /\ IF Demanded \subseteq ConnectFields
           THEN \/ Answer(Frame("CONNACK", "ok")) /\ accepted' = TRUE
                \/ Answer(Frame("CONNACK", "denied")) /\ UNCHANGED accepted
           ELSE Answer(Frame("CONNACK", "invalid")) /\ UNCHANGED accepted
        /\ UNCHANGED granted
     \/ /\ f.type = "SUBSCRIBE"
        /\ \/ Answer(Frame("SUBACK", "ok")) /\ granted' = granted \cup {f.body}
           \/ Answer(Frame("SUBACK", "error")) /\ UNCHANGED granted
        /\ UNCHANGED accepted
     \/ /\ f.type = "UNSUBSCRIBE"
        /\ Answer(Frame("UNSUBACK", "ok"))
        /\ granted' = granted \ {f.body}
        /\ UNCHANGED accepted
     \/ /\ f.type = "PINGREQ"
        /\ Answer(Frame("PINGRESP", "none"))
        /\ UNCHANGED <<accepted, granted>>
     \/ /\ f.type = "PUBLISH"
        /\ toBroker' = Tail(toBroker)
        /\ UNCHANGED <<fromBroker, accepted, granted>>
  /\ UNCHANGED <<state, sock, call, asked, waited, pinging, timeVars, aligned, alive,
                 confirmed, late>>

\* The broker sends the device a message or a command.
BrokerPublishes(size) ==
  /\ alive
  /\ accepted
  /\ Len(fromBroker) < MaxStream
  /\ fromBroker' = Append(fromBroker, Frame("PUBLISH", size))
  /\ UNCHANGED <<state, sock, call, asked, waited, pinging, timeVars, toBroker,
                 aligned, peerVars, confirmed, late>>

\* The broker vanishes and the device's TCP does not know.
BrokerGone ==
  /\ alive
  /\ alive' = FALSE
  /\ toBroker' = <<>>
  /\ UNCHANGED <<state, sock, call, asked, waited, pinging, timeVars, fromBroker,
                 aligned, accepted, granted, confirmed, late>>

\* The connection is closed by the broker or fails.
PeerClosed ==
  /\ sock = "open"
  /\ Hangup
  /\ UNCHANGED <<state, call, asked, waited, pinging, timeVars>>

AtMost(n, bound) == IF n < bound THEN n ELSE bound

Tick ==
  /\ idleIn' = AtMost(idleIn + 1, KeepAlive + 1)
  /\ idleOut' = AtMost(idleOut + 1, KeepAlive + 1)
  /\ waited' = AtMost(waited + 1, SocketTimeout)
  /\ sincePing' = IF sincePing = NoPing THEN NoPing ELSE 1
  /\ UNCHANGED <<state, sock, call, asked, pinging, streamVars, peerVars, confirmed, late>>

-----------------------------------------------------------------------------
CallReturns == ConnackOk \/ ConnackBad \/ Answered

Next ==
  \/ NoticeLost \/ ConnectFails \/ Connect \/ CallReturns \/ Publish \/ Disconnect
  \/ \E pattern \in Patterns : Subscribe(pattern) \/ Unsubscribe(pattern)
  \/ Loop \/ LoopReads \/ LoopReturns
  \/ BrokerAnswers \/ BrokerGone \/ PeerClosed \/ Tick
  \/ \E size \in {"fits", "large"} : BrokerPublishes(size)

Spec == Init /\ [][Next]_vars

\* Fairness.  Time passes, a call that can return does, and the application
\* calls loop() again and again, as the library demands, between its other calls.
Fairness ==
  /\ WF_vars(Tick)
  /\ WF_vars(CallReturns)
  /\ WF_vars(LoopReads \/ LoopReturns)
  /\ SF_vars(Loop \/ NoticeLost)

FairSpec == Spec /\ Fairness

-----------------------------------------------------------------------------
(* Each variable is over the constants and the frames it holds.            *)
TypeOK ==
  /\ state \in {"disconnected", "connected", "failed", "timeout", "lost", "badToken",
            "rejected"}
  /\ sock \in {"open", "closed"}
  /\ call \in {"none", "connect", "subscribe", "unsubscribe", "loop"}
  /\ asked \in Patterns \cup {"none"}
  /\ waited \in 0 .. SocketTimeout
  /\ pinging \in BOOLEAN
  /\ idleIn \in 0 .. KeepAlive + 1
  /\ idleOut \in 0 .. KeepAlive + 1
  /\ sincePing \in {NoPing, 0, 1}
  /\ toBroker \in Seq(FramesTo) /\ Len(toBroker) <= MaxStream
  /\ fromBroker \in Seq(FramesFrom) /\ Len(fromBroker) <= MaxStream
  /\ aligned \in BOOLEAN
  /\ alive \in BOOLEAN
  /\ accepted \in BOOLEAN
  /\ granted \subseteq Patterns
  /\ confirmed \subseteq Patterns
  /\ late \in BOOLEAN

(* The library calls a connection connected only if the broker accepted    *)
(* the CONNECT sent on that very connection, not on one before it          *)
(* (connect and connected).                                                *)
ConnectedAccepted == Connected => accepted

(* A ping counts as outstanding only if it was sent on this connection, so *)
(* loop() never drops a connection for the silence of an earlier one.      *)
PingOwn == Connected /\ pinging => sincePing # NoPing

(* As long as each call on a connection has returned with its own answer,  *)
(* subscribe() has returned true for patterns only that the broker records *)
(* for the device, in whatever order the calls, the answers and the        *)
(* messages of others come (waitForResponse, subscribe, unsubscribe).      *)
ConfirmedGranted == ~late => confirmed \subseteq granted

(* A device whose broker has vanished, and whose TCP does not notice,      *)
(* finds out though it goes on publishing (loop: the keepalive check).     *)
DeadBrokerNoticed == (~alive /\ state = "connected") ~> (alive \/ state # "connected")

(* connect(), subscribe() and unsubscribe() return, whatever the broker    *)
(* and the network do (waitForResponse).                                   *)
CallEnds == call \in {"connect", "subscribe", "unsubscribe"} ~> call = "none"

-----------------------------------------------------------------------------
(* What the repository says of the library and the code does not do. *)

(* IoT_Platform_Guide.md: "expects PONG within 10 seconds".  loop() would  *)
(* give up on a ping after a tick at the earliest.                         *)
PongGivenTime ==
  [][state = "connected" /\ state' = "timeout" => sincePing > 0]_vars

=============================================================================
