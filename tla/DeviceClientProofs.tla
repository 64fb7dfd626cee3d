------------------------- MODULE DeviceClientProofs -------------------------
(***************************************************************************)
(* Theorems about DeviceClient, for any patterns, time limits and lengths  *)
(* of the streams.                                                         *)
(***************************************************************************)
EXTENDS DeviceClient, SequenceTheorems, TLAPS

Requests == {"SUBSCRIBE", "UNSUBSCRIBE"}
Answers  == {"SUBACK", "UNSUBACK"}

None(types, stream) == \A i \in 1 .. Len(stream) : stream[i].type \notin types
One(types, stream)  ==
  \A i, j \in 1 .. Len(stream) :
    stream[i].type \in types /\ stream[j].type \in types => i = j

\* What is under way, accepted and confirmed belongs to an open connection.
ClosedInv ==
  sock = "closed" => /\ toBroker = <<>> /\ fromBroker = <<>>
                     /\ ~accepted /\ confirmed = {} /\ granted = {}

\* An accepting CONNACK on its way was sent on this very connection.
ConnackInv ==
  (\E i \in 1 .. Len(fromBroker) : fromBroker[i] = Frame("CONNACK", "ok")) => accepted

\* The request f is that of the call in progress, or the answer f is to it.
Asks(f) ==
  \/ call = "subscribe" /\ f = Frame("SUBSCRIBE", asked)
  \/ call = "unsubscribe" /\ f.type = "UNSUBSCRIBE" /\ f.body \notin confirmed
Replies(f) ==
  /\ f.type = Awaited
  /\ call = "subscribe" /\ f = Frame("SUBACK", "ok") => asked \in granted

\* No call has returned before its answer: one request or one answer is under
\* way at the most, that of the call in progress.
AnswersInv ==
  /\ call \notin {"subscribe", "unsubscribe"} =>
       None(Requests, toBroker) /\ None(Answers, fromBroker)
  /\ One(Requests, toBroker) /\ One(Answers, fromBroker)
  /\ None(Requests, toBroker) \/ None(Answers, fromBroker)
  /\ \A i \in 1 .. Len(toBroker) : toBroker[i].type \in Requests => Asks(toBroker[i])
  /\ \A i \in 1 .. Len(fromBroker) : fromBroker[i].type \in Answers => Replies(fromBroker[i])
  /\ confirmed \subseteq granted

\* The pattern that a subscribe() in progress asks for.
AskedInv == call = "subscribe" => asked \in Patterns

Inv ==
  /\ TypeOK /\ AskedInv
  /\ ClosedInv
  /\ ConnackInv /\ ConnectedAccepted
  /\ PingOwn
  /\ ~late => AnswersInv

-----------------------------------------------------------------------------
(* Streams. *)

\* The frames of these types in the stream new were in old, in the same order.
Less(types, old, new) ==
  \E d \in Nat : \A i \in 1 .. Len(new) :
    new[i].type \in types => i + d \in 1 .. Len(old) /\ new[i] = old[i + d]

(* What readFrame leaves of a stream.                                      *)
LEMMA Suffix ==
  ASSUME NEW S, NEW s \in Seq(S), NEW n \in 0 .. Len(s)
  PROVE  LET t == SubSeq(s, n + 1, Len(s))
         IN  /\ t \in Seq(S)
             /\ Len(t) = Len(s) - n
             /\ \A i \in 1 .. Len(t) : t[i] = s[i + n]
<1>1. Len(s) \in Nat /\ n + 1 \in Int /\ \A i \in n + 1 .. Len(s) : s[i] \in S
  BY LenProperties, ElementOfSeq
<1>2. /\ SubSeq(s, n + 1, Len(s)) \in Seq(S)
      /\ Len(SubSeq(s, n + 1, Len(s))) =
           IF n + 1 <= Len(s) THEN Len(s) - (n + 1) + 1 ELSE 0
      /\ \A i \in 1 .. Len(s) - (n + 1) + 1 :
           SubSeq(s, n + 1, Len(s))[i] = s[n + 1 + i - 1]
  BY <1>1, SubSeqProperties
<1>3. QED
  BY <1>1, <1>2

(* Reading, losing and sending other frames adds none of these types.      *)
LEMMA LessKept ==
  ASSUME NEW S, NEW s \in Seq(S), NEW types
  PROVE  /\ Less(types, s, s)
         /\ Less(types, s, <<>>)
         /\ \A n \in 0 .. Len(s) : Less(types, s, SubSeq(s, n + 1, Len(s)))
         /\ s # <<>> => Less(types, s, Tail(s))
         /\ \A f \in S : f.type \notin types => Less(types, s, Append(s, f))
<1>0. Len(s) \in Nat
  BY LenProperties
<1>1. Less(types, s, s)
  <2>1. \A i \in 1 .. Len(s) : i + 0 \in 1 .. Len(s) /\ s[i] = s[i + 0]
    BY <1>0
  <2>2. QED
    BY <2>1 DEF Less
<1>2. Less(types, s, <<>>)
  <2>1. \A i \in 1 .. Len(<<>>) : FALSE
    BY EmptySeq
  <2>2. QED
    BY <2>1 DEF Less
<1>3. ASSUME NEW n \in 0 .. Len(s) PROVE Less(types, s, SubSeq(s, n + 1, Len(s)))
  <2> DEFINE t == SubSeq(s, n + 1, Len(s))
  <2>1. Len(t) = Len(s) - n /\ \A i \in 1 .. Len(t) : t[i] = s[i + n]
    BY Suffix
  <2> HIDE DEF t
  <2>2. n \in Nat /\ \A i \in 1 .. Len(t) : i + n \in 1 .. Len(s) /\ t[i] = s[i + n]
    BY <1>0, <2>1
  <2>3. Less(types, s, t)
    BY <2>2 DEF Less
  <2>4. QED
    BY <2>3 DEF t
<1>4. ASSUME s # <<>> PROVE Less(types, s, Tail(s))
  <2> DEFINE t == Tail(s)
  <2>1. Len(t) = Len(s) - 1 /\ \A i \in 1 .. Len(t) : t[i] = s[i + 1]
    BY <1>4
  <2> HIDE DEF t
  <2>2. \A i \in 1 .. Len(t) : i + 1 \in 1 .. Len(s) /\ t[i] = s[i + 1]
    BY <1>0, <2>1
  <2>3. Less(types, s, t)
    BY <2>2 DEF Less
  <2>4. QED
    BY <2>3 DEF t
<1>5. ASSUME NEW f \in S, f.type \notin types PROVE Less(types, s, Append(s, f))
  <2> DEFINE t == Append(s, f)
  <2>1. Len(t) = Len(s) + 1 /\ t[Len(s) + 1] = f /\ \A i \in 1 .. Len(s) : t[i] = s[i]
    BY AppendProperties
  <2> HIDE DEF t
  <2>2. \A i \in 1 .. Len(t) : t[i].type \in types => i + 0 \in 1 .. Len(s) /\ t[i] = s[i + 0]
    BY <1>0, <1>5, <2>1
  <2>3. QED
    BY <2>2 DEF Less, t
<1>6. QED
  BY <1>1, <1>2, <1>3, <1>4, <1>5

-----------------------------------------------------------------------------
(* Types. *)

LEMMA InitType == Init => TypeOK
<1> SUFFICES ASSUME Init PROVE TypeOK
  OBVIOUS
<1>1. /\ toBroker \in Seq(FramesTo) /\ fromBroker \in Seq(FramesFrom)
      /\ Len(toBroker) = 0 /\ Len(fromBroker) = 0
  BY DEF Init
<1>2. /\ waited \in 0 .. SocketTimeout /\ idleIn \in 0 .. KeepAlive + 1
      /\ idleOut \in 0 .. KeepAlive + 1 /\ 0 <= MaxStream
  BY DeviceClientAssumption DEF Init
<1>3. QED
  BY <1>1, <1>2 DEF Init, TypeOK

(* Sending and reading keep the streams within their types and bounds.     *)
LEMMA SendType ==
  ASSUME TypeOK, NEW f \in FramesTo, Send(f)
  PROVE  toBroker' \in Seq(FramesTo) /\ Len(toBroker') <= MaxStream
         /\ idleOut' \in 0 .. KeepAlive + 1
<1>1. idleOut' \in 0 .. KeepAlive + 1
  BY DeviceClientAssumption DEF Send
<1>2. CASE alive
  <2>1. Len(toBroker) < MaxStream /\ toBroker' = Append(toBroker, f)
    BY <1>2 DEF Send
  <2>2. toBroker \in Seq(FramesTo) /\ Len(toBroker) \in Nat /\ MaxStream \in Nat
    BY DeviceClientAssumption DEF TypeOK
  <2>3. Append(toBroker, f) \in Seq(FramesTo) /\ Len(Append(toBroker, f)) = Len(toBroker) + 1
    BY <2>2
  <2>4. QED
    BY <1>1, <2>1, <2>2, <2>3
<1>3. CASE ~alive
  BY <1>1, <1>3 DEF Send, TypeOK
<1>4. QED
  BY <1>2, <1>3

LEMMA TakeType ==
  ASSUME TypeOK, fromBroker # <<>>, Take
  PROVE  /\ fromBroker' \in Seq(FramesFrom) /\ Len(fromBroker') <= MaxStream
         /\ toBroker' = toBroker /\ aligned' = aligned
<1>1. Tail(fromBroker) \in Seq(FramesFrom) /\ Len(Tail(fromBroker)) = Len(fromBroker) - 1
  BY HeadTailProperties DEF TypeOK
<1>2. QED
  BY <1>1, LenProperties, DeviceClientAssumption DEF TypeOK, Take

LEMMA AstrayType ==
  ASSUME TypeOK, NEW least \in {0, 1}, ReadAstray(least)
  PROVE  /\ fromBroker' \in Seq(FramesFrom) /\ Len(fromBroker') <= MaxStream
         /\ toBroker' = toBroker /\ aligned' \in BOOLEAN
<1>1. PICK n \in least .. Len(fromBroker) :
        /\ fromBroker' = SubSeq(fromBroker, n + 1, Len(fromBroker))
        /\ aligned' \in {TRUE, n = Len(fromBroker)}
  BY DEF ReadAstray
<1>2. n \in 0 .. Len(fromBroker) /\ Len(fromBroker) \in Nat
  BY LenProperties DEF TypeOK
<1>3. fromBroker' \in Seq(FramesFrom) /\ Len(fromBroker') = Len(fromBroker) - n
  BY <1>1, <1>2, Suffix DEF TypeOK
<1>4. aligned' \in BOOLEAN
  BY <1>1
<1>5. QED
  BY <1>2, <1>3, <1>4, DeviceClientAssumption DEF TypeOK, ReadAstray

(* readFrame, whether or not it returns true.                              *)
LEMMA ReadType ==
  ASSUME TypeOK, ReadJunk \/ ReadFails
  PROVE  /\ fromBroker' \in Seq(FramesFrom) /\ Len(fromBroker') <= MaxStream
         /\ toBroker' = toBroker /\ aligned' \in BOOLEAN
  BY AstrayType DEF TypeOK, ReadJunk, ReadFails

LEMMA ArrivedNonempty == ASSUME NEW f \in Arrived PROVE fromBroker # <<>> /\ f = Head(fromBroker)
  BY DEF Arrived

LEMMA HangupType ==
  ASSUME TypeOK, Hangup
  PROVE  /\ sock' = "closed" /\ toBroker' = <<>> /\ fromBroker' = <<>>
         /\ toBroker' \in Seq(FramesTo) /\ Len(toBroker') <= MaxStream
         /\ fromBroker' \in Seq(FramesFrom) /\ Len(fromBroker') <= MaxStream
         /\ aligned' \in BOOLEAN /\ alive' \in BOOLEAN /\ accepted' \in BOOLEAN
         /\ granted' \subseteq Patterns /\ confirmed' \subseteq Patterns /\ late' \in BOOLEAN
<1>1. 0 <= MaxStream /\ Len(<<>>) = 0 /\ <<>> \in Seq(FramesTo) /\ <<>> \in Seq(FramesFrom)
  BY DeviceClientAssumption
<1>2. QED
  BY <1>1 DEF Hangup, TypeOK

LEMMA LeaveType ==
  ASSUME TypeOK,
         \E reason \in {"failed", "timeout", "badToken", "rejected", "disconnected"} : Leave(reason)
  PROVE  TypeOK'
<1>1. Hangup /\ call' = "none" /\ UNCHANGED <<asked, waited, pinging, timeVars>>
  BY DEF Leave
<1>2. state' \in {"failed", "timeout", "badToken", "rejected", "disconnected"}
  BY DEF Leave
<1>3. QED
  BY <1>1, <1>2, HangupType DEF TypeOK, timeVars

(* Each step keeps the types.                                              *)
LEMMA TypeStep == TypeOK /\ AskedInv /\ [Next]_vars => TypeOK'
<1> SUFFICES ASSUME TypeOK, AskedInv, [Next]_vars PROVE TypeOK'
  OBVIOUS
<1> USE DEF timeVars, streamVars, peerVars
<1>1. CASE NoticeLost
  BY <1>1 DEF NoticeLost, Noticed, TypeOK
<1>2. CASE ConnectFails \/ Disconnect
  BY <1>2, LeaveType DEF ConnectFails, Disconnect
<1>3. CASE Connect
  <2>1. /\ Append(toBroker, Frame("CONNECT", "none")) \in Seq(FramesTo)
        /\ Len(Append(toBroker, Frame("CONNECT", "none"))) = Len(toBroker) + 1
    BY DEF TypeOK, FramesTo
  <2>2. toBroker' \in Seq(FramesTo) /\ Len(toBroker') <= MaxStream
    BY <1>3, <2>1, DeviceClientAssumption DEF Connect, TypeOK
  <2>3. state' \in {"disconnected", "connected", "failed", "timeout", "lost", "badToken", "rejected"}
    BY <1>3 DEF Connect, Noticed, TypeOK
  <2>4. alive' \in BOOLEAN /\ late' \in BOOLEAN
    BY <1>3 DEF Connect
  <2>5. waited' \in 0 .. SocketTimeout /\ idleOut' \in 0 .. KeepAlive + 1
    BY <1>3, DeviceClientAssumption DEF Connect
  <2>6. QED
    BY <1>3, <2>2, <2>3, <2>4, <2>5 DEF Connect, TypeOK
<1>4. CASE ConnackOk
  <2>1. fromBroker # <<>> /\ Take
    BY <1>4, ArrivedNonempty DEF ConnackOk
  <2>2. idleIn' \in 0 .. KeepAlive + 1 /\ idleOut' \in 0 .. KeepAlive + 1
    BY <1>4, DeviceClientAssumption DEF ConnackOk
  <2>3. QED
    BY <1>4, <2>1, <2>2, TakeType DEF ConnackOk, TypeOK
<1>5. CASE ConnackBad
  BY <1>5, LeaveType DEF ConnackBad
<1>6. CASE Answered
  <2> DEFINE streamsOK == /\ fromBroker' \in Seq(FramesFrom) /\ Len(fromBroker') <= MaxStream
                          /\ toBroker' = toBroker /\ aligned' \in BOOLEAN
  <2>1. ASSUME NEW f \in Arrived, Take, idleIn' = 0, late' = (late \/ f.type # Awaited),
               confirmed' = confirmed \cup {p \in {asked} : call = "subscribe" /\ Grants(f)}
        PROVE  /\ streamsOK /\ idleIn' \in 0 .. KeepAlive + 1
               /\ late' \in BOOLEAN /\ confirmed' \subseteq Patterns
    <3>1. idleIn' \in 0 .. KeepAlive + 1 /\ late' \in BOOLEAN
      BY <2>1, DeviceClientAssumption DEF TypeOK
    <3>2. confirmed' \subseteq Patterns
      BY <2>1 DEF TypeOK, AskedInv
    <3>3. streamsOK
      BY <2>1, TakeType, ArrivedNonempty DEF TypeOK
    <3>4. QED
      BY <3>1, <3>2, <3>3
  <2>2. ASSUME \/ ReadJunk /\ idleIn' = 0
               \/ ReadFails /\ UNCHANGED idleIn
               \/ TimedOut /\ UNCHANGED <<streamVars, idleIn>>,
               late' = TRUE, UNCHANGED confirmed
        PROVE  /\ streamsOK /\ idleIn' \in 0 .. KeepAlive + 1
               /\ late' \in BOOLEAN /\ confirmed' \subseteq Patterns
    <3>1. idleIn' \in 0 .. KeepAlive + 1
      BY <2>2, DeviceClientAssumption DEF TypeOK
    <3>2. streamsOK
      BY <2>2, ReadType DEF TypeOK
    <3>3. QED
      BY <2>2, <3>1, <3>2 DEF TypeOK
  <2>3. /\ streamsOK /\ idleIn' \in 0 .. KeepAlive + 1
        /\ late' \in BOOLEAN /\ confirmed' \subseteq Patterns
    <3> HIDE DEF streamsOK
    <3>1. QED
      BY <1>6, <2>1, <2>2 DEF Answered
  <2>4. QED
    BY <1>6, <2>3 DEF Answered, TypeOK
<1>7. CASE Publish
  BY <1>7, SendType DEF Publish, FramesTo, TypeOK
<1>8. ASSUME NEW pattern \in Patterns, Subscribe(pattern) PROVE TypeOK'
  <2>1. Frame("SUBSCRIBE", pattern) \in FramesTo /\ waited' \in 0 .. SocketTimeout
    BY <1>8, DeviceClientAssumption DEF Subscribe, FramesTo
  <2>2. QED
    BY <1>8, <2>1, SendType DEF Subscribe, TypeOK
<1>9. ASSUME NEW pattern \in Patterns, Unsubscribe(pattern) PROVE TypeOK'
  <2>1. Frame("UNSUBSCRIBE", pattern) \in FramesTo /\ waited' \in 0 .. SocketTimeout
    BY <1>9, DeviceClientAssumption DEF Unsubscribe, FramesTo
  <2>2. QED
    BY <1>9, <2>1, SendType DEF Unsubscribe, TypeOK
<1>10. CASE Loop
  <2>1. CASE Leave("timeout")
    BY <2>1, LeaveType
  <2>2. CASE Send(Frame("PINGREQ", "none")) /\ ~Leave("timeout") /\ Expired
    <3>1. Frame("PINGREQ", "none") \in FramesTo
      BY DEF FramesTo
    <3>2. QED
      BY <1>10, <2>2, <3>1, SendType DEF Loop, TypeOK
  <2>3. CASE ~Expired
    BY <1>10, <2>3 DEF Loop, TypeOK
  <2>4. QED
    BY <1>10, <2>1, <2>2, <2>3 DEF Loop
<1>11. CASE LoopReads
  <2>0. pinging' \in BOOLEAN
    BY <1>11 DEF LoopReads, TypeOK
  <2>1. idleIn' = 0 \/ idleIn' = idleIn
    BY <1>11 DEF LoopReads
  <2>a. call' \in {call, "none"}
    BY <1>11 DEF LoopReads
  <2>b. idleIn' \in 0 .. KeepAlive + 1
    BY <2>1, DeviceClientAssumption DEF TypeOK
  <2>2. /\ fromBroker' \in Seq(FramesFrom) /\ Len(fromBroker') <= MaxStream
        /\ toBroker' = toBroker /\ aligned' \in BOOLEAN
    BY <1>11, ReadType, TakeType, ArrivedNonempty DEF LoopReads, TypeOK
  <2>3. QED
    BY <1>11, <2>0, <2>a, <2>b, <2>2 DEF LoopReads, TypeOK
<1>12. CASE LoopReturns
  BY <1>12 DEF LoopReturns, TypeOK
<1>13. CASE BrokerAnswers
  <2>1. toBroker # <<>> /\ Len(fromBroker) < MaxStream
    BY <1>13 DEF BrokerAnswers
  <2>2. Head(toBroker) \in FramesTo
    BY <2>1 DEF TypeOK
  <2>3. Tail(toBroker) \in Seq(FramesTo) /\ Len(Tail(toBroker)) <= MaxStream
    BY <2>1, DeviceClientAssumption DEF TypeOK
  <2>4. ASSUME NEW f \in FramesFrom, Answer(f)
        PROVE  /\ toBroker' \in Seq(FramesTo) /\ Len(toBroker') <= MaxStream
               /\ fromBroker' \in Seq(FramesFrom) /\ Len(fromBroker') <= MaxStream
    <3>1. /\ Append(fromBroker, f) \in Seq(FramesFrom)
          /\ Len(Append(fromBroker, f)) = Len(fromBroker) + 1
      BY DEF TypeOK
    <3>2. QED
      BY <2>1, <2>3, <2>4, <3>1, DeviceClientAssumption DEF Answer, TypeOK
  <2>5. /\ toBroker' \in Seq(FramesTo) /\ Len(toBroker') <= MaxStream
        /\ fromBroker' \in Seq(FramesFrom) /\ Len(fromBroker') <= MaxStream
    BY <1>13, <2>3, <2>4 DEF BrokerAnswers, FramesFrom, TypeOK
  <2>6. accepted' \in BOOLEAN
    BY <1>13 DEF BrokerAnswers, TypeOK
  <2>7. granted' \subseteq Patterns
    BY <1>13, <2>2 DEF BrokerAnswers, TypeOK, FramesTo, Frame
  <2>8. QED
    BY <1>13, <2>5, <2>6, <2>7 DEF BrokerAnswers, TypeOK
<1>14. CASE BrokerGone
  <2>1. 0 <= MaxStream /\ Len(<<>>) = 0 /\ <<>> \in Seq(FramesTo)
    BY DeviceClientAssumption
  <2>2. toBroker' \in Seq(FramesTo) /\ Len(toBroker') <= MaxStream
    BY <1>14, <2>1 DEF BrokerGone
  <2>3. alive' \in BOOLEAN
    BY <1>14 DEF BrokerGone
  <2>4. UNCHANGED <<state, sock, call, asked, waited, pinging, idleIn, idleOut, sincePing,
                    fromBroker, aligned, accepted, granted, confirmed, late>>
    BY <1>14 DEF BrokerGone
  <2>5. QED
    BY <2>2, <2>3, <2>4 DEF TypeOK
<1>15. CASE PeerClosed
  BY <1>15, HangupType DEF PeerClosed, TypeOK
<1>16. CASE Tick
  <2>1. /\ idleIn' \in 0 .. KeepAlive + 1 /\ idleOut' \in 0 .. KeepAlive + 1
        /\ waited' \in 0 .. SocketTimeout
    BY <1>16, DeviceClientAssumption DEF Tick, AtMost, TypeOK
  <2>2. QED
    BY <1>16, <2>1 DEF Tick, TypeOK
<1>17. ASSUME NEW size \in {"fits", "large"}, BrokerPublishes(size) PROVE TypeOK'
  <2>1. /\ Append(fromBroker, Frame("PUBLISH", size)) \in Seq(FramesFrom)
        /\ Len(Append(fromBroker, Frame("PUBLISH", size))) = Len(fromBroker) + 1
    BY DEF TypeOK, FramesFrom
  <2>2. QED
    BY <1>17, <2>1, DeviceClientAssumption DEF BrokerPublishes, TypeOK
<1>18. CASE UNCHANGED vars
  BY <1>18 DEF vars, TypeOK
<1>19. QED
  BY <1>1, <1>2, <1>3, <1>4, <1>5, <1>6, <1>7, <1>8, <1>9, <1>10, <1>11, <1>12, <1>13,
     <1>14, <1>15, <1>16, <1>17, <1>18 DEF Next, CallReturns

-----------------------------------------------------------------------------
(* Each step keeps the facts about closed connections and what is asked.   *)
LEMMA ClosedStep == TypeOK /\ ClosedInv /\ AskedInv /\ [Next]_vars => ClosedInv' /\ AskedInv'
<1> SUFFICES ASSUME TypeOK, ClosedInv, AskedInv, [Next]_vars PROVE ClosedInv' /\ AskedInv'
  OBVIOUS
<1> USE DEF timeVars, streamVars, peerVars, ClosedInv, AskedInv
<1>0. ASSUME Hangup, UNCHANGED asked, call' \in {call, "none"} PROVE ClosedInv' /\ AskedInv'
  BY <1>0 DEF Hangup
<1>1. ASSUME NEW reason, Leave(reason) PROVE ClosedInv' /\ AskedInv'
  BY <1>0, <1>1 DEF Leave
<1>2. ASSUME ReadJunk \/ ReadFails \/ (Take /\ fromBroker # <<>>) PROVE sock # "closed"
  <2>1. ASSUME fromBroker = <<>>, NEW n \in 1 .. Len(fromBroker) PROVE FALSE
    BY <2>1
  <2>2. QED
    BY <1>2, <2>1 DEF ReadJunk, ReadFails, ReadAstray
<1>3. CASE NoticeLost
  BY <1>3 DEF NoticeLost
<1>4. CASE Connect
  BY <1>4 DEF Connect
<1>5. CASE ConnackOk
  BY <1>2, <1>5, ArrivedNonempty DEF ConnackOk
<1>6. CASE Answered
  BY <1>2, <1>6, ArrivedNonempty DEF Answered
<1>7. CASE Publish
  BY <1>7 DEF Publish, Connected
<1>8. ASSUME NEW pattern \in Patterns, Subscribe(pattern) PROVE ClosedInv' /\ AskedInv'
  BY <1>8 DEF Subscribe, Connected
<1>9. ASSUME NEW pattern \in Patterns, Unsubscribe(pattern) PROVE ClosedInv' /\ AskedInv'
  BY <1>9 DEF Unsubscribe, Connected
<1>10. CASE Loop
  BY <1>1, <1>10 DEF Loop, Connected
<1>11. CASE LoopReads
  BY <1>2, <1>11, ArrivedNonempty DEF LoopReads
<1>12. CASE LoopReturns
  BY <1>12 DEF LoopReturns
<1>13. CASE BrokerAnswers
  BY <1>13 DEF BrokerAnswers
<1>14. CASE BrokerGone
  BY <1>14 DEF BrokerGone
<1>15. CASE PeerClosed
  BY <1>0, <1>15 DEF PeerClosed
<1>16. CASE Tick
  BY <1>16 DEF Tick
<1>17. ASSUME NEW size \in {"fits", "large"}, BrokerPublishes(size) PROVE ClosedInv' /\ AskedInv'
  BY <1>17 DEF BrokerPublishes
<1>18. CASE UNCHANGED vars
  BY <1>18 DEF vars
<1>19. QED
  BY <1>1, <1>3, <1>4, <1>5, <1>6, <1>7, <1>8, <1>9, <1>10, <1>11, <1>12, <1>13, <1>14,
     <1>15, <1>16, <1>17, <1>18 DEF Next, CallReturns, ConnectFails, Disconnect, ConnackBad

-----------------------------------------------------------------------------
(* How a step may change what is under way from the broker: it hangs up, or *)
(* it adds one frame at the most, and a CONNACK only for a CONNECT.         *)
LEMMA FromSteps ==
  ASSUME TypeOK, [Next]_vars, ~Hangup
  PROVE  \/ Less({"CONNACK"}, fromBroker, fromBroker') /\ (accepted => accepted')
         \/ BrokerAnswers /\ Answer(Frame("CONNACK", "ok")) /\ accepted'
         \/ \E body \in {"denied", "invalid"} :
              BrokerAnswers /\ Answer(Frame("CONNACK", body)) /\ accepted' = accepted
<1> USE DEF timeVars, streamVars, peerVars
<1>1. fromBroker \in Seq(FramesFrom)
  BY DEF TypeOK
<1>2. ASSUME UNCHANGED fromBroker PROVE Less({"CONNACK"}, fromBroker, fromBroker')
  BY <1>1, <1>2, LessKept
<1>3. ASSUME ReadJunk \/ ReadFails \/ (Take /\ fromBroker # <<>>)
      PROVE  Less({"CONNACK"}, fromBroker, fromBroker')
  <2>1. ASSUME NEW least \in {0, 1}, ReadAstray(least)
        PROVE  Less({"CONNACK"}, fromBroker, fromBroker')
    <3>1. PICK n \in least .. Len(fromBroker) :
            fromBroker' = SubSeq(fromBroker, n + 1, Len(fromBroker))
      BY <2>1 DEF ReadAstray
    <3>2. n \in 0 .. Len(fromBroker)
      BY <1>1
    <3>3. QED
      BY <1>1, <3>1, <3>2, LessKept
  <2>2. CASE Take /\ fromBroker # <<>>
    BY <1>1, <2>2, LessKept DEF Take
  <2>3. QED
    BY <1>2, <1>3, <2>1, <2>2 DEF ReadJunk, ReadFails
<1>4. ASSUME NEW f \in FramesFrom, f.type # "CONNACK", fromBroker' = Append(fromBroker, f)
      PROVE  Less({"CONNACK"}, fromBroker, fromBroker')
  BY <1>1, <1>4, LessKept
<1>5. CASE NoticeLost \/ Connect \/ Publish \/ LoopReturns \/ BrokerGone \/ Tick
  BY <1>2, <1>5 DEF NoticeLost, Connect, Publish, LoopReturns, BrokerGone, Tick
<1>6. CASE \E pattern \in Patterns : Subscribe(pattern) \/ Unsubscribe(pattern)
  BY <1>2, <1>6 DEF Subscribe, Unsubscribe
<1>7. CASE ConnackOk
  BY <1>3, <1>7, ArrivedNonempty DEF ConnackOk
<1>8. CASE Answered
  BY <1>2, <1>3, <1>8, ArrivedNonempty DEF Answered
<1>9. CASE LoopReads
  BY <1>3, <1>9, ArrivedNonempty DEF LoopReads
<1>10. CASE Loop
  BY <1>2, <1>10 DEF Loop, Leave
<1>11. ASSUME NEW size \in {"fits", "large"}, BrokerPublishes(size)
       PROVE  Less({"CONNACK"}, fromBroker, fromBroker') /\ accepted' = accepted
  <2>1. Frame("PUBLISH", size) \in FramesFrom /\ Frame("PUBLISH", size).type # "CONNACK"
    BY DEF FramesFrom, Frame
  <2>2. QED
    BY <1>4, <1>11, <2>1 DEF BrokerPublishes
<1>12. CASE BrokerAnswers
  <2>1. \A f \in {Frame("SUBACK", "ok"), Frame("SUBACK", "error"), Frame("UNSUBACK", "ok"),
                  Frame("PINGRESP", "none")} :
          f \in FramesFrom /\ f.type # "CONNACK"
    BY DEF FramesFrom, Frame
  <2>2. QED
    BY <1>2, <1>4, <1>12, <2>1 DEF BrokerAnswers, Answer
<1>13. CASE ConnectFails \/ ConnackBad \/ Disconnect \/ PeerClosed
  BY <1>13 DEF ConnectFails, ConnackBad, Disconnect, PeerClosed, Leave
<1>14. CASE UNCHANGED vars
  BY <1>2, <1>14 DEF vars
<1>15. QED
  BY <1>5, <1>6, <1>7, <1>8, <1>9, <1>10, <1>11, <1>12, <1>13, <1>14 DEF Next, CallReturns

-----------------------------------------------------------------------------
(* Connections. *)

(* Only connect() makes a connection out to be connected.                  *)
LEMMA ConnectedStep ==
  ASSUME TypeOK, [Next]_vars, Connected'
  PROVE  (Connected \/ ConnackOk) /\ ~Hangup
<1> USE DEF Connected
<1>1. ASSUME NEW reason, Leave(reason) PROVE sock' = "closed"
  BY <1>1 DEF Leave, Hangup
<1>2. ~Hangup
  BY DEF Hangup
<1>3. CASE Connect
  BY <1>2, <1>3 DEF Connect, Noticed, TypeOK
<1>4. CASE Loop
  BY <1>1, <1>2, <1>4 DEF Loop
<1>5. CASE NoticeLost
  BY <1>2, <1>5 DEF NoticeLost, Noticed
<1>6. CASE Answered \/ Publish \/ LoopReads \/ LoopReturns \/ BrokerAnswers \/ BrokerGone
           \/ Tick \/ UNCHANGED vars
  BY <1>2, <1>6 DEF Answered, Publish, LoopReads, LoopReturns, BrokerAnswers, BrokerGone, Tick, vars
<1>7. CASE \/ \E pattern \in Patterns : Subscribe(pattern) \/ Unsubscribe(pattern)
           \/ \E size \in {"fits", "large"} : BrokerPublishes(size)
  BY <1>2, <1>7 DEF Subscribe, Unsubscribe, BrokerPublishes
<1>8. QED
  BY <1>1, <1>2, <1>3, <1>4, <1>5, <1>6, <1>7
  DEF Next, CallReturns, ConnectFails, Disconnect, ConnackBad, PeerClosed

(* Each step keeps to accepted connections.                                *)
LEMMA ConnackStep ==
  TypeOK /\ ConnackInv /\ ConnectedAccepted /\ [Next]_vars => ConnackInv' /\ ConnectedAccepted'
<1> SUFFICES ASSUME TypeOK, ConnackInv, ConnectedAccepted, [Next]_vars
             PROVE  ConnackInv' /\ ConnectedAccepted'
  OBVIOUS
<1> DEFINE ok == Frame("CONNACK", "ok")
<1>0. ok.type = "CONNACK" /\ \A body \in {"denied", "invalid"} : Frame("CONNACK", body) # ok
  BY DEF Frame
<1>1. ~Hangup => (accepted => accepted')
  BY FromSteps
<1>2. ConnackInv'
  <2>1. CASE Hangup
    BY <2>1 DEF Hangup, ConnackInv
  <2>2. ASSUME ~Hangup, NEW i \in 1 .. Len(fromBroker'), fromBroker'[i] = ok
        PROVE  accepted'
    <3>1. CASE Less({"CONNACK"}, fromBroker, fromBroker')
      <4>1. PICK d \in Nat : \A j \in 1 .. Len(fromBroker') :
              fromBroker'[j].type \in {"CONNACK"} =>
                j + d \in 1 .. Len(fromBroker) /\ fromBroker'[j] = fromBroker[j + d]
        BY <3>1 DEF Less
      <4>2. i + d \in 1 .. Len(fromBroker) /\ fromBroker[i + d] = ok
        BY <1>0, <2>2, <4>1
      <4>3. QED
        BY <1>1, <2>2, <4>2 DEF ConnackInv
    <3>2. ASSUME NEW body \in {"denied", "invalid"}, Answer(Frame("CONNACK", body)),
                 accepted' = accepted
          PROVE  accepted'
      <4>1. fromBroker \in Seq(FramesFrom) /\ Frame("CONNACK", body) \in FramesFrom
        BY DEF TypeOK, FramesFrom
      <4>2. /\ Len(fromBroker') = Len(fromBroker) + 1
            /\ fromBroker'[Len(fromBroker) + 1] = Frame("CONNACK", body)
            /\ \A j \in 1 .. Len(fromBroker) : fromBroker'[j] = fromBroker[j]
        BY <3>2, <4>1, AppendProperties DEF Answer
      <4>3. i \in 1 .. Len(fromBroker)
        BY <1>0, <2>2, <4>1, <4>2
      <4>4. QED
        BY <2>2, <3>2, <4>2, <4>3 DEF ConnackInv
    <3>3. QED
      BY <2>2, <3>1, <3>2, FromSteps
  <2>3. QED
    BY <2>1, <2>2 DEF ConnackInv
<1>3. ASSUME Connected' PROVE accepted'
  <2>1. ~Hangup
    BY <1>3, ConnectedStep
  <2>2. CASE Connected
    BY <1>1, <2>1, <2>2 DEF ConnectedAccepted
  <2>3. CASE ConnackOk
    <3>1. fromBroker # <<>> /\ ok = Head(fromBroker) /\ accepted' = accepted
      BY <2>3, ArrivedNonempty DEF ConnackOk, peerVars
    <3>2. 1 \in 1 .. Len(fromBroker) /\ fromBroker[1] = ok
      BY <3>1, EmptySeq DEF TypeOK
    <3>3. QED
      BY <3>1, <3>2 DEF ConnackInv
  <2>4. QED
    BY <1>3, <2>2, <2>3, ConnectedStep
<1>4. QED
  BY <1>2, <1>3 DEF ConnectedAccepted

(* Each step keeps pings to their connection.                              *)
LEMMA PingStep == TypeOK /\ PingOwn /\ [Next]_vars => PingOwn'
<1> SUFFICES ASSUME TypeOK, PingOwn, [Next]_vars, Connected', pinging'
             PROVE  sincePing' # NoPing
  BY DEF PingOwn
<1> USE DEF NoPing
<1>1. Connected /\ ~Hangup
  BY ConnectedStep DEF ConnackOk
<1>2. ASSUME NEW reason, Leave(reason) PROVE FALSE
  BY <1>1, <1>2 DEF Leave
<1>3. CASE Loop
  <2>1. CASE sincePing' = 0
    BY <2>1
  <2>2. CASE UNCHANGED <<pinging, sincePing>>
    BY <1>1, <2>2 DEF PingOwn
  <2>3. QED
    BY <1>2, <1>3, <2>1, <2>2 DEF Loop, timeVars
<1>4. CASE LoopReads
  BY <1>1, <1>4 DEF LoopReads, PingOwn
<1>5. CASE Tick
  BY <1>1, <1>5 DEF Tick, PingOwn
<1>6. CASE NoticeLost \/ Connect \/ ConnackOk
  BY <1>1, <1>6 DEF NoticeLost, Connect, ConnackOk, Connected
<1>7. CASE Answered \/ Publish \/ LoopReturns \/ BrokerAnswers \/ BrokerGone \/ UNCHANGED vars
  BY <1>1, <1>7
  DEF Answered, Publish, LoopReturns, BrokerAnswers, BrokerGone, vars, timeVars, PingOwn
<1>8. CASE \/ \E pattern \in Patterns : Subscribe(pattern) \/ Unsubscribe(pattern)
           \/ \E size \in {"fits", "large"} : BrokerPublishes(size)
  BY <1>1, <1>8 DEF Subscribe, Unsubscribe, BrokerPublishes, timeVars, PingOwn
<1>9. QED
  BY <1>1, <1>2, <1>3, <1>4, <1>5, <1>6, <1>7, <1>8
  DEF Next, CallReturns, ConnectFails, Disconnect, ConnackBad, PeerClosed

-----------------------------------------------------------------------------
(* Requests and their answers. *)

LEMMA LessNoneOne ==
  ASSUME NEW types, NEW old, NEW new, Less(types, old, new)
  PROVE  /\ None(types, old) => None(types, new)
         /\ One(types, old) => One(types, new)
<1>1. PICK d \in Nat : \A i \in 1 .. Len(new) :
        new[i].type \in types => i + d \in 1 .. Len(old) /\ new[i] = old[i + d]
  BY DEF Less
<1>2. None(types, old) => None(types, new)
  BY <1>1 DEF None
<1>3. ASSUME One(types, old), NEW i \in 1 .. Len(new), NEW j \in 1 .. Len(new),
             new[i].type \in types, new[j].type \in types
      PROVE  i = j
  <2>1. i + d \in 1 .. Len(old) /\ j + d \in 1 .. Len(old)
    BY <1>1, <1>3
  <2>2. old[i + d].type \in types /\ old[j + d].type \in types
    BY <1>1, <1>3
  <2>3. i + d = j + d
    BY <1>3, <2>1, <2>2 DEF One
  <2>4. QED
    BY <2>3
<1>4. QED
  BY <1>2, <1>3 DEF One

(* The only one is read: none is left.                                     *)
LEMMA HeadOne ==
  ASSUME NEW S, NEW s \in Seq(S), s # <<>>, NEW types, Head(s).type \in types
  PROVE  ~None(types, s) /\ (One(types, s) => None(types, Tail(s)))
<1>1. /\ Len(s) \in Nat /\ 1 \in 1 .. Len(s) /\ s[1] = Head(s) /\ Len(Tail(s)) = Len(s) - 1
      /\ \A i \in 1 .. Len(Tail(s)) : Tail(s)[i] = s[i + 1]
  OBVIOUS
<1>2. \A i \in 1 .. Len(Tail(s)) : i + 1 \in 1 .. Len(s) /\ i + 1 # 1
  BY <1>1
<1>3. QED
  BY <1>1, <1>2 DEF None, One

(* One is sent where there was none: it is the only one.                   *)
LEMMA AppendOne ==
  ASSUME NEW S, NEW s \in Seq(S), NEW f \in S, NEW types, None(types, s)
  PROVE  /\ One(types, Append(s, f))
         /\ \A i \in 1 .. Len(Append(s, f)) :
              Append(s, f)[i].type \in types => Append(s, f)[i] = f
<1>1. /\ Len(s) \in Nat /\ Len(Append(s, f)) = Len(s) + 1 /\ Append(s, f)[Len(s) + 1] = f
      /\ \A i \in 1 .. Len(s) : Append(s, f)[i] = s[i]
  BY AppendProperties
<1>2. \A i \in 1 .. Len(Append(s, f)) : i = Len(s) + 1 \/ i \in 1 .. Len(s)
  BY <1>1
<1>3. \A i \in 1 .. Len(Append(s, f)) : Append(s, f)[i].type \in types => i = Len(s) + 1
  BY <1>1, <1>2 DEF None
<1>4. QED
  BY <1>1, <1>3 DEF One

(* On a closed connection nothing is under way.                            *)
LEMMA ClosedAnswers == ClosedInv /\ sock = "closed" => AnswersInv
<1>1. ASSUME NEW types PROVE None(types, <<>>) /\ One(types, <<>>)
  BY EmptySeq DEF None, One
<1>2. \A i \in 1 .. Len(<<>>) : FALSE
  BY EmptySeq
<1>3. QED
  BY <1>1, <1>2 DEF ClosedInv, AnswersInv

(* A step that adds no request and no answer to the streams.               *)
LEMMA LessAnswers ==
  ASSUME AnswersInv,
         Less(Requests, toBroker, toBroker'), Less(Answers, fromBroker, fromBroker'),
         UNCHANGED <<asked, confirmed, granted>>,
         \/ UNCHANGED call
         \/ {call, call'} \cap {"subscribe", "unsubscribe"} = {}
  PROVE  AnswersInv'
<1>1. /\ None(Requests, toBroker) => None(Requests, toBroker')
      /\ One(Requests, toBroker) => One(Requests, toBroker')
      /\ None(Answers, fromBroker) => None(Answers, fromBroker')
      /\ One(Answers, fromBroker) => One(Answers, fromBroker')
  BY LessNoneOne
<1>2. CASE call \in {"subscribe", "unsubscribe"}
  <2>1. call' = call
    BY <1>2
  <2>2. ASSUME NEW i \in 1 .. Len(toBroker'), toBroker'[i].type \in Requests
        PROVE  Asks(toBroker[i])'
    <3>1. PICK j \in 1 .. Len(toBroker) : toBroker'[i] = toBroker[j]
      BY <2>2 DEF Less
    <3>2. Asks(toBroker[j])
      BY <2>2, <3>1 DEF AnswersInv
    <3>3. QED
      BY <2>1, <3>1, <3>2 DEF Asks
  <2>3. ASSUME NEW i \in 1 .. Len(fromBroker'), fromBroker'[i].type \in Answers
        PROVE  Replies(fromBroker[i])'
    <3>1. PICK j \in 1 .. Len(fromBroker) : fromBroker'[i] = fromBroker[j]
      BY <2>3 DEF Less
    <3>2. Replies(fromBroker[j])
      BY <2>3, <3>1 DEF AnswersInv
    <3>3. QED
      BY <2>1, <3>1, <3>2 DEF Replies, Awaited
  <2>4. QED
    BY <1>1, <1>2, <2>1, <2>2, <2>3 DEF AnswersInv
<1>3. CASE call \notin {"subscribe", "unsubscribe"}
  <2>1. None(Requests, toBroker') /\ None(Answers, fromBroker')
    BY <1>1, <1>3 DEF AnswersInv
  <2>2. One(Requests, toBroker') /\ One(Answers, fromBroker') /\ confirmed' \subseteq granted'
    BY <1>1 DEF AnswersInv
  <2>3. QED
    BY <2>1, <2>2 DEF AnswersInv, None
<1>4. QED
  BY <1>2, <1>3

(* Reading a stream adds nothing to it.                                    *)
LEMMA ReadLess ==
  ASSUME TypeOK, ReadJunk \/ ReadFails \/ (Take /\ fromBroker # <<>>), NEW types
  PROVE  Less(types, fromBroker, fromBroker') /\ toBroker' = toBroker
<1>1. fromBroker \in Seq(FramesFrom)
  BY DEF TypeOK
<1>2. ASSUME NEW least \in {0, 1}, ReadAstray(least)
      PROVE  Less(types, fromBroker, fromBroker') /\ toBroker' = toBroker
  <2>1. PICK n \in least .. Len(fromBroker) :
          fromBroker' = SubSeq(fromBroker, n + 1, Len(fromBroker))
    BY <1>2 DEF ReadAstray
  <2>2. n \in 0 .. Len(fromBroker)
    BY <1>1
  <2>3. QED
    BY <1>1, <1>2, <2>1, <2>2, LessKept DEF ReadAstray
<1>3. QED
  BY <1>1, <1>2, LessKept DEF ReadJunk, ReadFails, Take

LEMMA SendLess ==
  ASSUME TypeOK, NEW f \in FramesTo, f.type \notin Requests, Send(f)
  PROVE  Less(Requests, toBroker, toBroker')
<1>1. toBroker \in Seq(FramesTo)
  BY DEF TypeOK
<1>2. Less(Requests, toBroker, toBroker) /\ Less(Requests, toBroker, Append(toBroker, f))
  BY <1>1, LessKept
<1>3. QED
  BY <1>2 DEF Send

\* The steps that begin or end a subscribe() or unsubscribe().
LEMMA AsksAnswers ==
  ASSUME TypeOK, AnswersInv, NEW pattern \in Patterns,
         Subscribe(pattern) \/ Unsubscribe(pattern)
  PROVE  AnswersInv'
<1>1. /\ None(Requests, toBroker) /\ None(Answers, fromBroker)
      /\ fromBroker' = fromBroker /\ granted' = granted /\ confirmed' \subseteq confirmed
  BY DEF AnswersInv, Subscribe, Unsubscribe, peerVars
<1>2. PICK f \in FramesTo : f.type \in Requests /\ Asks(f)' /\ Send(f)
  <2>1. CASE Subscribe(pattern)
    <3>1. /\ Send(Frame("SUBSCRIBE", pattern)) /\ Frame("SUBSCRIBE", pattern) \in FramesTo
          /\ Frame("SUBSCRIBE", pattern).type \in Requests
      BY <2>1 DEF Subscribe, FramesTo, Frame, Requests
    <3>2. Asks(Frame("SUBSCRIBE", pattern))'
      BY <2>1 DEF Subscribe, Asks
    <3>3. QED
      BY <3>1, <3>2
  <2>2. CASE Unsubscribe(pattern)
    <3>1. /\ Send(Frame("UNSUBSCRIBE", pattern)) /\ Frame("UNSUBSCRIBE", pattern) \in FramesTo
          /\ Frame("UNSUBSCRIBE", pattern).type \in Requests
      BY <2>2 DEF Unsubscribe, FramesTo, Frame, Requests
    <3>2. Asks(Frame("UNSUBSCRIBE", pattern))'
      BY <2>2 DEF Unsubscribe, Asks, Frame
    <3>3. QED
      BY <3>1, <3>2
  <2>3. QED
    BY <2>1, <2>2
<1>3. call' \in {"subscribe", "unsubscribe"}
  BY DEF Subscribe, Unsubscribe
<1>4. /\ One(Requests, toBroker')
      /\ \A i \in 1 .. Len(toBroker') : toBroker'[i].type \in Requests => Asks(toBroker[i])'
  <2>1. CASE alive
    <3>1. toBroker' = Append(toBroker, f)
      BY <1>2, <2>1 DEF Send
    <3>2. One(Requests, toBroker')
      BY <1>1, <1>2, <3>1, AppendOne DEF TypeOK
    <3>3. \A i \in 1 .. Len(toBroker') : toBroker'[i].type \in Requests => toBroker'[i] = f
      BY <1>1, <1>2, <3>1, AppendOne DEF TypeOK
    <3>4. QED
      BY <1>2, <3>2, <3>3 DEF Asks
  <2>2. CASE ~alive
    BY <1>1, <1>2, <2>2 DEF Send, None, One
  <2>3. QED
    BY <2>1, <2>2
<1>5. QED
  BY <1>1, <1>3, <1>4 DEF AnswersInv, None, One

LEMMA AnsweredAnswers == TypeOK /\ AnswersInv /\ Answered /\ ~late' => AnswersInv'
<1> SUFFICES ASSUME TypeOK, AnswersInv, Answered, ~late' PROVE AnswersInv'
  OBVIOUS
<1>1. PICK f \in Arrived :
        /\ Take
        /\ f.type = Awaited
        /\ confirmed' = confirmed \cup {p \in {asked} : call = "subscribe" /\ Grants(f)}
  BY DEF Answered
<1>2. /\ fromBroker # <<>> /\ f = Head(fromBroker) /\ fromBroker \in Seq(FramesFrom)
      /\ fromBroker' = Tail(fromBroker) /\ toBroker' = toBroker
      /\ call' = "none" /\ granted' = granted
  BY <1>1, ArrivedNonempty DEF Take, Answered, peerVars, TypeOK
<1>3. f.type \in Answers
  BY <1>1 DEF Awaited, Answers
<1>4. ~None(Answers, fromBroker) /\ None(Answers, fromBroker')
  BY <1>2, <1>3, HeadOne DEF AnswersInv
<1>5. None(Requests, toBroker')
  BY <1>2, <1>4 DEF AnswersInv
<1>6. confirmed' \subseteq granted'
  <2>1. 1 \in 1 .. Len(fromBroker) /\ fromBroker[1] = f
    BY <1>2
  <2>2. Replies(f)
    BY <1>3, <2>1 DEF AnswersInv
  <2>3. QED
    BY <1>1, <1>2, <2>2 DEF Replies, Grants, AnswersInv
<1>7. QED
  BY <1>2, <1>4, <1>5, <1>6 DEF AnswersInv, None, One

LEMMA BrokerAnswersAnswers == TypeOK /\ AnswersInv /\ BrokerAnswers => AnswersInv'
<1> SUFFICES ASSUME TypeOK, AnswersInv, BrokerAnswers PROVE AnswersInv'
  OBVIOUS
<1> DEFINE f == Head(toBroker)
<1>1. /\ toBroker \in Seq(FramesTo) /\ toBroker # <<>> /\ fromBroker \in Seq(FramesFrom)
      /\ UNCHANGED <<call, asked, confirmed>>
  BY DEF TypeOK, BrokerAnswers
<1>2. 1 \in 1 .. Len(toBroker) /\ toBroker[1] = f
  BY <1>1
<1>3. CASE f.type \in {"CONNECT", "PINGREQ", "PUBLISH"}
  <2>1. \A body \in {"ok", "denied", "invalid"} : Frame("CONNACK", body) \in FramesFrom
    BY DEF FramesFrom
  <2>2. Frame("PINGRESP", "none") \in FramesFrom
    BY DEF FramesFrom
  <2>3. \/ fromBroker' = fromBroker
        \/ \E g \in FramesFrom : g.type \notin Answers /\ fromBroker' = Append(fromBroker, g)
    BY <1>3, <2>1, <2>2 DEF BrokerAnswers, Answer, Frame, Answers
  <2>4. toBroker' = Tail(toBroker) /\ granted' = granted
    BY <1>3 DEF BrokerAnswers, Answer
  <2>5. Less(Requests, toBroker, toBroker') /\ Less(Answers, fromBroker, fromBroker')
    BY <1>1, <2>3, <2>4, LessKept
  <2>6. QED
    BY <1>1, <2>4, <2>5, LessAnswers
<1>4. CASE f.type \in Requests
  <2>1. Asks(f) /\ None(Answers, fromBroker) /\ None(Requests, Tail(toBroker))
    BY <1>1, <1>2, <1>4, HeadOne DEF AnswersInv
  <2>2. PICK g \in FramesFrom :
          /\ Answer(g) /\ Replies(g)' /\ g.type \in Answers
          /\ confirmed' \subseteq granted'
    <3>1. CASE f.type = "SUBSCRIBE"
      <4>1. call = "subscribe" /\ f.body = asked
        BY <2>1, <3>1 DEF Asks, Frame
      <4>2. \/ Answer(Frame("SUBACK", "ok")) /\ granted' = granted \cup {f.body}
            \/ Answer(Frame("SUBACK", "error")) /\ granted' = granted
        BY <3>1 DEF BrokerAnswers
      <4>3. \A body \in {"ok", "error"} : Frame("SUBACK", body) \in FramesFrom
        BY DEF FramesFrom
      <4>4. QED
        BY <1>1, <4>1, <4>2, <4>3 DEF Replies, Awaited, Frame, Answers, AnswersInv
    <3>2. CASE f.type = "UNSUBSCRIBE"
      <4>1. call = "unsubscribe" /\ f.body \notin confirmed
        BY <2>1, <3>2 DEF Asks, Frame
      <4>2. Answer(Frame("UNSUBACK", "ok")) /\ granted' = granted \ {f.body}
        BY <3>2 DEF BrokerAnswers
      <4>3. Frame("UNSUBACK", "ok") \in FramesFrom
        BY DEF FramesFrom
      <4>4. QED
        BY <1>1, <4>1, <4>2, <4>3 DEF Replies, Awaited, Frame, Answers, AnswersInv
    <3>3. QED
      BY <1>4, <3>1, <3>2 DEF Requests
  <2>3. toBroker' = Tail(toBroker) /\ fromBroker' = Append(fromBroker, g)
    BY <2>2 DEF Answer
  <2>4. /\ One(Answers, fromBroker')
        /\ \A i \in 1 .. Len(fromBroker') : fromBroker'[i].type \in Answers => fromBroker'[i] = g
    BY <1>1, <2>1, <2>3, AppendOne
  <2>5. \A i \in 1 .. Len(fromBroker') :
          fromBroker'[i].type \in Answers => Replies(fromBroker[i])'
    BY <2>2, <2>4 DEF Replies, Awaited
  <2>6. None(Requests, toBroker')
    BY <2>1, <2>3
  <2>7. call' \in {"subscribe", "unsubscribe"}
    BY <1>1, <2>1 DEF Asks
  <2>8. QED
    BY <2>2, <2>4, <2>5, <2>6, <2>7 DEF AnswersInv, None, One
<1>5. QED
  BY <1>2, <1>3, <1>4 DEF BrokerAnswers, Requests

(* Each step keeps the answers to the calls they are for.                  *)
LEMMA AnswersStep ==
  TypeOK /\ ClosedInv /\ (~late => AnswersInv) /\ [Next]_vars => (~late' => AnswersInv')
<1> SUFFICES ASSUME TypeOK, ClosedInv, ~late => AnswersInv, [Next]_vars, ~late'
             PROVE  AnswersInv'
  OBVIOUS
<1> USE DEF streamVars, peerVars
<1>1. /\ fromBroker \in Seq(FramesFrom) /\ toBroker \in Seq(FramesTo)
      /\ Less(Requests, toBroker, toBroker) /\ Less(Answers, fromBroker, fromBroker)
      /\ Less(Requests, toBroker, <<>>)
  <2>1. fromBroker \in Seq(FramesFrom) /\ toBroker \in Seq(FramesTo)
    BY DEF TypeOK
  <2>2. QED
    BY <2>1, LessKept
<1>2. CASE Hangup
  <2>1. sock' = "closed" /\ ClosedInv'
    BY <1>2 DEF Hangup, ClosedInv
  <2>2. (ClosedInv /\ sock = "closed" => AnswersInv)'
    BY ClosedAnswers, PTL
  <2>3. QED
    BY <2>1, <2>2
<1>3. ASSUME NEW reason, Leave(reason) PROVE AnswersInv'
  BY <1>2, <1>3 DEF Leave
<1>4. CASE Connect
  <2>1. AnswersInv
    BY <1>4, ClosedAnswers DEF Connect, TypeOK
  <2>2. Frame("CONNECT", "none") \in FramesTo /\ Frame("CONNECT", "none").type \notin Requests
    BY DEF FramesTo, Frame, Requests
  <2>3. Less(Requests, toBroker, Append(toBroker, Frame("CONNECT", "none")))
    BY <1>1, <2>2, LessKept
  <2>4. UNCHANGED <<asked, confirmed, granted, fromBroker>> /\ call = "none" /\ call' = "connect"
    BY <1>4 DEF Connect
  <2>5. toBroker' = Append(toBroker, Frame("CONNECT", "none"))
    BY <1>4 DEF Connect
  <2>6. QED
    BY <1>1, <2>1, <2>3, <2>4, <2>5, LessAnswers
<1>5. CASE ConnackOk \/ LoopReads
  <2>1. ReadJunk \/ ReadFails \/ (Take /\ fromBroker # <<>>)
    BY <1>5, ArrivedNonempty DEF ConnackOk, LoopReads
  <2>2. /\ UNCHANGED <<asked, confirmed, granted, late>>
        /\ {call, call'} \cap {"subscribe", "unsubscribe"} = {}
    BY <1>5 DEF ConnackOk, LoopReads
  <2>3. QED
    BY <1>1, <2>1, <2>2, ReadLess, LessAnswers
<1>6. CASE Answered
  <2>1. ~late
    BY <1>6 DEF Answered
  <2>2. QED
    BY <1>6, <2>1, AnsweredAnswers
<1>7. CASE Publish
  <2>1. Frame("PUBLISH", "none") \in FramesTo /\ Frame("PUBLISH", "none").type \notin Requests
    BY DEF FramesTo, Frame, Requests
  <2>2. UNCHANGED <<asked, confirmed, granted, late, call, fromBroker>>
    BY <1>7 DEF Publish
  <2>3. Less(Requests, toBroker, toBroker')
    BY <1>7, <2>1, SendLess DEF Publish
  <2>4. QED
    BY <1>1, <2>2, <2>3, LessAnswers
<1>8. ASSUME NEW pattern \in Patterns, Subscribe(pattern) \/ Unsubscribe(pattern)
      PROVE  AnswersInv'
  <2>1. ~late
    BY <1>8 DEF Subscribe, Unsubscribe
  <2>2. QED
    BY <1>8, <2>1, AsksAnswers
<1>9. CASE Loop
  <2>1. CASE Send(Frame("PINGREQ", "none")) /\ ~Leave("timeout") /\ Expired
    <3>1. Frame("PINGREQ", "none") \in FramesTo /\ Frame("PINGREQ", "none").type \notin Requests
      BY DEF FramesTo, Frame, Requests
    <3>2. /\ UNCHANGED <<asked, confirmed, granted, late, fromBroker>>
          /\ {call, call'} \cap {"subscribe", "unsubscribe"} = {}
      BY <1>9, <2>1 DEF Loop
    <3>3. Less(Requests, toBroker, toBroker')
      BY <2>1, <3>1, SendLess
    <3>4. QED
      BY <1>1, <3>2, <3>3, LessAnswers
  <2>2. CASE ~Expired
    <3>1. /\ UNCHANGED <<asked, confirmed, granted, late, fromBroker, toBroker>>
          /\ {call, call'} \cap {"subscribe", "unsubscribe"} = {}
      BY <1>9, <2>2 DEF Loop
    <3>2. QED
      BY <1>1, <3>1, LessAnswers
  <2>3. QED
    BY <1>3, <1>9, <2>1, <2>2 DEF Loop
<1>10. CASE LoopReturns
  <2>1. /\ UNCHANGED <<asked, confirmed, granted, late, fromBroker, toBroker>>
        /\ {call, call'} \cap {"subscribe", "unsubscribe"} = {}
    BY <1>10 DEF LoopReturns
  <2>2. QED
    BY <1>1, <2>1, LessAnswers
<1>11. CASE NoticeLost \/ Tick \/ UNCHANGED vars
  <2>1. UNCHANGED <<asked, confirmed, granted, late, fromBroker, toBroker, call>>
    BY <1>11 DEF NoticeLost, Tick, vars
  <2>2. QED
    BY <1>1, <2>1, LessAnswers
<1>12. CASE BrokerAnswers
  <2>1. ~late
    BY <1>12 DEF BrokerAnswers
  <2>2. QED
    BY <1>12, <2>1, BrokerAnswersAnswers
<1>13. ASSUME NEW size \in {"fits", "large"}, BrokerPublishes(size) PROVE AnswersInv'
  <2>1. Frame("PUBLISH", size) \in FramesFrom /\ Frame("PUBLISH", size).type \notin Answers
    BY DEF FramesFrom, Frame, Answers
  <2>2. Less(Answers, fromBroker, Append(fromBroker, Frame("PUBLISH", size)))
    BY <1>1, <2>1, LessKept
  <2>3. UNCHANGED <<asked, confirmed, granted, late, toBroker, call>>
    BY <1>13 DEF BrokerPublishes
  <2>4. fromBroker' = Append(fromBroker, Frame("PUBLISH", size))
    BY <1>13 DEF BrokerPublishes
  <2>5. QED
    BY <1>1, <2>2, <2>3, <2>4, LessAnswers
<1>14. CASE BrokerGone
  <2>1. UNCHANGED <<asked, confirmed, granted, late, fromBroker, call>> /\ toBroker' = <<>>
    BY <1>14 DEF BrokerGone
  <2>2. QED
    BY <1>1, <2>1, LessAnswers
<1>15. QED
  BY <1>2, <1>3, <1>4, <1>5, <1>6, <1>7, <1>8, <1>9, <1>10, <1>11, <1>12, <1>13, <1>14
  DEF Next, CallReturns, ConnectFails, Disconnect, ConnackBad, PeerClosed

-----------------------------------------------------------------------------
(* Theorems. *)

LEMMA Invariance == Spec => []Inv
<1>1. Init => Inv
  <2>1. Init => ClosedInv /\ AskedInv /\ sock = "closed" /\ ConnackInv
    BY EmptySeq DEF Init, ClosedInv, AskedInv, ConnackInv
  <2>2. Init => ConnectedAccepted /\ PingOwn
    BY DEF Init, ConnectedAccepted, PingOwn, Connected
  <2>3. QED
    BY <2>1, <2>2, InitType, ClosedAnswers DEF Inv
<1>2. Inv /\ [Next]_vars => Inv'
  BY TypeStep, ClosedStep, ConnackStep, PingStep, AnswersStep DEF Inv
<1>3. QED
  BY <1>1, <1>2, PTL DEF Spec

(* TypeOK holds always.                                                    *)
THEOREM TypeCorrect == Spec => []TypeOK
<1>1. Inv => TypeOK
  BY DEF Inv
<1>2. QED
  BY <1>1, Invariance, PTL

(* ConnectedAccepted holds always: no frame that an earlier connection, or *)
(* the wait for another answer, left unread makes a connection connected.  *)
THEOREM AcceptedAlways == Spec => []ConnectedAccepted
<1>1. Inv => ConnectedAccepted
  BY DEF Inv
<1>2. QED
  BY <1>1, Invariance, PTL

(* PingOwn holds always: connect() forgets the ping of the connection      *)
(* before.                                                                 *)
THEOREM PingsOwn == Spec => []PingOwn
<1>1. Inv => PingOwn
  BY DEF Inv
<1>2. QED
  BY <1>1, Invariance, PTL

(* ConfirmedGranted holds always: with one call at a time, none of which   *)
(* returns before its answer, the answer read next is its own.             *)
THEOREM ConfirmedAlwaysGranted == Spec => []ConfirmedGranted
<1>1. Inv => ConfirmedGranted
  BY DEF Inv, AnswersInv, ConfirmedGranted
<1>2. QED
  BY <1>1, Invariance, PTL

=============================================================================
