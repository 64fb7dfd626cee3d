----------------------------- MODULE WireFormat -----------------------------
(***************************************************************************)
(* The frames of the binary protocol, byte for byte: how the library       *)
(* writes them (IoTPubSubClient.cpp, sendFrame), how the broker encodes    *)
(* and reads them (protocol/frames.py), and the stream between the two     *)
(* when a write goes out in part, a payload is longer than its length      *)
(* field can say, or the connection ends in the middle of a frame.         *)
(*                                                                         *)
(* A byte is a number below Base, so that a length is below Base * Base.   *)
(* What matters of JSON text: none of its bytes is a control character, as *)
(* the type codes are, an object ends at its last byte and nowhere before, *)
(* and no payload of the protocol is as short as a type code is large.     *)
(***************************************************************************)
EXTENDS Naturals, Sequences, SequencesExt

CONSTANTS
  Base,        \* the values of a byte: 256
  Lengths,     \* the lengths of the payloads that the application publishes
  BufferSize,  \* the library's _bufferSize
  MaxFrames,   \* bound: the frames that the device begins to write, whole pings
               \* left out
  MaxBytes     \* bound: the length of a stream to which pings are added

HeaderSize == 4
Flags      == 0
Publish    == 1      \* the type with a payload
Pingreq    == 2      \* the type without
Text       == 3      \* a byte of JSON text
Close      == 4      \* the brace that ends it
Types      == {Publish, Pingreq}
MaxPayload == Base * Base - 1

ASSUME WireFormatAssumption ==
  /\ Base \in Nat /\ Base > Close
  /\ Lengths \subseteq {n \in Nat : n > Pingreq}
  /\ BufferSize \in HeaderSize .. MaxPayload
  /\ MaxFrames \in Nat /\ MaxBytes \in Nat

VARIABLES
  stream,   \* the bytes that the broker has yet to read
  eof,      \* whether the device's end is closed
  writes,   \* how many frames the device has begun to write
  cuts,     \* how many frames went out in part
  reported, \* the payloads for which publish() returned true, but for those of
            \* whose length 16 bits leave nothing
  sent,     \* those of them that went out whole
  handled,  \* the payloads that read_frame returned, {} left out
  session   \* the broker's session: "open" or "ended"

vars == <<stream, eof, writes, cuts, reported, sent, handled, session>>

\* The text of an object of n bytes, and a text of n bytes that is none: publish()
\* puts topic and payload between quotes as they are.
Json(n) == [i \in 1 .. n |-> IF i = n THEN Close ELSE Text]
Unquoted(n) == [i \in 1 .. n |-> Text]
Texts == {Json(n) : n \in Lengths} \cup {Unquoted(n) : n \in Lengths}

\* Fault: whatever has no control character passes for an object.
IsJsonText(bytes) == \A i \in DOMAIN bytes : bytes[i] \in {Text, Close}

\* json.loads makes an object of the bytes; the shortest object is its two braces.
IsJson(bytes) == Len(bytes) > 1 /\ bytes = Json(Len(bytes))

\* encode_frame of the broker: struct.pack("!BBH"), then the payload.
EncodeFrame(type, payload) ==
  <<type, Flags, Len(payload) \div Base, Len(payload) % Base>> \o payload

Init ==
  /\ stream = <<>> /\ eof = FALSE
  /\ writes = 0 /\ cuts = 0
  /\ reported = <<>> /\ sent = <<>> /\ handled = <<>>
  /\ session = "open"

-----------------------------------------------------------------------------
(* The library. *)

\* _buffer[0] .. _buffer[3].
Header(type, length) == <<type, Flags, (length \div Base) % Base, length % Base>>

\* strlen(jsonPayload), as a uint16_t.
PayloadLen(n) == n % (Base * Base)

\* What sendFrame writes for a payload; nothing when it does not fit.
SendFrame(payload) ==
  LET n == PayloadLen(Len(payload))
  IN IF n + HeaderSize > BufferSize THEN <<>>
     ELSE Header(Publish, n) \o SubSeq(payload, 1, n)

CanWrite == ~eof /\ session = "open"

Writes ==
  /\ CanWrite /\ writes < MaxFrames
  /\ writes' = writes + 1
  /\ UNCHANGED <<eof, handled, session>>

\* publish(), in which the stream takes all of the frame: it returns true.
PublishWhole(payload) ==
  /\ Writes
  /\ SendFrame(payload) # <<>>
  /\ stream' = stream \o SendFrame(payload)
  /\ reported' = IF PayloadLen(Len(payload)) = 0 THEN reported ELSE Append(reported, payload)
  /\ sent' = IF PayloadLen(Len(payload)) = Len(payload) THEN Append(sent, payload) ELSE sent
  /\ UNCHANGED cuts

\* A ping, in which the stream takes all of the header (sendFrameNoPayload); the
\* device may go on with them for ever.
PingWhole ==
  /\ CanWrite /\ Len(stream) < MaxBytes
  /\ stream' = stream \o Header(Pingreq, 0)
  /\ UNCHANGED <<eof, writes, cuts, reported, sent, handled, session>>

\* write() takes the first k bytes of the frame only; the call returns false and
\* the connection is used as before.
WriteCut(frame, k) ==
  /\ Writes
  /\ stream' = stream \o SubSeq(frame, 1, k)
  /\ cuts' = cuts + 1
  /\ UNCHANGED <<reported, sent>>

\* The device's end goes, and with it what has not left the device.
Ends(k) ==
  /\ ~eof
  /\ eof' = TRUE
  /\ stream' = SubSeq(stream, 1, k)
  /\ UNCHANGED <<writes, cuts, reported, sent, handled, session>>

-----------------------------------------------------------------------------
(* The broker. *)

\* decode_header, big-endian.
Length == stream[3] * Base + stream[4]

Malformed ==
  \/ stream[1] \notin Types
  \/ stream[1] = Pingreq /\ Length # 0

\* readexactly() of the header and of the payload returns.
HasHeader == Len(stream) >= HeaderSize
HasFrame  == HasHeader /\ (Malformed \/ Len(stream) >= HeaderSize + Length)

\* Fault: what was received behind the frame goes with it.
RestNone == <<>>

\* What readexactly() leaves for the next frame.
Rest == SubSeq(stream, HeaderSize + Length + 1, Len(stream))

\* Fault: a payload that is no object is passed over.
ReadFrameLenient ==
  /\ session = "open" /\ HasFrame
  /\ LET payload == SubSeq(stream, HeaderSize + 1, HeaderSize + Length)
     IN /\ session' = IF Malformed THEN "ended" ELSE session
        /\ handled' = IF ~Malformed /\ IsJson(payload) THEN Append(handled, payload) ELSE handled
        /\ stream' = IF Malformed THEN <<>> ELSE Rest
  /\ UNCHANGED <<eof, writes, cuts, reported, sent>>

\* read_frame returns or raises ProtocolError, which ends the session.
ReadFrame ==
  /\ session = "open" /\ HasFrame
  /\ LET payload == SubSeq(stream, HeaderSize + 1, HeaderSize + Length)
         bad     == Malformed \/ (Length > 0 /\ ~IsJson(payload))
     IN /\ session' = IF bad THEN "ended" ELSE session
        /\ handled' = IF bad \/ Length = 0 THEN handled ELSE Append(handled, payload)
        /\ stream' = IF bad THEN <<>> ELSE Rest
  /\ UNCHANGED <<eof, writes, cuts, reported, sent>>

\* What is left of a session that ends is not read.
EndSession ==
  /\ session = "open" /\ session' = "ended"
  /\ stream' = <<>>
  /\ UNCHANGED <<eof, writes, cuts, reported, sent, handled>>

\* End of file in the midst of a frame or between two.
IncompleteRead == eof /\ ~HasFrame /\ EndSession

\* Fault: only the header is read under the time limit.
TimedOutHeader == ~HasHeader /\ EndSession

\* run() waits for a frame as long as its time limit.
TimedOut == ~HasFrame /\ EndSession

-----------------------------------------------------------------------------
Next ==
  \/ \E payload \in Texts :
       \/ PublishWhole(payload)
       \/ \E k \in 1 .. Len(SendFrame(payload)) - 1 : WriteCut(SendFrame(payload), k)
  \/ PingWhole
  \/ \E k \in 1 .. HeaderSize - 1 : WriteCut(Header(Pingreq, 0), k)
  \/ \E k \in 0 .. Len(stream) : Ends(k)
  \/ ReadFrame \/ IncompleteRead \/ TimedOut

Spec == Init /\ [][Next]_vars

\* The reader runs, and its time limit passes.
FairSpec == Spec /\ WF_vars(ReadFrame) /\ WF_vars(TimedOut)

-----------------------------------------------------------------------------
(* The stream is of bytes, and every payload that read_frame returns is    *)
(* one that an application published.                                      *)
TypeOK ==
  /\ stream \in Seq(0 .. Base - 1)
  /\ eof \in BOOLEAN /\ cuts \in Nat
  /\ writes \in 0 .. MaxFrames
  /\ reported \in Seq(Texts) /\ sent \in Seq(Texts) /\ handled \in Seq(Texts)
  /\ session \in {"open", "ended"}

(* What the broker handles is what was sent, in order and with nothing     *)
(* left out in between: after a write that went out in part, the bytes are *)
(* out of step and no later frame is taken for another one (read_frame).   *)
HandledSent == IsPrefix(handled, sent)

(* Once the broker has read all that the device wrote, and still serves it, *)
(* it has handled every message that went out whole: even out of step it    *)
(* does not read past one (read_frame takes the frame and no more).         *)
NothingSkipped ==
  session = "open" /\ stream = <<>> /\ ~eof => handled = sent

(* What publish() returned true for is handled, or the session is ended:   *)
(* when the broker has read all that the device wrote and still serves it, *)
(* a payload that was cut to fewer bytes by its 16-bit length, or that is  *)
(* no object for a quote in it, has not been passed over in silence.  The  *)
(* exception is a length of which 16 bits leave nothing: that payload goes *)
(* out as an empty one (sendFrame, read_frame).                            *)
ReportedHandled ==
  session = "open" /\ stream = <<>> /\ ~eof => handled = reported

(* Once a frame went out in part the session ends, even of a device that   *)
(* never stops writing to it: what follows the cut, as long as it is whole *)
(* itself, never brings the broker back into step, and the device does not *)
(* talk past it for ever.  Only a second cut may make up for the first,    *)
(* and without any the session need not end.                               *)
CutEnds == cuts = 1 ~> session = "ended" \/ cuts > 1
=============================================================================
