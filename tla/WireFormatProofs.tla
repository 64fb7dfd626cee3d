-------------------------- MODULE WireFormatProofs --------------------------
(***************************************************************************)
(* Theorems about WireFormat, for any values of a byte, lengths of the     *)
(* payloads, buffer and number of frames.                                  *)
(***************************************************************************)
EXTENDS WireFormat, SequenceTheorems, TLAPS

Bytes == 0 .. Base - 1

\* The frame of a payload lies among the bytes, behind the first s of them.
FrameIn(bytes, s, payload) ==
  /\ s + HeaderSize + Len(payload) <= Len(bytes)
  /\ bytes[s + 1] = Publish /\ bytes[s + 2] = Flags
  /\ bytes[s + 3] * Base + bytes[s + 4] = Len(payload)
  /\ \A i \in 1 .. Len(payload) : bytes[s + HeaderSize + i] = payload[i]

\* The messages that went out whole and have not been handled, and the byte at
\* which the frame of one ends that lies behind the first at[j].
Pending == Len(handled) + 1 .. Len(sent)
End(at, j) == at[j] + HeaderSize + Len(sent[j])

\* A brace at i does not end an object, unless it is byte 2 of the stream.
NoEnd(bytes, i) == bytes[i] = Close /\ bytes[i - 1] = Text => bytes[i - 2] = Flags

\* The pending messages K (all, unless the device's end has gone) lie in the stream
\* whole and in order, and an object ends where one of them does and nowhere else,
\* wherever in the stream the broker takes a frame to begin.
Good(K, at) ==
  /\ K \subseteq Pending /\ (~eof => K = Pending)
  /\ at \in [K -> Nat]
  /\ \A j \in K : Len(handled) + 1 .. j \subseteq K
  /\ \A j \in K : FrameIn(stream, at[j], sent[j])
  /\ \A i, j \in K : i < j => End(at, i) <= at[j]
  /\ \A i \in 3 .. Len(stream) : NoEnd(stream, i) \/ \E j \in K : i = End(at, j)

\* The next frame ends the session.
Doomed == stream # <<>> /\ stream[1] \notin Types

Framed == Doomed \/ \E K, at : Good(K, at)

Inv ==
  /\ TypeOK
  /\ HandledSent
  /\ session = "open" => Framed

-----------------------------------------------------------------------------
(* Numbers and sequences. *)

LEMMA Arithmetic ==
  /\ Base \in Nat /\ Base > 4
  /\ \A n \in Nat : n \div Base \in Nat /\ n % Base \in Bytes /\ n = (n \div Base) * Base + (n % Base)
  /\ \A n \in 0 .. MaxPayload : n \div Base \in Bytes /\ (n \div Base) % Base = n \div Base
  /\ \A x \in Nat : x >= 1 => x * Base >= Base /\ x * Base >= x
  /\ 0 * Base = 0 /\ 1 * Base = Base
<1>1. Base \in Nat /\ Base > 4
  BY WireFormatAssumption DEF Close
<1>2. ASSUME NEW n \in Nat
      PROVE  n \div Base \in Nat /\ n % Base \in Bytes /\ n = (n \div Base) * Base + (n % Base)
  BY <1>1 DEF Bytes
<1>3. ASSUME NEW n \in 0 .. MaxPayload
      PROVE  n \div Base \in Bytes /\ (n \div Base) % Base = n \div Base
  <2>1. n \in Nat /\ n < Base * Base
    BY <1>1, <1>3 DEF MaxPayload
  <2>2. n \div Base < Base /\ n \div Base \in Nat
    BY <1>1, <2>1
  <2>3. n \div Base \in 0 .. Base - 1
    BY <1>1, <2>2
  <2>4. \A m \in 0 .. Base - 1 : m % Base = m
    BY <1>1
  <2>5. QED
    BY <2>3, <2>4 DEF Bytes
<1>4. ASSUME NEW x \in Nat, x >= 1 PROVE x * Base >= Base /\ x * Base >= x
  BY <1>1, <1>4
<1>5. QED
  BY <1>1, <1>2, <1>3, <1>4

LEMMA Products ==
  ASSUME NEW h \in Nat
  PROVE  /\ h * Base \in Nat /\ (h = 0 => h * Base = 0)
         /\ (h # 0 => h * Base >= Base /\ h * Base >= h)
<1>1. h = 0 \/ h >= 1
  OBVIOUS
<1>2. h = 0 => h * Base = 0
  BY Arithmetic
<1>3. h >= 1 => h * Base >= Base /\ h * Base >= h
  BY Arithmetic
<1>4. h * Base \in Nat
  BY Arithmetic
<1>5. QED
  BY <1>1, <1>2, <1>3, <1>4

LEMMA Prefix ==
  ASSUME NEW S, NEW s \in Seq(S), NEW t \in Seq(S)
  PROVE  IsPrefix(s, t) <=> Len(s) <= Len(t) /\ \A i \in 1 .. Len(s) : s[i] = t[i]
<1>1. Len(s) \in Nat /\ Len(t) \in Nat
  OBVIOUS
<1>2. SubSeq(s, 1, Len(s)) = s
  OBVIOUS
<1>3. ASSUME Len(s) <= Len(t)
      PROVE  /\ SubSeq(t, 1, Len(s)) \in Seq(S) /\ Len(SubSeq(t, 1, Len(s))) = Len(s)
             /\ \A i \in 1 .. Len(s) : SubSeq(t, 1, Len(s))[i] = t[i]
  BY <1>1, <1>3
<1>4. ASSUME Len(s) <= Len(t), \A i \in 1 .. Len(s) : s[i] = t[i]
      PROVE  s = SubSeq(t, 1, Len(s))
  BY <1>3, <1>4, SeqEqual
<1>5. QED
  BY <1>2, <1>3, <1>4 DEF IsPrefix

LEMMA Concat ==
  ASSUME NEW S, NEW s \in Seq(S), NEW c \in Seq(S)
  PROVE  /\ s \o c \in Seq(S) /\ Len(s) \in Nat /\ Len(c) \in Nat
         /\ Len(s \o c) = Len(s) + Len(c)
         /\ \A i \in 1 .. Len(s) : (s \o c)[i] = s[i]
         /\ \A i \in 1 .. Len(c) : (s \o c)[Len(s) + i] = c[i]
  OBVIOUS

LEMMA Middle ==
  ASSUME NEW S, NEW s \in Seq(S), NEW a \in Nat, NEW l \in Nat, a + l <= Len(s)
  PROVE  LET t == SubSeq(s, a + 1, a + l)
         IN  t \in Seq(S) /\ Len(t) = l /\ \A i \in 1 .. l : t[i] = s[a + i]
<1>1. /\ Len(s) \in Nat /\ a + 1 \in 1 .. Len(s) + 1 /\ a + l \in 0 .. Len(s)
      /\ (a + l) - (a + 1) + 1 = l /\ \A i \in 1 .. l : (a + 1) + i - 1 = a + i
  OBVIOUS
<1>2. /\ SubSeq(s, a + 1, a + l) \in Seq(S)
      /\ Len(SubSeq(s, a + 1, a + l)) =
           IF a + 1 <= a + l THEN (a + l) - (a + 1) + 1 ELSE 0
      /\ \A i \in 1 .. (a + l) - (a + 1) + 1 :
           SubSeq(s, a + 1, a + l)[i] = s[(a + 1) + i - 1]
  BY <1>1, SubSeqProperties
<1>3. (IF a + 1 <= a + l THEN (a + l) - (a + 1) + 1 ELSE 0) = l
  BY <1>1
<1>4. QED
  BY <1>1, <1>2, <1>3

LEMMA Begin ==
  ASSUME NEW S, NEW s \in Seq(S), NEW k \in 0 .. Len(s)
  PROVE  /\ SubSeq(s, 1, k) \in Seq(S) /\ Len(SubSeq(s, 1, k)) = k
         /\ \A i \in 1 .. k : SubSeq(s, 1, k)[i] = s[i]
<1>1. Len(s) \in Nat
  OBVIOUS
<1>2. QED
  BY <1>1

LEMMA Rear ==
  ASSUME NEW S, NEW s \in Seq(S), NEW k \in 0 .. Len(s)
  PROVE  LET t == SubSeq(s, k + 1, Len(s))
         IN  /\ t \in Seq(S) /\ Len(t) = Len(s) - k
             /\ \A i \in 1 .. Len(t) : t[i] = s[k + i]
<1>1. Len(s) \in Nat /\ k + 1 \in Int /\ \A i \in k + 1 .. Len(s) : s[i] \in S
  BY LenProperties, ElementOfSeq
<1>2. /\ SubSeq(s, k + 1, Len(s)) \in Seq(S)
      /\ Len(SubSeq(s, k + 1, Len(s))) =
           IF k + 1 <= Len(s) THEN Len(s) - (k + 1) + 1 ELSE 0
      /\ \A i \in 1 .. Len(s) - (k + 1) + 1 :
           SubSeq(s, k + 1, Len(s))[i] = s[k + 1 + i - 1]
  BY <1>1, SubSeqProperties
<1>3. QED
  BY <1>1, <1>2

(* The texts of payloads.                                                  *)
LEMMA TextBytes ==
  ASSUME NEW p \in Texts
  PROVE  /\ p \in Seq(Bytes) /\ Len(p) \in Nat /\ Len(p) > 2
         /\ \A i \in 1 .. Len(p) : p[i] \in {Text, Close} /\ (p[i] = Close => i = Len(p))
<1>1. Text \in Bytes /\ Close \in Bytes /\ Text # Close
  BY Arithmetic DEF Text, Close, Bytes
<1>2. PICK n \in Lengths : p = Json(n) \/ p = Unquoted(n)
  BY DEF Texts
<1>3. n \in Nat /\ n > 2
  BY WireFormatAssumption DEF Pingreq
<1>4. /\ Json(n) \in Seq(Bytes) /\ Len(Json(n)) = n
      /\ \A i \in 1 .. n : Json(n)[i] = IF i = n THEN Close ELSE Text
  BY <1>1, <1>3 DEF Json
<1>5. /\ Unquoted(n) \in Seq(Bytes) /\ Len(Unquoted(n)) = n
      /\ \A i \in 1 .. n : Unquoted(n)[i] = Text
  BY <1>1, <1>3 DEF Unquoted
<1>6. QED
  BY <1>1, <1>2, <1>3, <1>4, <1>5

-----------------------------------------------------------------------------
(* What the library writes. *)

\* A brace at q of what is written does not end an object.
Quiet(bytes, q) == bytes[q] = Close => q # 1 /\ (bytes[q - 1] = Text => q # 2 /\ bytes[q - 2] = Flags)

(* A frame of sendFrame: its header says how much of the payload follows.  *)
LEMMA SendFrameBytes ==
  ASSUME NEW p \in Texts, SendFrame(p) # <<>>
  PROVE  LET f == SendFrame(p)
             n == PayloadLen(Len(p))
         IN  /\ n \in Nat /\ n <= Len(p) /\ n <= MaxPayload
             /\ f = Header(Publish, n) \o SubSeq(p, 1, n)
             /\ f \in Seq(Bytes) /\ Len(f) = HeaderSize + n
             /\ f[1] = Publish /\ f[2] = Flags /\ f[3] * Base + f[4] = n
             /\ f[3] \in Bytes /\ f[4] \in Bytes
             /\ \A i \in 1 .. n : f[HeaderSize + i] = p[i]
<1> DEFINE n == PayloadLen(Len(p))
           h == Header(Publish, n)
           t == SubSeq(p, 1, n)
<1>1. /\ p \in Seq(Bytes) /\ Len(p) \in Nat /\ Base \in Nat /\ Base > 4
      /\ Base * Base \in Nat /\ Base * Base > 0
  BY TextBytes, Arithmetic
<1>2. n \in Nat /\ n <= Len(p) /\ n <= MaxPayload
  <2>1. \A a, b \in Nat : b > 0 => a % b \in 0 .. b - 1 /\ a % b <= a
    OBVIOUS
  <2>2. QED
    BY <1>1, <2>1 DEF PayloadLen, MaxPayload
<1>3. SendFrame(p) = h \o t
  BY DEF SendFrame
<1> HIDE DEF n
<1>4. /\ n \div Base \in Bytes /\ (n \div Base) % Base = n \div Base /\ n % Base \in Bytes
      /\ (n \div Base) * Base + (n % Base) = n
  <2>1. n \in 0 .. MaxPayload
    BY <1>1, <1>2 DEF MaxPayload
  <2>2. n \div Base \in Bytes /\ (n \div Base) % Base = n \div Base
    BY <2>1, Arithmetic
  <2>3. n % Base \in Bytes /\ n = (n \div Base) * Base + (n % Base)
    BY <1>2, Arithmetic
  <2>4. QED
    BY <2>2, <2>3
<1>5. h = <<Publish, Flags, n \div Base, n % Base>>
  BY <1>4 DEF Header
<1>6. Publish \in Bytes /\ Flags \in Bytes
  BY <1>1 DEF Publish, Flags, Bytes
<1>7. /\ h \in Seq(Bytes) /\ Len(h) = 4
      /\ h[1] = Publish /\ h[2] = Flags /\ h[3] = n \div Base /\ h[4] = n % Base
  BY <1>4, <1>5, <1>6
<1>8. t \in Seq(Bytes) /\ Len(t) = n /\ \A i \in 1 .. n : t[i] = p[i]
  <2>1. n \in 0 .. Len(p)
    BY <1>1, <1>2
  <2>2. QED
    BY <1>1, <2>1, Begin
<1> HIDE DEF h, t
<1>9. /\ h \o t \in Seq(Bytes) /\ Len(h \o t) = 4 + n
      /\ \A i \in 1 .. 4 : (h \o t)[i] = h[i]
      /\ \A i \in 1 .. n : (h \o t)[4 + i] = t[i]
  <2>1. /\ h \o t \in Seq(Bytes) /\ Len(h \o t) = Len(h) + Len(t)
        /\ \A i \in 1 .. Len(h) : (h \o t)[i] = h[i]
        /\ \A i \in 1 .. Len(t) : (h \o t)[Len(h) + i] = t[i]
    <3>1. h \in Seq(Bytes) /\ t \in Seq(Bytes)
      BY <1>7, <1>8
    <3>2. QED
      BY <3>1, Concat
  <2>2. Len(h) = 4 /\ Len(t) = n
    BY <1>7, <1>8
  <2>3. Len(h \o t) = 4 + n
    BY <2>1, <2>2
  <2>4. QED
    BY <2>1, <2>2, <2>3
<1>10. QED
  BY <1>2, <1>3, <1>4, <1>7, <1>8, <1>9 DEF n, h, t, HeaderSize

(* In a frame that is cut or wrapped no object ends, and in a whole one an *)
(* object ends at its last byte at the earliest.                           *)
LEMMA SendFrameQuiet ==
  ASSUME NEW p \in Texts, SendFrame(p) # <<>>, NEW q \in 1 .. Len(SendFrame(p)),
         q < Len(SendFrame(p)) \/ PayloadLen(Len(p)) # Len(p)
  PROVE  Quiet(SendFrame(p), q)
<1> DEFINE f == SendFrame(p)
           n == PayloadLen(Len(p))
<1>1. /\ n \in Nat /\ n <= Len(p) /\ Len(f) = 4 + n
      /\ f[1] = Publish /\ f[2] = Flags
      /\ \A i \in 1 .. n : f[4 + i] = p[i]
  BY SendFrameBytes DEF HeaderSize
<1>2. /\ Len(p) \in Nat /\ \A i \in 1 .. Len(p) : p[i] = Close => i = Len(p)
  BY TextBytes
<1> HIDE DEF f, n
<1>3. q \in 1 .. Len(f) /\ (q < Len(f) \/ n # Len(p))
  BY DEF f, n
<1>4. CASE q >= 5
  <2>1. q - 4 \in 1 .. n /\ q - 4 \in 1 .. Len(p) /\ 4 + (q - 4) = q
    BY <1>1, <1>2, <1>3, <1>4
  <2>2. f[q] = p[q - 4]
    BY <1>1, <2>1
  <2>3. q - 4 # Len(p)
    BY <1>1, <1>2, <1>3, <1>4
  <2>4. QED
    BY <1>2, <2>1, <2>2, <2>3 DEF Quiet, f
<1>5. CASE q \in {1, 2, 3, 4}
  BY <1>1, <1>5 DEF Quiet, Publish, Flags, Close, Text, f
<1>6. QED
  BY <1>1, <1>3, <1>4, <1>5

LEMMA PingBytes ==
  /\ Header(Pingreq, 0) \in Seq(Bytes) /\ Len(Header(Pingreq, 0)) = 4
  /\ \A q \in 1 .. 4 : Quiet(Header(Pingreq, 0), q)
<1>1. /\ 0 \in Bytes /\ Pingreq \in Bytes /\ 0 % Base = 0 /\ 0 \div Base = 0
  BY Arithmetic DEF Bytes, Pingreq
<1>2. Header(Pingreq, 0) = <<Pingreq, 0, 0, 0>>
  BY <1>1 DEF Header, Flags
<1>3. /\ Header(Pingreq, 0) \in Seq(Bytes) /\ Len(Header(Pingreq, 0)) = 4
      /\ \A q \in 1 .. 4 : Header(Pingreq, 0)[q] \in {Pingreq, 0}
  <2> DEFINE h == <<Pingreq, 0, 0, 0>>
  <2>1. h \in Seq(Bytes) /\ Len(h) = 4
    BY <1>1
  <2>2. h[1] = Pingreq /\ h[2] = 0 /\ h[3] = 0 /\ h[4] = 0
    OBVIOUS
  <2> HIDE DEF h
  <2>3. \A q \in 1 .. 4 : q = 1 \/ q = 2 \/ q = 3 \/ q = 4
    OBVIOUS
  <2>4. \A q \in 1 .. 4 : h[q] \in {Pingreq, 0}
    BY <2>2, <2>3
  <2>5. QED
    BY <1>2, <2>1, <2>4 DEF h
<1>4. QED
  BY <1>3 DEF Quiet, Pingreq, Close

-----------------------------------------------------------------------------
(* How the stream changes. *)

(* A frame stays one when other bytes are added or taken away.             *)
LEMMA FrameMoved ==
  ASSUME NEW old, NEW new, NEW s \in Nat, NEW d \in Nat, d <= s, NEW p, Len(p) \in Nat,
         FrameIn(old, s, p), s - d + HeaderSize + Len(p) <= Len(new),
         \A i \in 1 .. s - d + HeaderSize + Len(p) : new[i] = old[d + i]
  PROVE  FrameIn(new, s - d, p)
<1> DEFINE n == Len(p)
<1>1. s - d \in Nat /\ n \in Nat
  OBVIOUS
<1> HIDE DEF n
<1>2. \A i \in 1 .. s - d + 4 + n : new[i] = old[d + i]
  BY DEF HeaderSize, n
<1>3. \A i \in 1 .. 4 + n : s - d + i \in 1 .. s - d + 4 + n /\ d + (s - d + i) = s + i
  BY <1>1
<1>4. \A i \in 1 .. 4 + n : new[s - d + i] = old[s + i]
  BY <1>2, <1>3
<1>5. /\ new[s - d + 1] = old[s + 1] /\ new[s - d + 2] = old[s + 2]
      /\ new[s - d + 3] = old[s + 3] /\ new[s - d + 4] = old[s + 4]
  BY <1>1, <1>4
<1>6. ASSUME NEW i \in 1 .. n PROVE new[s - d + 4 + i] = old[s + 4 + i]
  <2>1. 4 + i \in 1 .. 4 + n /\ s - d + (4 + i) = s - d + 4 + i /\ s + (4 + i) = s + 4 + i
    BY <1>1
  <2>2. QED
    BY <1>4, <2>1
<1>7. QED
  BY <1>5, <1>6 DEF FrameIn, HeaderSize, n

LEMMA Sents ==
  ASSUME TypeOK
  PROVE  /\ Len(sent) \in Nat /\ Len(handled) \in Nat /\ Len(stream) \in Nat
         /\ \A i \in 1 .. Len(stream) : stream[i] \in Bytes /\ stream[i] \in Nat
         /\ \A j \in 1 .. Len(sent) :
              sent[j] \in Texts /\ Len(sent[j]) \in Nat /\ Len(sent[j]) > 2
<1>1. sent \in Seq(Texts) /\ handled \in Seq(Texts) /\ stream \in Seq(Bytes)
  BY DEF TypeOK, Bytes
<1>2. \A j \in 1 .. Len(sent) : sent[j] \in Texts
  BY <1>1
<1>3. \A b \in Bytes : b \in Nat
  BY Arithmetic DEF Bytes
<1>4. QED
  BY <1>1, <1>2, <1>3, TextBytes

(* The numbers of a frame that lies in the stream.                         *)
LEMMA GoodFrames ==
  ASSUME TypeOK, NEW K, NEW at, Good(K, at), NEW j \in K
  PROVE  /\ j \in Nat /\ j > Len(handled) /\ j \in 1 .. Len(sent)
         /\ at[j] \in Nat /\ Len(sent[j]) \in Nat /\ Len(sent[j]) > 2
         /\ End(at, j) = at[j] + 4 + Len(sent[j]) /\ End(at, j) <= Len(stream)
         /\ FrameIn(stream, at[j], sent[j])
<1>1. j \in Pending /\ at[j] \in Nat /\ FrameIn(stream, at[j], sent[j])
  BY DEF Good
<1>2. j \in Nat /\ j > Len(handled) /\ j \in 1 .. Len(sent)
  BY <1>1, Sents DEF Pending
<1>3. Len(sent[j]) \in Nat /\ Len(sent[j]) > 2
  BY <1>2, Sents
<1>4. End(at, j) = at[j] + 4 + Len(sent[j]) /\ End(at, j) <= Len(stream)
  BY <1>1 DEF End, FrameIn, HeaderSize
<1>5. QED
  BY <1>1, <1>2, <1>3, <1>4

(* Bytes that are added behind the stream: the frames stay, and objects    *)
(* end where they ended, or where they end in the bytes.                   *)
LEMMA Appended ==
  ASSUME TypeOK, NEW K, NEW at, Good(K, at), NEW c \in Seq(Bytes), stream' = stream \o c
  PROVE  /\ Len(stream') = Len(stream) + Len(c)
         /\ \A i \in 1 .. Len(stream) : stream'[i] = stream[i]
         /\ \A i \in 1 .. Len(c) : stream'[Len(stream) + i] = c[i]
         /\ \A j \in K : FrameIn(stream', at[j], sent[j])
         /\ \A i \in 3 .. Len(stream') :
              \/ NoEnd(stream', i)
              \/ \E j \in K : i = End(at, j)
              \/ i - Len(stream) \in 1 .. Len(c) /\ ~Quiet(c, i - Len(stream))
<1>1. /\ Len(stream) \in Nat /\ Len(c) \in Nat /\ Len(stream') = Len(stream) + Len(c)
      /\ \A i \in 1 .. Len(stream) : stream'[i] = stream[i]
      /\ \A i \in 1 .. Len(c) : stream'[Len(stream) + i] = c[i]
  <2>1. stream \in Seq(Bytes)
    BY DEF TypeOK, Bytes
  <2>2. QED
    BY <2>1, Concat
<1>2. PICK m \in Nat : m = Len(stream)
  BY <1>1
<1>3. PICK l \in Nat : l = Len(c)
  BY <1>1
<1>4. Len(stream') = m + l /\ m \in Nat /\ l \in Nat
  BY <1>1, <1>2, <1>3
<1>5. ASSUME NEW j \in K PROVE FrameIn(stream', at[j], sent[j])
  <2>1. /\ at[j] \in Nat /\ Len(sent[j]) \in Nat /\ at[j] + 4 + Len(sent[j]) <= m
        /\ FrameIn(stream, at[j], sent[j])
    BY <1>2, <1>5, GoodFrames
  <2>2. /\ at[j] - 0 = at[j] /\ 0 <= at[j]
        /\ at[j] - 0 + HeaderSize + Len(sent[j]) <= Len(stream')
    BY <1>2, <1>3, <1>4, <2>1 DEF HeaderSize
  <2>3. \A i \in 1 .. at[j] - 0 + HeaderSize + Len(sent[j]) : stream'[i] = stream[0 + i]
    BY <1>1, <1>2, <2>1, <2>2 DEF HeaderSize
  <2>4. FrameIn(stream', at[j] - 0, sent[j])
    BY <2>1, <2>2, <2>3, FrameMoved
  <2>5. QED
    BY <2>2, <2>4
<1>6. ASSUME NEW i \in 3 .. Len(stream')
      PROVE  \/ NoEnd(stream', i)
             \/ \E j \in K : i = End(at, j)
             \/ i - Len(stream) \in 1 .. Len(c) /\ ~Quiet(c, i - Len(stream))
  <2>1. i \in 3 .. m + l
    BY <1>4
  <2>2. CASE i <= m
    <3>1. i \in 3 .. Len(stream) /\ i \in 1 .. m /\ i - 1 \in 1 .. m /\ i - 2 \in 1 .. m
      BY <1>2, <2>1, <2>2
    <3>2. stream'[i] = stream[i] /\ stream'[i - 1] = stream[i - 1] /\ stream'[i - 2] = stream[i - 2]
      BY <1>1, <1>2, <3>1
    <3>3. QED
      BY <3>1, <3>2 DEF Good, NoEnd
  <2>3. CASE i > m /\ Quiet(c, i - m)
    <3> DEFINE q == i - m
    <3>1. q \in 1 .. l /\ m + q = i
      BY <1>2, <1>3, <2>1, <2>3
    <3>2. stream'[i] = c[q]
      BY <1>1, <1>2, <1>3, <3>1
    <3>3. q # 1 => q - 1 \in 1 .. l /\ m + (q - 1) = i - 1
      BY <1>4, <2>1, <3>1
    <3>4. q # 1 /\ q # 2 => q - 2 \in 1 .. l /\ m + (q - 2) = i - 2
      BY <1>4, <2>1, <3>1
    <3>5. q # 1 => stream'[i - 1] = c[q - 1]
      BY <1>1, <1>2, <1>3, <3>3
    <3>6. q # 1 /\ q # 2 => stream'[i - 2] = c[q - 2]
      BY <1>1, <1>2, <1>3, <3>4
    <3>7. Quiet(c, q)
      BY <2>3
    <3> HIDE DEF q
    <3>8. QED
      BY <3>2, <3>5, <3>6, <3>7 DEF Quiet, NoEnd
  <2>4. CASE i > m /\ ~Quiet(c, i - m)
    <3>1. i - m \in 1 .. l
      BY <1>2, <1>3, <2>1, <2>4
    <3>2. QED
      BY <1>2, <1>3, <2>4, <3>1
  <2>5. QED
    BY <1>2, <2>1, <2>2, <2>3, <2>4
<1>7. QED
  BY <1>1, <1>5, <1>6

(* A frame that is cut or wrapped, or a ping, is written.                  *)
LEMMA AppendQuiet ==
  ASSUME TypeOK, NEW K, NEW at, Good(K, at), NEW c \in Seq(Bytes), stream' = stream \o c,
         \A q \in 1 .. Len(c) : Quiet(c, q), UNCHANGED <<eof, sent, handled>>
  PROVE  Good(K, at)'
<1>1. /\ \A j \in K : FrameIn(stream', at[j], sent[j])
      /\ \A i \in 3 .. Len(stream') :
           \/ NoEnd(stream', i)
           \/ \E j \in K : i = End(at, j)
           \/ i - Len(stream) \in 1 .. Len(c) /\ ~Quiet(c, i - Len(stream))
  BY Appended
<1>2. QED
  BY <1>1 DEF Good, Pending, End

(* A frame that holds all of its payload is written.                       *)
LEMMA AppendFrame ==
  ASSUME TypeOK, Len(handled) <= Len(sent), ~eof, NEW K, NEW at, Good(K, at),
         NEW p \in Texts, SendFrame(p) # <<>>, PayloadLen(Len(p)) = Len(p),
         stream' = stream \o SendFrame(p), sent' = Append(sent, p), UNCHANGED <<eof, handled>>
  PROVE  \E K2, at2 : Good(K2, at2)'
<1>a. PICK f : f = SendFrame(p)
  OBVIOUS
<1>b. PICK n : n = Len(p)
  OBVIOUS
<1>c. PICK m : m = Len(stream)
  OBVIOUS
<1>d. PICK new : new = Len(sent) + 1
  OBVIOUS
<1> DEFINE K2 == K \cup {new}
           at2 == [j \in K2 |-> IF j = new THEN m ELSE at[j]]
<1>1. /\ n \in Nat /\ f \in Seq(Bytes) /\ Len(f) = 4 + n
      /\ f[1] = Publish /\ f[2] = Flags /\ f[3] * Base + f[4] = n
      /\ \A i \in 1 .. n : f[4 + i] = p[i]
  BY <1>a, <1>b, SendFrameBytes DEF HeaderSize
<1>2. \A q \in 1 .. Len(f) : q < Len(f) => Quiet(f, q)
  BY <1>a, SendFrameQuiet
<1>3. /\ m \in Nat /\ new \in Nat /\ Len(sent) \in Nat /\ Len(handled) \in Nat
      /\ Len(sent') = new /\ sent'[new] = p
      /\ \A j \in 1 .. Len(sent) : sent'[j] = sent[j]
  <2>1. sent \in Seq(Texts)
    BY DEF TypeOK
  <2>2. QED
    BY <1>c, <1>d, <2>1, Sents, AppendProperties
<1>4. /\ Len(stream') = m + Len(f)
      /\ \A i \in 1 .. Len(f) : stream'[m + i] = f[i]
      /\ \A j \in K : FrameIn(stream', at[j], sent[j])
      /\ \A i \in 3 .. Len(stream') :
           \/ NoEnd(stream', i)
           \/ \E j \in K : i = End(at, j)
           \/ i - m \in 1 .. Len(f) /\ ~Quiet(f, i - m)
  <2>1. f \in Seq(Bytes) /\ stream' = stream \o f
    BY <1>a, <1>1
  <2>2. /\ Len(stream') = Len(stream) + Len(f)
        /\ \A i \in 1 .. Len(f) : stream'[Len(stream) + i] = f[i]
        /\ \A j \in K : FrameIn(stream', at[j], sent[j])
        /\ \A i \in 3 .. Len(stream') :
             \/ NoEnd(stream', i)
             \/ \E j \in K : i = End(at, j)
             \/ i - Len(stream) \in 1 .. Len(f) /\ ~Quiet(f, i - Len(stream))
    BY <2>1, Appended
  <2>3. QED
    BY <1>c, <2>2
<1>5. K = Len(handled) + 1 .. Len(sent) /\ at \in [K -> Nat]
  BY DEF Good, Pending
<1>6. /\ K2 = Pending' /\ new \notin K /\ at2 \in [K2 -> Nat] /\ new \in K2
      /\ at2[new] = m /\ \A j \in K : at2[j] = at[j] /\ j \in K2
  <2>1. Pending' = Len(handled) + 1 .. new
    BY <1>3 DEF Pending
  <2>2. K2 = Pending' /\ new \notin K
    BY <1>d, <1>3, <1>5, <2>1
  <2>3. QED
    BY <1>3, <1>5, <2>2
<1>7. \A j \in K2 : j \in K \/ j = new
  OBVIOUS
<1> HIDE DEF K2, at2
<1>8. ASSUME NEW j \in K
      PROVE  /\ j \in K2 /\ j < new /\ j \in Nat /\ sent'[j] = sent[j]
             /\ End(at2, j)' = End(at, j) /\ End(at, j) <= m
  <2>1. j \in 1 .. Len(sent) /\ End(at, j) <= m
    BY <1>c, <1>8, GoodFrames
  <2>2. sent'[j] = sent[j] /\ at2[j] = at[j] /\ j \in K2
    BY <1>3, <1>6, <1>8, <2>1
  <2>3. End(at2, j)' = End(at, j)
    BY <2>2 DEF End
  <2>4. j < new /\ j \in Nat
    BY <1>d, <1>3, <2>1
  <2>5. QED
    BY <2>1, <2>2, <2>3, <2>4
<1>9. FrameIn(stream', m, p)
  <2>1. Len(stream') = m + (4 + n) /\ m \in Nat /\ n \in Nat
    BY <1>1, <1>3, <1>4
  <2>2. 1 \in 1 .. Len(f) /\ 2 \in 1 .. Len(f) /\ 3 \in 1 .. Len(f) /\ 4 \in 1 .. Len(f)
    BY <1>1
  <2>3. /\ stream'[m + 1] = f[1] /\ stream'[m + 2] = f[2]
        /\ stream'[m + 3] = f[3] /\ stream'[m + 4] = f[4]
    BY <1>4, <2>2
  <2>4. ASSUME NEW i \in 1 .. n PROVE stream'[m + 4 + i] = p[i]
    <3>1. 4 + i \in 1 .. Len(f) /\ m + (4 + i) = m + 4 + i
      BY <1>1, <2>1
    <3>2. QED
      BY <1>1, <1>4, <3>1
  <2>5. m + 4 + n <= Len(stream')
    BY <2>1
  <2>6. QED
    BY <1>b, <1>1, <2>3, <2>4, <2>5 DEF FrameIn, HeaderSize
<1>10. ASSUME NEW j \in K2 PROVE FrameIn(stream', at2[j], sent'[j])
  <2>1. CASE j = new
    BY <1>3, <1>6, <1>9, <2>1
  <2>2. CASE j \in K
    BY <1>4, <1>6, <1>8, <2>2
  <2>3. QED
    BY <1>7, <2>1, <2>2
<1>11. ASSUME NEW i \in K2, NEW j \in K2, i < j PROVE End(at2, i)' <= at2[j]
  <2>1. i \in K
    BY <1>3, <1>7, <1>8, <1>11
  <2>2. CASE j = new
    BY <1>6, <1>8, <2>1, <2>2
  <2>3. CASE j \in K
    <3>1. End(at, i) <= at[j]
      BY <1>11, <2>1, <2>3 DEF Good
    <3>2. QED
      BY <1>6, <1>8, <2>1, <2>3, <3>1
  <2>4. QED
    BY <1>7, <2>2, <2>3
<1>12. ASSUME NEW i \in 3 .. Len(stream')
       PROVE  NoEnd(stream', i) \/ \E j \in K2 : i = End(at2, j)'
  <2>1. CASE \E j \in K : i = End(at, j)
    BY <1>8, <2>1
  <2>2. CASE i - m \in 1 .. Len(f) /\ ~Quiet(f, i - m)
    <3>1. i - m = 4 + n /\ m \in Nat /\ n \in Nat
      <4>1. ~(i - m < Len(f))
        BY <1>2, <2>2
      <4>2. QED
        BY <1>1, <1>3, <2>2, <4>1
    <3>2. i = m + 4 + n
      BY <3>1
    <3>3. End(at2, new)' = m + 4 + n
      <4>1. Len(sent'[new]) = n
        BY <1>b, <1>3
      <4>2. QED
        BY <1>6, <4>1 DEF End, HeaderSize
    <3>4. QED
      BY <1>6, <3>2, <3>3
  <2>3. QED
    BY <1>4, <2>1, <2>2
<1>13. \A j \in K2 : Len(handled') + 1 .. j \subseteq K2
  <2>1. K2 = Len(handled) + 1 .. new
    BY <1>3, <1>6 DEF Pending
  <2>2. QED
    BY <1>3, <2>1
<1>14. Good(K2, at2)'
  BY <1>6, <1>10, <1>11, <1>12, <1>13 DEF Good
<1>15. QED
  BY <1>14

(* The device's end goes: what has not left it is not in the stream.       *)
LEMMA CutShort ==
  ASSUME TypeOK, NEW K, NEW at, Good(K, at), NEW k \in 0 .. Len(stream),
         stream' = SubSeq(stream, 1, k), eof', UNCHANGED <<sent, handled>>
  PROVE  \E K2, at2 : Good(K2, at2)'
<1>1. PICK K2 : K2 = {j \in K : End(at, j) <= k}
  OBVIOUS
<1>2. PICK at2 : at2 = [j \in K2 |-> at[j]]
  OBVIOUS
<1>3. /\ k \in Nat /\ Len(stream) \in Nat /\ k <= Len(stream) /\ Len(stream') = k
      /\ \A i \in 1 .. k : stream'[i] = stream[i]
  <2>1. stream \in Seq(Bytes) /\ Len(stream) \in Nat
    BY Sents DEF TypeOK, Bytes
  <2>2. QED
    BY <2>1, Begin
<1>4. ASSUME NEW j \in K
      PROVE  /\ j \in Nat /\ at[j] \in Nat /\ Len(sent[j]) \in Nat
             /\ End(at, j) = at[j] + 4 + Len(sent[j])
             /\ FrameIn(stream, at[j], sent[j])
             /\ j \in K2 => End(at, j) <= k
  BY <1>1, <1>4, GoodFrames
<1>5. K2 \subseteq Pending' /\ at2 \in [K2 -> Nat]
  BY <1>1, <1>2, <1>4 DEF Good, Pending
<1>6. \A j \in K2 : j \in K /\ at2[j] = at[j] /\ End(at2, j)' = End(at, j)
  BY <1>1, <1>2 DEF End
<1>7. ASSUME NEW j \in K2, NEW i \in Len(handled') + 1 .. j PROVE i \in K2
  <2>1. i \in K /\ j \in K
    BY <1>6, <1>7 DEF Good
  <2>2. CASE i = j
    BY <2>2
  <2>3. CASE i < j
    <3>1. End(at, i) <= at[j]
      BY <2>1, <2>3 DEF Good
    <3>2. at[j] <= End(at, j)
      BY <1>4, <2>1
    <3>3. End(at, i) <= k
      <4>1. End(at, i) \in Nat /\ End(at, j) \in Nat /\ at[j] \in Nat
        <5>1. \A a, n \in Nat : a + 4 + n \in Nat
          OBVIOUS
        <5>2. QED
          BY <1>4, <2>1, <5>1
      <4>2. End(at, j) <= k
        BY <1>4, <1>7, <2>1
      <4>3. QED
        BY <1>3, <3>1, <3>2, <4>1, <4>2
    <3>4. QED
      BY <1>1, <2>1, <3>3
  <2>4. QED
    BY <1>4, <2>1, <2>2, <2>3
<1>8. ASSUME NEW j \in K2 PROVE FrameIn(stream', at2[j], sent'[j])
  <2>1. /\ j \in K /\ at[j] \in Nat /\ Len(sent[j]) \in Nat /\ at[j] + 4 + Len(sent[j]) <= k
        /\ FrameIn(stream, at[j], sent[j])
    BY <1>4, <1>6, <1>8
  <2>2. /\ at[j] - 0 = at[j] /\ 0 <= at[j]
        /\ at[j] - 0 + HeaderSize + Len(sent[j]) <= Len(stream')
    BY <1>3, <2>1 DEF HeaderSize
  <2>3. \A i \in 1 .. at[j] - 0 + HeaderSize + Len(sent[j]) : stream'[i] = stream[0 + i]
    BY <1>3, <2>1, <2>2 DEF HeaderSize
  <2>4. FrameIn(stream', at[j] - 0, sent[j])
    BY <2>1, <2>2, <2>3, FrameMoved
  <2>5. QED
    BY <1>6, <1>8, <2>2, <2>4
<1>9. \A i, j \in K2 : i < j => End(at2, i)' <= at2[j]
  BY <1>6 DEF Good
<1>10. ASSUME NEW i \in 3 .. Len(stream')
       PROVE  NoEnd(stream', i) \/ \E j \in K2 : i = End(at2, j)'
  <2>1. i \in 3 .. Len(stream) /\ i \in 1 .. k /\ i - 1 \in 1 .. k /\ i - 2 \in 1 .. k
    BY <1>3
  <2>2. stream'[i] = stream[i] /\ stream'[i - 1] = stream[i - 1] /\ stream'[i - 2] = stream[i - 2]
    BY <1>3, <2>1
  <2>3. CASE NoEnd(stream, i)
    BY <2>2, <2>3 DEF NoEnd
  <2>4. ASSUME NEW j \in K, i = End(at, j) PROVE j \in K2 /\ i = End(at2, j)'
    BY <1>1, <1>6, <2>1, <2>4
  <2>5. QED
    BY <2>1, <2>3, <2>4 DEF Good
<1>11. Good(K2, at2)'
  BY <1>5, <1>7, <1>8, <1>9, <1>10 DEF Good
<1>12. QED
  BY <1>11

(* The first d bytes are read, and with them the pending messages that     *)
(* begin there.                                                            *)
LEMMA Shifted ==
  ASSUME TypeOK, NEW K, NEW at, Good(K, at), NEW d \in 0 .. Len(stream),
         stream' = SubSeq(stream, d + 1, Len(stream)), UNCHANGED <<eof, sent>>,
         NEW K2 \in SUBSET K, K2 \subseteq Pending', ~eof => K2 = Pending',
         \A j \in K2 : Len(handled') + 1 .. j \subseteq K2,
         \A j \in K2 : at[j] >= d, \A j \in K \ K2 : End(at, j) <= d
  PROVE  \E at2 : Good(K2, at2)'
<1>1. PICK at2 : at2 = [j \in K2 |-> at[j] - d]
  OBVIOUS
<1>2. PICK m : m = Len(stream)
  OBVIOUS
<1>3. /\ d \in Nat /\ m \in Nat /\ d <= m /\ Len(stream') = m - d
      /\ \A i \in 1 .. m - d : stream'[i] = stream[d + i]
  <2>1. stream \in Seq(Bytes) /\ Len(stream) \in Nat
    BY Sents DEF TypeOK, Bytes
  <2>2. QED
    BY <1>2, <2>1, Rear
<1>4. ASSUME NEW j \in K
      PROVE  /\ at[j] \in Nat /\ Len(sent[j]) \in Nat
             /\ End(at, j) = at[j] + 4 + Len(sent[j]) /\ End(at, j) <= m
             /\ FrameIn(stream, at[j], sent[j])
  BY <1>2, <1>4, GoodFrames
<1>5. ASSUME NEW j \in K2
      PROVE  /\ j \in K /\ at2[j] = at[j] - d /\ at2[j] \in Nat /\ End(at2, j)' = End(at, j) - d
  <2>1. at[j] \in Nat /\ at[j] >= d /\ Len(sent[j]) \in Nat
    BY <1>4, <1>5
  <2>2. at2[j] = at[j] - d /\ at2[j] \in Nat
    BY <1>1, <1>3, <1>5, <2>1
  <2>3. End(at2, j)' = at[j] - d + 4 + Len(sent[j])
    BY <2>2 DEF End, HeaderSize
  <2>4. End(at, j) = at[j] + 4 + Len(sent[j])
    BY <1>4, <1>5
  <2>5. PICK n \in Nat : n = Len(sent[j])
    BY <2>1
  <2>6. at[j] - d + 4 + n = (at[j] + 4 + n) - d
    BY <1>3, <2>1
  <2>7. End(at2, j)' = End(at, j) - d
    BY <2>3, <2>4, <2>5, <2>6
  <2>8. QED
    BY <1>5, <2>2, <2>7
<1>6. at2 \in [K2 -> Nat]
  BY <1>1, <1>5
<1>7. ASSUME NEW j \in K2 PROVE FrameIn(stream', at2[j], sent'[j])
  <2>1. /\ at[j] \in Nat /\ Len(sent[j]) \in Nat /\ at[j] + 4 + Len(sent[j]) <= m
        /\ FrameIn(stream, at[j], sent[j]) /\ d <= at[j]
    BY <1>4, <1>5, <1>7
  <2>a. PICK n \in Nat : n = Len(sent[j])
    BY <2>1
  <2>b. at[j] \in Nat /\ n \in Nat /\ at[j] + 4 + n <= m /\ d <= at[j]
    BY <2>1, <2>a
  <2>c. at[j] - d + 4 + n <= m - d /\ at[j] - d + 4 + n \in Nat
    BY <1>3, <2>b
  <2>d. \A i \in 1 .. at[j] - d + 4 + n : i \in 1 .. m - d
    BY <1>3, <2>b, <2>c
  <2>2. at[j] - d + HeaderSize + Len(sent[j]) <= Len(stream')
    BY <1>3, <2>a, <2>c DEF HeaderSize
  <2>3. \A i \in 1 .. at[j] - d + HeaderSize + Len(sent[j]) : stream'[i] = stream[d + i]
    BY <1>3, <2>a, <2>d DEF HeaderSize
  <2>4. FrameIn(stream', at[j] - d, sent[j])
    BY <1>3, <2>1, <2>2, <2>3, FrameMoved
  <2>5. QED
    BY <1>5, <1>7, <2>4
<1>8. ASSUME NEW i \in K2, NEW j \in K2, i < j PROVE End(at2, i)' <= at2[j]
  <2>1. End(at, i) <= at[j]
    BY <1>5, <1>8 DEF Good
  <2>2. i \in K /\ j \in K
    BY <1>5, <1>8
  <2>3. End(at, i) \in Nat /\ at[j] \in Nat
    BY <1>4, <2>2
  <2>4. End(at, i) - d <= at[j] - d
    BY <1>3, <2>1, <2>3
  <2>5. QED
    BY <1>5, <1>8, <2>4
<1>9. ASSUME NEW i \in 3 .. Len(stream')
      PROVE  NoEnd(stream', i) \/ \E j \in K2 : i = End(at2, j)'
  <2>1. /\ d + i \in 3 .. Len(stream) /\ d + i - 1 = d + (i - 1) /\ d + i - 2 = d + (i - 2)
        /\ i \in 1 .. m - d /\ i - 1 \in 1 .. m - d /\ i - 2 \in 1 .. m - d
    BY <1>2, <1>3
  <2>2. /\ stream'[i] = stream[d + i] /\ stream'[i - 1] = stream[d + i - 1]
        /\ stream'[i - 2] = stream[d + i - 2]
    BY <1>3, <2>1
  <2>3. CASE NoEnd(stream, d + i)
    <3>1. NoEnd(stream', i)
      BY <2>2, <2>3 DEF NoEnd
    <3>2. QED
      BY <3>1
  <2>4. ASSUME NEW j \in K, d + i = End(at, j) PROVE j \in K2 /\ i = End(at2, j)'
    <3>1. j \in K2
      BY <1>3, <2>4
    <3>2. QED
      BY <1>3, <1>5, <2>4, <3>1
  <2>5. QED
    BY <2>1, <2>3, <2>4 DEF Good
<1>10. QED
  BY <1>6, <1>7, <1>8, <1>9 DEF Good

-----------------------------------------------------------------------------
(* What the broker reads. *)

(* The bytes of a message that lies behind the first s bytes.              *)
LEMMA FrameBytes ==
  ASSUME TypeOK, NEW K, NEW at, Good(K, at), NEW j \in K
  PROVE  /\ stream[at[j] + 1] = Publish /\ stream[at[j] + 2] = Flags
         /\ stream[at[j] + 3] * Base + stream[at[j] + 4] = Len(sent[j])
         /\ \A i \in 1 .. at[j] + 4 + Len(sent[j]) : stream[i] \in Bytes /\ stream[i] \in Nat
<1>1. /\ FrameIn(stream, at[j], sent[j])
      /\ at[j] \in Nat /\ Len(sent[j]) \in Nat /\ at[j] + 4 + Len(sent[j]) <= Len(stream)
  BY GoodFrames
<1>2. Len(stream) \in Nat /\ \A i \in 1 .. Len(stream) : stream[i] \in Bytes /\ stream[i] \in Nat
  BY Sents
<1>3. PICK n \in Nat : n = Len(sent[j])
  BY <1>1
<1>4. \A i \in 1 .. at[j] + 4 + n : i \in 1 .. Len(stream)
  BY <1>1, <1>2, <1>3
<1>5. QED
  BY <1>1, <1>2, <1>3, <1>4 DEF FrameIn

(* After a frame without a payload the messages lie behind it, or else the *)
(* broker is out of step and the next byte is no type.                     *)
LEMMA EmptyRead ==
  ASSUME TypeOK, NEW K, NEW at, Good(K, at), HasHeader, Length = 0, stream' = Rest,
         UNCHANGED <<eof, sent, handled>>
  PROVE  Doomed' \/ \E K2, at2 : Good(K2, at2)'
<1>1. /\ 4 \in 0 .. Len(stream) /\ stream' = SubSeq(stream, 4 + 1, Len(stream))
      /\ Len(stream) \in Nat /\ stream \in Seq(Bytes)
  BY Sents DEF HasHeader, HeaderSize, Rest, TypeOK, Bytes
<1>2. Len(stream') = Len(stream) - 4 /\ \A i \in 1 .. Len(stream') : stream'[i] = stream[4 + i]
  <2>1. LET t == SubSeq(stream, 4 + 1, Len(stream))
        IN  Len(t) = Len(stream) - 4 /\ \A i \in 1 .. Len(t) : t[i] = stream[4 + i]
    BY <1>1, Rear
  <2>2. QED
    BY <1>1, <2>1
<1>3. CASE \A j \in K : at[j] >= 4
  <2>1. K \subseteq Pending' /\ (~eof => K = Pending')
    BY DEF Good, Pending
  <2>2. \A j \in K : Len(handled') + 1 .. j \subseteq K
    BY DEF Good
  <2>3. K \in SUBSET K /\ \A j \in K \ K : End(at, j) <= 4
    OBVIOUS
  <2>4. \E at2 : Good(K, at2)'
    BY <1>1, <1>3, <2>1, <2>2, <2>3, Shifted
  <2>5. QED
    BY <2>4
<1>4. ASSUME NEW j \in K, ~(at[j] >= 4) PROVE Doomed'
  <2>1. PICK n \in Nat : n = Len(sent[j])
    BY <1>4, GoodFrames
  <2>2. at[j] \in Nat /\ n \in Nat /\ n > 2 /\ at[j] + 4 + n <= Len(stream)
    BY <1>4, <2>1, GoodFrames
  <2>3. /\ stream[at[j] + 1] = 1
        /\ stream[at[j] + 3] * Base + stream[at[j] + 4] = n
        /\ \A i \in 1 .. at[j] + 4 + n : stream[i] \in Nat
    BY <1>4, <2>1, FrameBytes DEF Publish
  <2>4. stream[3] \in Nat /\ stream[4] \in Nat /\ stream[3] = 0 /\ stream[4] = 0
    <3>1. stream[3] \in Nat /\ stream[4] \in Nat
      BY <2>2, <2>3
    <3>2. \A h, l \in Nat : h * Base + l = 0 => h = 0 /\ l = 0
      BY Arithmetic
    <3>3. QED
      BY <3>1, <3>2 DEF Length
  <2>5. at[j] # 0 /\ at[j] # 2 /\ at[j] # 3
    <3>1. at[j] # 0
      <4>1. 0 * Base + 0 = 0
        BY Arithmetic
      <4>2. at[j] = 0 => n = 0
        BY <2>3, <2>4, <4>1
      <4>3. QED
        BY <2>2, <4>2
    <3>2. at[j] = 2 => stream[3] = 1
      BY <2>3
    <3>3. at[j] = 3 => stream[4] = 1
      BY <2>3
    <3>4. QED
      BY <2>4, <3>1, <3>2, <3>3
  <2>6. at[j] = 1
    BY <1>4, <2>2, <2>5
  <2>7. stream[5] = n
    <3>1. 0 * Base + stream[5] = n /\ stream[5] \in Nat
      BY <2>2, <2>3, <2>4, <2>6
    <3>2. QED
      BY <3>1, Arithmetic
  <2>8. 1 \in 1 .. Len(stream') /\ Len(stream') # 0
    BY <1>1, <1>2, <2>2, <2>6
  <2>9. stream'[1] = n
    BY <1>2, <2>7, <2>8
  <2>10. n \notin Types
    BY <2>2 DEF Types, Publish, Pingreq
  <2>11. stream' # <<>>
    BY <2>8
  <2>12. QED
    BY <2>9, <2>10, <2>11 DEF Doomed
<1>5. QED
  BY <1>3, <1>4

(* An object that the broker reads is the first of the messages, for only  *)
(* there can an object end.                                                *)
LEMMA ObjectIsFirst ==
  ASSUME TypeOK, Len(handled) <= Len(sent), NEW K, NEW at, Good(K, at), HasFrame, ~Malformed,
         Length > 0, IsJson(SubSeq(stream, HeaderSize + 1, HeaderSize + Length))
  PROVE  /\ Len(handled) + 1 \in K
         /\ at[Len(handled) + 1] = 0
         /\ SubSeq(stream, HeaderSize + 1, HeaderSize + Length) = sent[Len(handled) + 1]
         /\ End(at, Len(handled) + 1) = HeaderSize + Length
<1>1. PICK l : l = Length
  OBVIOUS
<1>2. stream \in Seq(Bytes) /\ Len(stream) \in Nat /\ 4 <= Len(stream) /\ 4 + l <= Len(stream)
  BY <1>1, Sents DEF TypeOK, Bytes, HasFrame, HasHeader, HeaderSize
<1>3. \A i \in 1 .. Len(stream) : stream[i] \in Nat
  BY Sents
<1>4. l \in Nat /\ l > 0 /\ l = stream[3] * Base + stream[4] /\ stream[3] \in Nat /\ stream[4] \in Nat
  <2>1. stream[3] \in Nat /\ stream[4] \in Nat
    BY <1>2, <1>3
  <2>2. stream[3] * Base \in Nat
    BY <2>1, Products
  <2>3. QED
    BY <1>1, <2>1, <2>2 DEF Length
<1>5. PICK p : p = SubSeq(stream, HeaderSize + 1, HeaderSize + Length)
  OBVIOUS
<1>6. Len(p) = l /\ p \in Seq(Bytes) /\ \A i \in 1 .. l : p[i] = stream[4 + i]
  <2>1. p = SubSeq(stream, 4 + 1, 4 + l)
    BY <1>1, <1>5 DEF HeaderSize
  <2>2. stream \in Seq(Bytes) /\ 4 \in Nat /\ l \in Nat /\ 4 + l <= Len(stream)
    BY <1>2, <1>4
  <2>3. QED
    BY <2>1, <2>2, Middle
<1>7. l >= 2 /\ \A i \in 1 .. l : stream[4 + i] = IF i = l THEN Close ELSE Text
  <2>1. Len(p) > 1 /\ p = Json(Len(p))
    BY <1>5 DEF IsJson
  <2>2. l > 1 /\ p = Json(l)
    BY <1>6, <2>1
  <2>3. QED
    BY <1>4, <1>6, <2>2 DEF Json
<1>8. stream[4 + l] = Close /\ stream[4 + (l - 1)] = Text
  BY <1>4, <1>7
<1>9. ~NoEnd(stream, 4 + l)
  <2>1. stream[4 + l - 2] # Flags
    <3>1. CASE l = 2
      <4>1. 4 + l - 2 = 4
        BY <3>1
      <4>2. stream[4] # 0
        <5>1. PICK b : b = stream[3] * Base
          OBVIOUS
        <5>2. b \in Nat /\ (b = 0 \/ b >= Base) /\ Base \in Nat /\ Base > 4
          BY <1>4, <5>1, Products, Arithmetic
        <5>3. stream[4] = 0 => b + 0 = 2
          BY <1>4, <3>1, <5>1
        <5>4. QED
          BY <5>2, <5>3
      <4>3. QED
        BY <4>1, <4>2 DEF Flags
    <3>2. CASE l > 2
      <4>1. 4 + l - 2 = 4 + (l - 2) /\ l - 2 \in 1 .. l /\ l - 2 # l
        BY <1>4, <3>2
      <4>2. QED
        BY <1>7, <4>1 DEF Flags, Text
    <3>3. QED
      BY <1>4, <1>7, <3>1, <3>2
  <2>2. 4 + l - 1 = 4 + (l - 1)
    BY <1>4
  <2>3. stream[4 + l - 1] = Text
    BY <1>8, <2>2
  <2>4. PICK e \in Nat : e = 4 + l
    BY <1>4
  <2>5. stream[e] = Close /\ stream[e - 1] = Text /\ stream[e - 2] # Flags
    BY <1>4, <1>8, <2>1, <2>3, <2>4
  <2>6. ~NoEnd(stream, e)
    BY <2>5 DEF NoEnd
  <2>7. QED
    BY <2>4, <2>6
<1>10. PICK j \in K : 4 + l = End(at, j)
  <2>1. 4 + l \in 3 .. Len(stream)
    BY <1>2, <1>4
  <2>2. QED
    BY <1>9, <2>1 DEF Good
<1>11. PICK n \in Nat : n = Len(sent[j])
  BY <1>10, GoodFrames
<1>12. /\ at[j] \in Nat /\ n > 2 /\ at[j] + n = l /\ n \in Nat
  <2>1. at[j] \in Nat /\ n > 2 /\ 4 + l = at[j] + 4 + n /\ n \in Nat /\ l \in Nat
    BY <1>4, <1>10, <1>11, GoodFrames
  <2>2. at[j] + n = l
    BY <2>1
  <2>3. QED
    BY <2>1, <2>2
<1>13. /\ stream[at[j] + 1] = 1 /\ stream[at[j] + 2] = 0
       /\ stream[at[j] + 3] * Base + stream[at[j] + 4] = n
       /\ \A i \in 1 .. at[j] + 4 + n : stream[i] \in Nat
  BY <1>10, <1>11, FrameBytes DEF Publish, Flags
<1>14. \A i \in 1 .. l : stream[4 + i] >= 3
  BY <1>7 DEF Text, Close
<1>15. at[j] = 0
  <2>1. CASE at[j] >= 4
    <3>1. at[j] - 3 \in 1 .. l /\ 4 + (at[j] - 3) = at[j] + 1
      BY <1>4, <1>12, <2>1
    <3>2. stream[at[j] + 1] >= 3
      BY <1>14, <3>1
    <3>3. QED
      BY <1>13, <3>2
  <2>2. CASE at[j] = 3
    <3>1. 1 \in 1 .. l /\ 4 + 1 = 5
      BY <1>4
    <3>2. stream[5] >= 3 /\ stream[5] = 0
      BY <1>13, <1>14, <2>2, <3>1
    <3>3. QED
      BY <3>2
  <2>3. CASE at[j] = 2
    <3>1. stream[3] = 1 /\ stream[4] = 0
      BY <1>13, <2>3
    <3>2. l = Base
      <4>1. l = 1 * Base + 0
        BY <1>4, <3>1
      <4>2. QED
        BY <4>1, Arithmetic
    <3>3. stream[5] \in Nat /\ stream[6] \in Nat /\ stream[5] >= 3
      <4>1. 1 \in 1 .. l /\ 4 + 1 = 5 /\ 5 \in 1 .. at[j] + 4 + n /\ 6 \in 1 .. at[j] + 4 + n
        BY <1>4, <1>12, <2>3
      <4>2. QED
        BY <1>13, <1>14, <4>1
    <3>4. stream[5] * Base + stream[6] = n
      BY <1>13, <2>3
    <3>5. PICK b : b = stream[5] * Base
      OBVIOUS
    <3>6. b >= Base /\ b \in Nat /\ Base \in Nat
      <4>1. stream[5] \in Nat /\ stream[5] # 0
        BY <3>3
      <4>2. QED
        BY <3>5, <4>1, Products, Arithmetic
    <3>7. b + stream[6] = n
      BY <3>4, <3>5
    <3>8. n >= Base
      BY <1>12, <3>3, <3>6, <3>7
    <3>9. QED
      BY <1>12, <2>3, <3>2, <3>6, <3>8
  <2>4. CASE at[j] = 1
    <3>1. stream[3] = 0 /\ stream[4] * Base + stream[5] = n
      BY <1>13, <2>4
    <3>2. l = stream[4]
      <4>1. l = 0 * Base + stream[4]
        BY <1>4, <3>1
      <4>2. 0 * Base = 0
        BY Arithmetic
      <4>3. QED
        BY <1>4, <4>1, <4>2
    <3>3. stream[5] \in Nat
      <4>1. 5 \in 1 .. at[j] + 4 + n
        BY <1>12, <2>4
      <4>2. QED
        BY <1>13, <4>1
    <3>4. PICK b : b = l * Base
      OBVIOUS
    <3>5. b >= l /\ b \in Nat
      BY <1>4, <3>4, Products
    <3>6. b + stream[5] = n
      BY <3>1, <3>2, <3>4
    <3>7. n >= l
      BY <1>4, <1>12, <3>3, <3>5, <3>6
    <3>8. QED
      BY <1>4, <1>12, <2>4, <3>7
  <2>5. QED
    BY <1>12, <2>1, <2>2, <2>3, <2>4
<1>16. n = l
  BY <1>4, <1>12, <1>15
<1>17. p = sent[j]
  <2>1. sent[j] \in Seq(Bytes)
    <3>1. sent[j] \in Texts
      BY <1>10, GoodFrames, Sents
    <3>2. QED
      BY <3>1, TextBytes
  <2>2. FrameIn(stream, 0, sent[j]) /\ Len(sent[j]) = l
    BY <1>10, <1>11, <1>15, <1>16, GoodFrames
  <2>3. \A i \in 1 .. l : p[i] = sent[j][i]
    <3>1. \A i \in 1 .. l : stream[0 + 4 + i] = sent[j][i]
      BY <2>2 DEF FrameIn, HeaderSize
    <3>2. 0 + 4 = 4
      OBVIOUS
    <3>3. QED
      BY <1>6, <3>1, <3>2
  <2>4. QED
    BY <1>6, <1>11, <1>16, <2>1, <2>3, SeqEqual
<1>18. j = Len(handled) + 1
  <2>1. j \in Nat /\ j > Len(handled) /\ Len(handled) \in Nat
    BY <1>10, GoodFrames, Sents
  <2>2. PICK first : first = Len(handled) + 1
    OBVIOUS
  <2>3. ASSUME first < j PROVE FALSE
    <3>1. first \in K
      <4>1. first \in Len(handled) + 1 .. j
        BY <2>1, <2>2, <2>3
      <4>2. QED
        BY <1>10, <4>1 DEF Good
    <3>2. End(at, first) <= 0
      BY <1>10, <1>15, <2>3, <3>1 DEF Good
    <3>3. at[first] \in Nat /\ Len(sent[first]) \in Nat /\ End(at, first) = at[first] + 4 + Len(sent[first])
      BY <3>1, GoodFrames
    <3>4. \A a, b \in Nat : ~(a + 4 + b <= 0)
      OBVIOUS
    <3>5. QED
      BY <3>2, <3>3, <3>4
  <2>4. QED
    BY <2>1, <2>2, <2>3
<1>19. QED
  BY <1>1, <1>5, <1>10, <1>15, <1>17, <1>18 DEF HeaderSize

(* After a message the others lie behind it.                               *)
LEMMA ObjectRead ==
  ASSUME TypeOK, NEW K, NEW at, Good(K, at), NEW first \in K, first = Len(handled) + 1,
         End(at, first) = HeaderSize + Length,
         stream' = Rest, Len(handled') = first, UNCHANGED <<eof, sent>>
  PROVE  \E K2, at2 : Good(K2, at2)'
<1>1. PICK d : d = HeaderSize + Length
  OBVIOUS
<1>2. PICK K2 : K2 = K \ {first}
  OBVIOUS
<1>3. /\ Len(handled) \in Nat /\ Len(sent) \in Nat /\ Len(stream) \in Nat
      /\ first \in Nat /\ d \in 0 .. Len(stream) /\ d = End(at, first)
  <2>1. /\ at[first] \in Nat /\ Len(sent[first]) \in Nat
        /\ End(at, first) = at[first] + 4 + Len(sent[first]) /\ End(at, first) <= Len(stream)
        /\ first \in Nat
    BY GoodFrames
  <2>2. \A a, n \in Nat : a + 4 + n \in Nat
    OBVIOUS
  <2>3. d \in Nat /\ d <= Len(stream) /\ d = End(at, first)
    BY <1>1, <2>1, <2>2
  <2>4. Len(handled) \in Nat /\ Len(sent) \in Nat /\ Len(stream) \in Nat
    BY Sents
  <2>5. QED
    BY <2>1, <2>3, <2>4
<1>4. stream' = SubSeq(stream, d + 1, Len(stream))
  BY <1>1 DEF Rest
<1>5. \A j \in K : j \in Len(handled) + 1 .. Len(sent) /\ j \in Nat /\ first <= j
  BY <1>3 DEF Good, Pending
<1>6. Pending' = first + 1 .. Len(sent)
  BY DEF Pending
<1>7. \A j \in K2 : j \in K /\ j > first /\ j \in first + 1 .. Len(sent)
  BY <1>2, <1>3, <1>5
<1>8. ~eof => K2 = Pending'
  <2>1. ~eof => K = first .. Len(sent)
    BY DEF Good, Pending
  <2>2. QED
    BY <1>2, <1>3, <1>6, <2>1
<1>9. \A j \in K2 : Len(handled') + 1 .. j \subseteq K2
  <2>1. \A j \in K : first .. j \subseteq K
    BY DEF Good
  <2>2. QED
    BY <1>2, <1>3, <1>7, <2>1
<1>10. \A j \in K2 : at[j] >= d
  <2>1. \A j \in K2 : End(at, first) <= at[j]
    BY <1>7 DEF Good
  <2>2. \A j \in K2 : at[j] \in Nat
    BY <1>7, GoodFrames
  <2>3. QED
    BY <1>3, <2>1, <2>2
<1>11. K2 \in SUBSET K /\ K2 \subseteq Pending' /\ \A j \in K \ K2 : End(at, j) <= d
  <2>1. K2 \subseteq Pending'
    BY <1>6, <1>7
  <2>2. \A j \in K \ K2 : j = first
    BY <1>2
  <2>3. End(at, first) <= d
    BY <1>3
  <2>4. QED
    BY <1>2, <2>1, <2>2, <2>3
<1>12. \E at2 : Good(K2, at2)'
  <2>1. d \in 0 .. Len(stream) /\ K2 \in SUBSET K /\ K2 \subseteq Pending'
    BY <1>3, <1>11
  <2>2. \A j \in K \ K2 : End(at, j) <= d
    BY <1>11
  <2>3. QED
    BY <1>4, <1>8, <1>9, <1>10, <2>1, <2>2, Shifted
<1>13. QED
  BY <1>12

-----------------------------------------------------------------------------
(* The type of the state, and its invariant.                               *)
LEMMA StateBounds ==
  ASSUME TypeOK, HandledSent
  PROVE  Len(handled) <= Len(sent) /\ \A i \in 1 .. Len(handled) : handled[i] = sent[i]
BY Prefix DEF TypeOK, HandledSent

(* All that may follow from a state whose next frame is no frame: it is    *)
(* not read past.                                                          *)
LEMMA DoomedBad ==
  ASSUME Doomed
  PROVE  Malformed
BY DEF Doomed, Malformed

LEMMA InitInv ==
  ASSUME Init
  PROVE  Inv
<1>1. TypeOK
  <2>1. 0 \in 0 .. MaxFrames
    BY WireFormatAssumption
  <2>2. stream \in Seq(0 .. Base - 1) /\ sent \in Seq(Texts) /\ handled \in Seq(Texts)
    BY DEF Init
  <2>3. QED
    BY <2>1, <2>2 DEF Init, TypeOK
<1>2. HandledSent
  <2>1. handled \in Seq(Texts) /\ sent \in Seq(Texts) /\ Len(handled) = 0 /\ Len(sent) = 0
    BY <1>1 DEF Init, TypeOK
  <2>2. Len(handled) <= Len(sent) /\ \A i \in 1 .. Len(handled) : handled[i] = sent[i]
    BY <2>1
  <2>3. IsPrefix(handled, sent)
    BY <2>1, <2>2, Prefix
  <2>4. QED
    BY <2>3 DEF HandledSent
<1>3. Good({}, [j \in {} |-> 0])
  <2>1. Len(handled) = 0 /\ Len(sent) = 0 /\ Len(stream) = 0
    BY DEF Init
  <2>2. Pending = {} /\ 3 .. Len(stream) = {}
    BY <2>1 DEF Pending
  <2>3. QED
    BY <2>2 DEF Good
<1>4. QED
  BY <1>1, <1>2, <1>3 DEF Inv, Framed

\* What the writes of publishes and pings, whole or in part, have in common.
Written == CanWrite /\ writes' \in 0 .. MaxFrames /\ UNCHANGED <<eof, handled, session>>
Counted == cuts' \in Nat /\ reported' \in Seq(Texts)

LEMMA WritesWritten == ASSUME TypeOK, Writes PROVE Written
<1>1. writes' \in 0 .. MaxFrames
  BY WireFormatAssumption DEF TypeOK, Writes
<1>2. QED
  BY <1>1 DEF Writes, Written

(* The parts of the invariant that the writes share.                       *)
LEMMA WritesType ==
  ASSUME TypeOK, Written, NEW c \in Seq(Bytes), stream' = stream \o c, Counted,
         sent' \in Seq(Texts)
  PROVE  TypeOK'
<1>1. stream' \in Seq(0 .. Base - 1)
  BY Concat DEF TypeOK, Bytes
<1>2. QED
  BY <1>1 DEF TypeOK, Written, Counted

LEMMA DoomedAppend ==
  ASSUME TypeOK, Doomed, NEW c \in Seq(Bytes), stream' = stream \o c
  PROVE  Doomed'
<1>1. stream \in Seq(Bytes)
  BY DEF TypeOK, Bytes
<1>2. Len(stream) \in Nat /\ Len(stream) # 0
  BY <1>1, EmptySeq DEF Doomed
<1>3. stream'[1] = stream[1] /\ stream' # <<>>
  BY <1>1, <1>2
<1>4. QED
  BY <1>3 DEF Doomed

LEMMA WriteQuiet ==
  ASSUME Inv, Written, NEW c \in Seq(Bytes), stream' = stream \o c, Counted,
         \A q \in 1 .. Len(c) : Quiet(c, q), UNCHANGED sent
  PROVE  Inv'
<1>1. TypeOK'
  <2>1. sent' \in Seq(Texts)
    BY DEF Inv, TypeOK
  <2>2. QED
    BY <2>1, WritesType DEF Inv
<1>2. UNCHANGED <<eof, sent, handled>>
  BY DEF Written
<1>3. HandledSent'
  BY <1>2 DEF Inv, HandledSent
<1>4. Framed'
  <2>1. CASE Doomed
    BY <2>1, DoomedAppend DEF Inv, Framed
  <2>2. ASSUME NEW K, NEW at, Good(K, at) PROVE Framed'
    <3>1. Good(K, at)'
      BY <1>2, <2>2, AppendQuiet DEF Inv
    <3>2. QED
      BY <3>1 DEF Framed
  <2>3. QED
    BY <2>1, <2>2 DEF Inv, Framed, Written, CanWrite
<1>5. QED
  BY <1>1, <1>3, <1>4 DEF Inv

LEMMA PublishStep ==
  ASSUME Inv, NEW p \in Texts, PublishWhole(p)
  PROVE  Inv'
<1>1. PICK f : f = SendFrame(p)
  OBVIOUS
<1>2. f \in Seq(Bytes) /\ stream' = stream \o f /\ Counted /\ Written /\ f # <<>>
  <2>1. Writes /\ f # <<>> /\ stream' = stream \o f /\ Written
    BY <1>1, WritesWritten DEF PublishWhole, Inv
  <2>2. reported \in Seq(Texts) /\ Append(reported, p) \in Seq(Texts)
    BY DEF Inv, TypeOK
  <2>3. reported' \in Seq(Texts) /\ cuts' \in Nat
    BY <2>2 DEF PublishWhole, Inv, TypeOK
  <2>4. f \in Seq(Bytes)
    BY <1>1, <2>1, SendFrameBytes
  <2>5. QED
    BY <2>1, <2>3, <2>4 DEF Counted
<1>3. CASE PayloadLen(Len(p)) # Len(p)
  <2>1. \A q \in 1 .. Len(f) : Quiet(f, q)
    BY <1>1, <1>2, <1>3, SendFrameQuiet
  <2>2. UNCHANGED sent
    BY <1>3 DEF PublishWhole
  <2>3. QED
    BY <1>2, <2>1, <2>2, WriteQuiet
<1>4. CASE PayloadLen(Len(p)) = Len(p)
  <2>1. sent' = Append(sent, p) /\ sent \in Seq(Texts) /\ handled \in Seq(Texts)
    BY <1>4 DEF PublishWhole, Inv, TypeOK
  <2>2. /\ sent' \in Seq(Texts) /\ Len(sent') = Len(sent) + 1 /\ Len(sent) \in Nat
        /\ \A i \in 1 .. Len(sent) : sent'[i] = sent[i]
    BY <2>1
  <2>3. TypeOK'
    BY <1>2, <2>2, WritesType DEF Inv
  <2>4. Len(handled) <= Len(sent) /\ \A i \in 1 .. Len(handled) : handled[i] = sent[i]
    BY StateBounds DEF Inv
  <2>5. HandledSent'
    <3>1. handled' = handled
      BY <1>2 DEF Written, CanWrite
    <3>2. Len(handled) \in Nat /\ Len(handled) <= Len(sent')
      BY <2>1, <2>2, <2>4
    <3>3. \A i \in 1 .. Len(handled) : handled[i] = sent'[i]
      BY <2>2, <2>4, <3>2
    <3>4. IsPrefix(handled, sent')
      BY <2>1, <2>2, <3>2, <3>3, Prefix
    <3>5. QED
      BY <3>1, <3>4 DEF HandledSent
  <2>6. Framed'
    <3>1. CASE Doomed
      BY <1>2, <3>1, DoomedAppend DEF Inv, Framed
    <3>2. ASSUME NEW K, NEW at, Good(K, at) PROVE Framed'
      <4>1. UNCHANGED <<eof, handled>> /\ ~eof
        BY <1>2 DEF Written, CanWrite
      <4>2. \E K2, at2 : Good(K2, at2)'
        BY <1>1, <1>2, <1>4, <2>1, <2>4, <3>2, <4>1, AppendFrame DEF Inv
      <4>3. QED
        BY <4>2 DEF Framed
    <3>3. QED
      BY <1>2, <3>1, <3>2 DEF Inv, Framed, Written, CanWrite
  <2>7. QED
    BY <2>3, <2>5, <2>6 DEF Inv
<1>5. QED
  BY <1>3, <1>4

LEMMA PingStep ==
  ASSUME Inv, PingWhole
  PROVE  Inv'
<1>1. PICK h : h = Header(Pingreq, 0)
  OBVIOUS
<1>2. /\ h \in Seq(Bytes) /\ \A q \in 1 .. Len(h) : Quiet(h, q)
  BY <1>1, PingBytes
<1>3. stream' = stream \o h /\ Counted /\ Written /\ UNCHANGED sent
  BY <1>1 DEF PingWhole, Inv, TypeOK, Written, Counted
<1>4. QED
  BY <1>2, <1>3, WriteQuiet

LEMMA CutStep ==
  ASSUME Inv, NEW f \in Seq(Bytes), NEW k \in 1 .. Len(f) - 1, WriteCut(f, k),
         \A q \in 1 .. Len(f) - 1 : Quiet(f, q)
  PROVE  Inv'
<1>1. PICK c : c = SubSeq(f, 1, k)
  OBVIOUS
<1>2. k \in 0 .. Len(f) /\ Len(f) \in Nat /\ k \in Nat /\ k <= Len(f) - 1
  OBVIOUS
<1>3. c \in Seq(Bytes) /\ Len(c) = k /\ \A i \in 1 .. k : c[i] = f[i]
  BY <1>1, <1>2, Begin
<1>4. ASSUME NEW q \in 1 .. Len(c) PROVE Quiet(c, q)
  <2>1. q \in 1 .. k /\ q \in 1 .. Len(f) - 1
    BY <1>2, <1>3
  <2>2. c[q] = f[q] /\ (q # 1 => c[q - 1] = f[q - 1]) /\ (q # 1 /\ q # 2 => c[q - 2] = f[q - 2])
    BY <1>2, <1>3, <2>1
  <2>3. Quiet(f, q)
    BY <2>1
  <2>4. QED
    BY <2>2, <2>3 DEF Quiet
<1>5. stream' = stream \o c /\ Counted /\ Written /\ UNCHANGED sent
  <2>1. Writes /\ stream' = stream \o c /\ cuts' = cuts + 1 /\ UNCHANGED <<reported, sent>>
    BY <1>1 DEF WriteCut
  <2>2. QED
    BY <2>1, WritesWritten DEF Inv, TypeOK, Counted
<1>6. QED
  BY <1>3, <1>4, <1>5, WriteQuiet

LEMMA EndsStep ==
  ASSUME Inv, NEW k \in 0 .. Len(stream), Ends(k)
  PROVE  Inv'
<1>1. /\ stream' = SubSeq(stream, 1, k) /\ eof' = TRUE
      /\ UNCHANGED <<writes, cuts, reported, sent, handled, session>>
  BY DEF Ends
<1>2. stream \in Seq(Bytes) /\ stream' \in Seq(Bytes) /\ Len(stream') = k /\ k \in Nat
      /\ \A i \in 1 .. k : stream'[i] = stream[i]
  <2>1. stream \in Seq(Bytes) /\ Len(stream) \in Nat
    BY Sents DEF Inv, TypeOK, Bytes
  <2>2. QED
    BY <1>1, <2>1, Begin
<1>3. TypeOK' /\ HandledSent'
  BY <1>1, <1>2 DEF Inv, TypeOK, HandledSent, Bytes
<1>4. ASSUME session = "open" PROVE Framed'
  <2>1. CASE Doomed /\ k = 0
    <3>1. Good({}, [j \in {} |-> 0])'
      <4>1. 3 .. Len(stream') = {}
        BY <1>2, <2>1
      <4>2. QED
        BY <1>1, <4>1 DEF Good
    <3>2. QED
      BY <3>1 DEF Framed
  <2>2. CASE Doomed /\ k # 0
    <3>1. stream'[1] = stream[1] /\ stream' # <<>>
      BY <1>2, <2>2
    <3>2. QED
      BY <2>2, <3>1 DEF Framed, Doomed
  <2>3. ASSUME NEW K, NEW at, Good(K, at) PROVE Framed'
    <3>1. \E K2, at2 : Good(K2, at2)'
      BY <1>1, <2>3, CutShort DEF Inv
    <3>2. QED
      BY <3>1 DEF Framed
  <2>4. QED
    BY <1>4, <2>1, <2>2, <2>3 DEF Inv, Framed
<1>5. QED
  BY <1>1, <1>3, <1>4 DEF Inv

LEMMA EndSessionStep ==
  ASSUME Inv, EndSession
  PROVE  Inv'
<1>1. stream' \in Seq(0 .. Base - 1)
  BY DEF EndSession
<1>2. TypeOK' /\ HandledSent'
  BY <1>1 DEF Inv, TypeOK, HandledSent, EndSession
<1>3. QED
  BY <1>2 DEF Inv, EndSession

LEMMA ReadStep ==
  ASSUME Inv, ReadFrame
  PROVE  Inv'
<1>1. PICK p : p = SubSeq(stream, HeaderSize + 1, HeaderSize + Length)
  OBVIOUS
<1>2. PICK bad : bad = (Malformed \/ (Length > 0 /\ ~IsJson(p)))
  OBVIOUS
<1>3. /\ session = "open" /\ HasFrame /\ UNCHANGED <<eof, writes, cuts, reported, sent>>
      /\ session' = IF bad THEN "ended" ELSE session
      /\ handled' = IF bad \/ Length = 0 THEN handled ELSE Append(handled, p)
      /\ stream' = IF bad THEN <<>> ELSE Rest
  BY <1>1, <1>2 DEF ReadFrame
<1>4. CASE bad
  <2>1. session' = "ended" /\ handled' = handled /\ stream' = <<>>
    BY <1>3, <1>4
  <2>2. stream' \in Seq(0 .. Base - 1)
    BY <2>1
  <2>3. TypeOK' /\ HandledSent'
    BY <1>3, <2>1, <2>2 DEF Inv, TypeOK, HandledSent
  <2>4. QED
    BY <2>1, <2>3 DEF Inv
<1>5. CASE ~bad
  <2>1. ~Malformed /\ (Length > 0 => IsJson(p))
    BY <1>2, <1>5
  <2>2. ~Doomed
    BY <2>1, DoomedBad
  <2>3. PICK K, at : Good(K, at)
    BY <1>3, <2>2 DEF Inv, Framed
  <2>4. /\ stream' = Rest /\ session' = session /\ HasHeader
        /\ handled' = IF Length = 0 THEN handled ELSE Append(handled, p)
    BY <1>3, <1>5 DEF HasFrame
  <2>5. Len(handled) <= Len(sent) /\ \A i \in 1 .. Len(handled) : handled[i] = sent[i]
    BY StateBounds DEF Inv
  <2>6. /\ stream \in Seq(Bytes) /\ Len(stream) \in Nat
        /\ sent \in Seq(Texts) /\ handled \in Seq(Texts)
        /\ Len(sent) \in Nat /\ Len(handled) \in Nat
    BY Sents DEF Inv, TypeOK, Bytes
  <2>7. Length \in Nat /\ HeaderSize + Length \in 0 .. Len(stream)
    <3>1. 4 <= Len(stream) /\ 4 + Length <= Len(stream)
      BY <1>3, <2>1 DEF HasFrame, HasHeader, HeaderSize
    <3>2. stream[3] \in Nat /\ stream[4] \in Nat
      <4>1. 3 \in 1 .. Len(stream) /\ 4 \in 1 .. Len(stream)
        BY <2>6, <3>1
      <4>2. QED
        BY <4>1, Sents DEF Inv
    <3>3. stream[3] * Base \in Nat
      BY <3>2, Products
    <3>4. Length \in Nat
      BY <3>2, <3>3 DEF Length
    <3>5. QED
      BY <2>6, <3>1, <3>4 DEF HeaderSize
  <2>8. stream' \in Seq(0 .. Base - 1)
    <3>1. PICK d : d = HeaderSize + Length
      OBVIOUS
    <3>2. LET t == SubSeq(stream, d + 1, Len(stream)) IN t \in Seq(Bytes)
      BY <2>6, <2>7, <3>1, Rear
    <3>3. QED
      BY <2>4, <3>1, <3>2 DEF Rest, Bytes
  <2>9. CASE Length = 0
    <3>1. UNCHANGED <<eof, sent, handled>>
      BY <1>3, <2>4, <2>9
    <3>2. Framed'
      <4>1. Doomed' \/ \E K2, at2 : Good(K2, at2)'
        BY <2>3, <2>4, <2>9, <3>1, EmptyRead DEF Inv
      <4>2. QED
        BY <4>1 DEF Framed
    <3>3. TypeOK' /\ HandledSent'
      BY <1>3, <2>4, <2>8, <3>1 DEF Inv, TypeOK, HandledSent
    <3>4. QED
      BY <3>2, <3>3 DEF Inv
  <2>10. CASE Length # 0
    <3>1. PICK first : first = Len(handled) + 1
      OBVIOUS
    <3>2. /\ first \in K /\ p = sent[first] /\ End(at, first) = HeaderSize + Length
      <4>1. Length > 0 /\ IsJson(p)
        BY <2>1, <2>7, <2>10
      <4>2. QED
        BY <1>1, <1>3, <2>1, <2>3, <2>5, <3>1, <4>1, ObjectIsFirst DEF Inv
    <3>3. first \in 1 .. Len(sent) /\ p \in Texts
      BY <2>3, <3>2, GoodFrames, Sents DEF Inv
    <3>4. handled' = Append(handled, p)
      BY <2>4, <2>10
    <3>5. /\ handled' \in Seq(Texts) /\ Len(handled') = first
          /\ \A i \in 1 .. first : handled'[i] = IF i = first THEN p ELSE handled[i]
      BY <2>6, <3>1, <3>3, <3>4
    <3>6. \A i \in 1 .. first : handled'[i] = sent'[i]
      <4>1. \A i \in 1 .. first : i = first \/ i \in 1 .. Len(handled)
        BY <2>6, <3>1
      <4>2. QED
        BY <1>3, <2>5, <3>2, <3>5, <4>1
    <3>7. HandledSent'
      <4>1. sent' \in Seq(Texts) /\ Len(handled') <= Len(sent')
        BY <1>3, <2>6, <3>3, <3>5
      <4>2. IsPrefix(handled', sent')
        BY <3>5, <3>6, <4>1, Prefix
      <4>3. QED
        BY <4>2 DEF HandledSent
    <3>8. TypeOK'
      BY <1>3, <2>4, <2>8, <3>5 DEF Inv, TypeOK
    <3>9. Framed'
      <4>1. UNCHANGED <<eof, sent>>
        BY <1>3
      <4>2. \E K2, at2 : Good(K2, at2)'
        BY <2>3, <2>4, <3>1, <3>2, <3>5, <4>1, ObjectRead DEF Inv
      <4>3. QED
        BY <4>2 DEF Framed
    <3>10. QED
      BY <3>7, <3>8, <3>9 DEF Inv
  <2>11. QED
    BY <2>9, <2>10
<1>6. QED
  BY <1>2, <1>4, <1>5

(* Every step keeps the invariant.                                         *)
LEMMA NextInv ==
  ASSUME Inv, [Next]_vars
  PROVE  Inv'
<1>1. ASSUME NEW p \in Texts, PublishWhole(p) PROVE Inv'
  BY <1>1, PublishStep
<1>2. ASSUME NEW p \in Texts, NEW k \in 1 .. Len(SendFrame(p)) - 1, WriteCut(SendFrame(p), k)
      PROVE  Inv'
  <2>1. PICK f : f = SendFrame(p)
    OBVIOUS
  <2>2. f # <<>>
    BY <1>2, <2>1
  <2>3. f \in Seq(Bytes) /\ Len(f) \in Nat
    <3>1. f \in Seq(Bytes)
      BY <2>1, <2>2, SendFrameBytes
    <3>2. QED
      BY <3>1
  <2>4. \A q \in 1 .. Len(f) - 1 : q \in 1 .. Len(f) /\ q < Len(f)
    BY <2>3
  <2>5. \A q \in 1 .. Len(f) - 1 : Quiet(f, q)
    BY <2>1, <2>2, <2>4, SendFrameQuiet
  <2>6. QED
    BY <1>2, <2>1, <2>3, <2>5, CutStep
<1>3. CASE PingWhole
  BY <1>3, PingStep
<1>4. ASSUME NEW k \in 1 .. HeaderSize - 1, WriteCut(Header(Pingreq, 0), k) PROVE Inv'
  <2>1. PICK h : h = Header(Pingreq, 0)
    OBVIOUS
  <2>2. /\ h \in Seq(Bytes) /\ k \in 1 .. Len(h) - 1
        /\ \A q \in 1 .. Len(h) - 1 : Quiet(h, q)
    <3>1. h \in Seq(Bytes) /\ Len(h) = 4 /\ \A q \in 1 .. 4 : Quiet(h, q)
      BY <2>1, PingBytes
    <3>2. k \in 1 .. 4 - 1 /\ \A q \in 1 .. 4 - 1 : q \in 1 .. 4
      BY DEF HeaderSize
    <3>3. QED
      BY <3>1, <3>2
  <2>3. QED
    BY <1>4, <2>1, <2>2, CutStep
<1>5. ASSUME NEW k \in 0 .. Len(stream), Ends(k) PROVE Inv'
  BY <1>5, EndsStep
<1>6. CASE ReadFrame
  BY <1>6, ReadStep
<1>7. CASE EndSession
  BY <1>7, EndSessionStep
<1>8. CASE UNCHANGED vars
  BY <1>8 DEF Inv, TypeOK, HandledSent, Framed, Doomed, Good, Pending, End, vars
<1>9. QED
  BY <1>1, <1>2, <1>3, <1>4, <1>5, <1>6, <1>7, <1>8 DEF Next, IncompleteRead, TimedOut

-----------------------------------------------------------------------------
(* The theorems. *)

LEMMA Invariance == Spec => []Inv
<1>1. Init => Inv
  BY InitInv
<1>2. Inv /\ [Next]_vars => Inv'
  BY NextInv
<1>3. QED
  BY <1>1, <1>2, PTL DEF Spec

(* The bytes stay bytes, and what read_frame returns is always a payload   *)
(* that an application can have published.                                 *)
THEOREM TypeCorrect == Spec => []TypeOK
<1>1. Inv => TypeOK
  BY DEF Inv
<1>2. QED
  BY <1>1, Invariance, PTL

(* The broker handles what was sent whole, in order and without gaps,      *)
(* wherever writes were cut and whenever the connection ended.             *)
THEOREM HandledAlwaysSent == Spec => []HandledSent
<1>1. Inv => HandledSent
  BY DEF Inv
<1>2. QED
  BY <1>1, Invariance, PTL

(* A broker that has read everything and still serves the device has       *)
(* handled every message that went out whole (read_frame, sendFrame).      *)
THEOREM NeverSkipped == Spec => []NothingSkipped
<1>1. Inv => NothingSkipped
  <2>1. SUFFICES ASSUME Inv, session = "open", stream = <<>>, ~eof
                 PROVE  handled = sent
    BY DEF NothingSkipped
  <2>2. PICK K, at : Good(K, at)
    BY <2>1 DEF Inv, Framed, Doomed
  <2>3. Len(stream) = 0
    BY <2>1
  <2>4. ASSUME NEW j \in K PROVE FALSE
    <3>1. /\ at[j] \in Nat /\ Len(sent[j]) \in Nat
          /\ End(at, j) = at[j] + 4 + Len(sent[j]) /\ End(at, j) <= 0
      BY <2>1, <2>2, <2>3, <2>4, GoodFrames DEF Inv
    <3>2. \A a, b \in Nat : ~(a + 4 + b <= 0)
      OBVIOUS
    <3>3. QED
      BY <3>1, <3>2
  <2>5. Len(handled) + 1 .. Len(sent) = {}
    BY <2>1, <2>2, <2>4 DEF Good, Pending
  <2>6. /\ handled \in Seq(Texts) /\ sent \in Seq(Texts)
        /\ Len(handled) \in Nat /\ Len(sent) \in Nat
    BY <2>1, Sents DEF Inv, TypeOK
  <2>7. Len(handled) <= Len(sent) /\ \A i \in 1 .. Len(handled) : handled[i] = sent[i]
    BY <2>1, StateBounds DEF Inv
  <2>8. Len(handled) = Len(sent)
    <3>1. ~(Len(handled) + 1 <= Len(sent))
      BY <2>5, <2>6
    <3>2. QED
      BY <2>6, <2>7, <3>1
  <2>9. QED
    BY <2>6, <2>7, <2>8, SeqEqual
<1>2. QED
  BY <1>1, Invariance, PTL

(* What publish() puts on the stream when it returns true is what the      *)
(* broker's encode_frame makes of the first bytes of the payload, as many  *)
(* as 16 bits can say: of the whole payload if and only if it is no longer *)
(* than that (sendFrame: payloadLen).                                      *)
THEOREM EncodersAgree ==
  ASSUME NEW p \in Texts, SendFrame(p) # <<>>
  PROVE  /\ SendFrame(p) = EncodeFrame(Publish, SubSeq(p, 1, PayloadLen(Len(p))))
         /\ SendFrame(p) = EncodeFrame(Publish, p) <=> Len(p) <= MaxPayload
<1>1. PICK m : m = PayloadLen(Len(p))
  OBVIOUS
<1>2. /\ SendFrame(p) = Header(Publish, m) \o SubSeq(p, 1, m)
      /\ m \in Nat /\ m <= Len(p) /\ m <= MaxPayload
      /\ Len(SendFrame(p)) = HeaderSize + m
  BY <1>1, SendFrameBytes
<1>3. p \in Seq(Bytes) /\ Len(p) \in Nat /\ MaxPayload \in Int
  BY TextBytes, Arithmetic DEF MaxPayload
<1>4. SubSeq(p, 1, m) \in Seq(Bytes) /\ Len(SubSeq(p, 1, m)) = m
  BY <1>2, <1>3, Begin
<1>5. Header(Publish, m) = <<Publish, Flags, m \div Base, m % Base>>
  <2>1. m \in 0 .. MaxPayload
    BY <1>2, <1>3
  <2>2. QED
    BY <2>1, Arithmetic DEF Header
<1>6. SendFrame(p) = EncodeFrame(Publish, SubSeq(p, 1, m))
  BY <1>2, <1>4, <1>5 DEF EncodeFrame
<1>7. ASSUME Len(p) <= MaxPayload PROVE SendFrame(p) = EncodeFrame(Publish, p)
  <2>1. m = Len(p)
    <3>1. Base * Base \in Nat /\ Base * Base > 0 /\ Len(p) < Base * Base
      <4>1. Base \in Nat /\ Base > 4
        BY Arithmetic
      <4>2. Base * Base \in Nat /\ Base * Base > 0
        BY <4>1
      <4>3. Len(p) <= Base * Base - 1
        BY <1>7 DEF MaxPayload
      <4>4. QED
        BY <1>3, <4>2, <4>3
    <3>2. \A a, b \in Nat : b > 0 /\ a < b => a % b = a
      OBVIOUS
    <3>3. QED
      BY <1>1, <1>3, <3>1, <3>2 DEF PayloadLen
  <2>2. SubSeq(p, 1, m) = p
    BY <1>3, <2>1
  <2>3. QED
    BY <1>6, <2>2
<1>8. ASSUME SendFrame(p) = EncodeFrame(Publish, p) PROVE Len(p) <= MaxPayload
  <2>1. Len(EncodeFrame(Publish, p)) = 4 + Len(p)
    <3>1. PICK h : h = <<Publish, Flags, Len(p) \div Base, Len(p) % Base>>
      OBVIOUS
    <3>2. Len(p) \div Base \in Nat /\ Len(p) % Base \in Nat
      <4>1. Len(p) \div Base \in Nat /\ Len(p) % Base \in Bytes
        BY <1>3, Arithmetic
      <4>2. \A b \in Bytes : b \in Nat
        BY Arithmetic DEF Bytes
      <4>3. QED
        BY <4>1, <4>2
    <3>3. h \in Seq(Nat) /\ Len(h) = 4
      BY <3>1, <3>2 DEF Publish, Flags
    <3>4. p \in Seq(Nat)
      <4>1. PICK n \in Nat : p = Json(n) \/ p = Unquoted(n)
        BY WireFormatAssumption DEF Texts
      <4>2. QED
        BY <4>1 DEF Json, Unquoted, Text, Close
    <3>5. Len(h \o p) = 4 + Len(p)
      <4>1. h \in Seq(Nat) /\ p \in Seq(Nat)
        BY <3>3, <3>4
      <4>2. Len(h \o p) = Len(h) + Len(p)
        BY <4>1, Concat
      <4>3. QED
        BY <3>3, <4>2
    <3>6. QED
      BY <3>1, <3>5 DEF EncodeFrame
  <2>2. HeaderSize + m = 4 + Len(p)
    BY <1>2, <1>8, <2>1
  <2>3. QED
    BY <1>2, <1>3, <2>2 DEF HeaderSize
<1>9. QED
  BY <1>1, <1>6, <1>7, <1>8
=============================================================================
