------------------------- MODULE SendBuffersProofs -------------------------
(***************************************************************************)
(* Theorems about SendBuffers, for any connections, subscribers and water  *)
(* marks.                                                                  *)
(***************************************************************************)
EXTENDS SendBuffers, FiniteSetTheorems, TLAPS

\* A transport that does not pause its writers is below the mark and has nobody
\* waiting; beyond the mark, every frame but those is of one that waits.
BufferInv(c) ==
  /\ ~paused[c] => out[c] <= High /\ Waiting(c) = {}
  /\ out[c] <= High + Cardinality(Waiting(c))

Inv == TypeOK /\ \A c \in Conns : BufferInv(c)

-----------------------------------------------------------------------------
(* The coroutines that wait for a connection can be counted.               *)
LEMMA WaitingFinite == ASSUME NEW c PROVE IsFiniteSet(Waiting(c))
<1>1. IsFiniteSet(Writers)
  BY SendBuffersAssumption, FS_AddElement DEF Writers
<1>2. Waiting(c) \subseteq Writers
  BY DEF Waiting
<1>3. QED
  BY <1>1, <1>2, FS_Subset

LEMMA WaitingCount == ASSUME NEW c PROVE Cardinality(Waiting(c)) \in Nat
  BY WaitingFinite, FS_CardinalityType

(* The invariant holds in the initial states.                              *)
LEMMA InvInit == Init => Inv
<1> SUFFICES ASSUME Init PROVE Inv
  OBVIOUS
<1>1. TypeOK
  BY SendBuffersAssumption DEF Init, TypeOK
<1>2. ASSUME NEW c \in Conns PROVE BufferInv(c)
  <2>1. Waiting(c) = {}
    BY SendBuffersAssumption DEF Init, Waiting
  <2>2. out[c] = 0
    BY DEF Init
  <2>3. Cardinality(Waiting(c)) \in Nat /\ High \in Nat
    BY WaitingCount, SendBuffersAssumption
  <2>4. out[c] <= High /\ out[c] <= High + Cardinality(Waiting(c))
    BY <2>2, <2>3
  <2>5. QED
    BY <2>1, <2>4 DEF BufferInv
<1>3. QED
  BY <1>1, <1>2 DEF Inv

(* A coroutine that does not wait writes to s: if it has to wait from then *)
(* on, it accounts for the frame.                                          *)
LEMMA WriteKeeps ==
  ASSUME Inv, NEW w \in Writers, NEW s \in Conns, drains[w] = NoConn, WriteAndDrain(w, s)
  PROVE  /\ out' \in [Conns -> Nat] /\ paused' \in [Conns -> BOOLEAN]
         /\ drains' \in [Writers -> Conns \cup {NoConn}]
         /\ session' \in [Conns -> {"serving", "ended"}]
         /\ \A c \in Conns : BufferInv(c)'
<1> USE DEF Inv, TypeOK
<1>1. CASE link[s] = "lost"
  <2>1. UNCHANGED <<out, paused, drains>> /\ Raise(s, {w})
    BY <1>1 DEF WriteAndDrain
  <2>2. session' \in [Conns -> {"serving", "ended"}]
    BY <2>1 DEF Raise
  <2>3. QED
    BY <2>1, <2>2 DEF BufferInv, Waiting
<1>2. CASE link[s] = "up"
  <2>1. /\ out' = [out EXCEPT ![s] = @ + 1]
        /\ paused' = [paused EXCEPT ![s] = @ \/ out[s] + 1 > High]
        /\ drains' = [drains EXCEPT ![w] = IF paused'[s] THEN s ELSE NoConn]
        /\ session' = session
    BY <1>2 DEF WriteAndDrain
  <2>2. /\ out' \in [Conns -> Nat] /\ paused' \in [Conns -> BOOLEAN]
        /\ drains' \in [Writers -> Conns \cup {NoConn}]
    BY <2>1
  <2>3. ASSUME NEW c \in Conns, c # s PROVE BufferInv(c)'
    <3>1. Waiting(c)' = Waiting(c)
      BY <2>1, <2>3, SendBuffersAssumption DEF Waiting
    <3>2. out'[c] = out[c] /\ paused'[c] = paused[c]
      BY <2>1, <2>3
    <3>3. QED
      BY <3>1, <3>2 DEF BufferInv
  <2>4. BufferInv(s)'
    <3>1. CASE paused'[s]
      <4>1. Waiting(s)' = Waiting(s) \cup {w} /\ w \notin Waiting(s)
        BY <2>1, <3>1, SendBuffersAssumption DEF Waiting
      <4>2. Cardinality(Waiting(s)') = Cardinality(Waiting(s)) + 1
        BY <4>1, WaitingFinite, FS_AddElement
      <4>3. out'[s] = out[s] + 1 /\ out[s] \in Nat /\ out[s] <= High + Cardinality(Waiting(s))
        BY <2>1 DEF BufferInv
      <4>4. out'[s] <= High + Cardinality(Waiting(s)')
        BY <4>2, <4>3, WaitingCount, SendBuffersAssumption
      <4>5. QED
        BY <3>1, <4>4 DEF BufferInv
    <3>2. CASE ~paused'[s]
      <4> DEFINE full == out[s] + 1 > High
      <4>a. ~paused[s] /\ ~full
        <5> HIDE DEF full
        <5>1. paused' = [paused EXCEPT ![s] = @ \/ full]
          BY <2>1 DEF full
        <5>2. QED
          BY <5>1, <3>2
      <4>b. out[s] \in Nat /\ High \in Nat /\ out'[s] = out[s] + 1
        BY <2>1, SendBuffersAssumption
      <4>1. ~paused[s] /\ out'[s] = out[s] + 1 /\ out'[s] <= High
        BY <4>a, <4>b
      <4>2. Waiting(s)' = Waiting(s)
        BY <2>1, <3>2, SendBuffersAssumption DEF Waiting
      <4>3. Waiting(s)' = {}
        BY <4>1, <4>2 DEF BufferInv
      <4>4. Cardinality(Waiting(s)') = 0
        BY <4>3, FS_EmptySet
      <4>5. QED
        BY <4>b, <4>1, <4>3, <4>4 DEF BufferInv
    <3>3. QED
      BY <3>1, <3>2
  <2>5. QED
    BY <2>1, <2>2, <2>3, <2>4
<1>3. QED
  BY <1>1, <1>2 DEF WriteAndDrain

(* Where those that wait for c are woken, nobody waits for it any more and *)
(* the others wait as before.                                              *)
LEMMA ReleaseWakes ==
  ASSUME TypeOK, NEW c \in Conns, Release(c)
  PROVE  /\ drains' \in [Writers -> Conns \cup {NoConn}]
         /\ Waiting(c)' = {}
         /\ \A e \in Conns \ {c} : Waiting(e)' = Waiting(e)
  BY SendBuffersAssumption DEF TypeOK, Release, Waiting

-----------------------------------------------------------------------------
(* Every step preserves the invariant.                                     *)
LEMMA InvStep == Inv /\ [Next]_vars => Inv'
<1> SUFFICES ASSUME Inv, [Next]_vars PROVE Inv'
  OBVIOUS
<1> USE DEF Inv, TypeOK
<1>a. High \in Nat /\ Low \in 0 .. High /\ Capacity \in Nat \ {0}
  BY SendBuffersAssumption
<1>1. ASSUME NEW c \in Conns, ReadPublish(c) PROVE Inv'
  <2>1. TypeOK'
    <3>1. todo' \in [Conns -> SUBSET Conns]
      BY <1>1, SendBuffersAssumption DEF ReadPublish
    <3>2. inbox' \in [Conns -> 0 .. Capacity]
      BY <1>1, <1>a DEF ReadPublish, TakeFrame
    <3>3. QED
      BY <1>1, <3>1, <3>2 DEF ReadPublish
  <2>2. UNCHANGED <<out, paused, drains>>
    BY <1>1 DEF ReadPublish
  <2>3. QED
    BY <2>1, <2>2 DEF BufferInv, Waiting
<1>2. ASSUME NEW c \in Conns, ReadRequest(c) PROVE Inv'
  <2>1. WriteAndDrain(c, c) /\ drains[c] = NoConn /\ c \in Writers
    BY <1>2 DEF ReadRequest, TakeFrame, Runs, Writers
  <2>2. inbox' \in [Conns -> 0 .. Capacity] /\ UNCHANGED <<link, todo, blocked>>
    BY <1>2, <1>a DEF ReadRequest, TakeFrame
  <2>3. QED
    BY <2>1, <2>2, WriteKeeps
<1>3. ASSUME NEW c \in Conns, EndOfStream(c) PROVE Inv'
  BY <1>3 DEF EndOfStream, BufferInv, Waiting
<1>4. ASSUME NEW c \in Conns, RouteCommand(c) PROVE Inv'
  <2>1. WriteAndDrain(Commands, c) /\ drains[Commands] = NoConn /\ Commands \in Writers
    BY <1>4 DEF RouteCommand, Writers
  <2>2. UNCHANGED <<link, inbox, todo, blocked>>
    BY <1>4 DEF RouteCommand
  <2>3. QED
    BY <2>1, <2>2, WriteKeeps
<1>5. ASSUME NEW c \in Conns, NEW s \in Conns, Forward(c, s) PROVE Inv'
  <2>1. WriteAndDrain(c, s) /\ drains[c] = NoConn /\ c \in Writers
    BY <1>5 DEF Forward, Runs, Writers
  <2>2. todo' \in [Conns -> SUBSET Conns] /\ UNCHANGED <<link, inbox, blocked>>
    BY <1>5 DEF Forward
  <2>3. QED
    BY <2>1, <2>2, WriteKeeps
<1>6. ASSUME NEW c \in Conns, DeviceWrites(c) PROVE Inv'
  <2>1. TypeOK'
    <3>1. CASE inbox[c] < Capacity
      <4>1. inbox' \in [Conns -> 0 .. Capacity]
        BY <1>6, <1>a, <3>1 DEF DeviceWrites
      <4>2. blocked' = [blocked EXCEPT ![c] = FALSE]
        BY <1>6, <3>1 DEF DeviceWrites
      <4>3. QED
        BY <1>6, <4>1, <4>2 DEF DeviceWrites
    <3>2. CASE ~(inbox[c] < Capacity)
      <4>1. inbox' = inbox /\ blocked' = [blocked EXCEPT ![c] = TRUE]
        BY <1>6, <3>2 DEF DeviceWrites
      <4>2. QED
        BY <1>6, <4>1 DEF DeviceWrites
    <3>3. QED
      BY <3>1, <3>2
  <2>2. UNCHANGED <<out, paused, drains>>
    BY <1>6 DEF DeviceWrites
  <2>3. QED
    BY <2>1, <2>2 DEF BufferInv, Waiting
<1>7. ASSUME NEW c \in Conns, DeviceReads(c) PROVE Inv'
  <2>1. out' = [out EXCEPT ![c] = @ - 1] /\ out[c] \in Nat /\ out[c] > 0
    BY <1>7 DEF DeviceReads
  <2>2. CASE paused[c] /\ out[c] - 1 <= Low
    <3>1. paused' = [paused EXCEPT ![c] = FALSE] /\ Release(c)
      BY <1>7, <2>2 DEF DeviceReads
    <3>2. TypeOK'
      BY <1>7, <2>1, <3>1, ReleaseWakes DEF DeviceReads
    <3>3. ASSUME NEW e \in Conns PROVE BufferInv(e)'
      <4>1. CASE e = c
        <5>1. Waiting(c)' = {} /\ Cardinality(Waiting(c)') = 0
          BY <3>1, ReleaseWakes, FS_EmptySet
        <5>2. out'[c] <= High
          BY <1>a, <2>1, <2>2
        <5>3. QED
          BY <4>1, <5>1, <5>2, <1>a, <3>2 DEF BufferInv
      <4>2. CASE e # c
        BY <4>2, <2>1, <3>1, ReleaseWakes DEF BufferInv
      <4>3. QED
        BY <4>1, <4>2
    <3>4. QED
      BY <3>2, <3>3
  <2>3. CASE ~(paused[c] /\ out[c] - 1 <= Low)
    <3>1. UNCHANGED <<paused, drains>>
      BY <1>7, <2>3 DEF DeviceReads
    <3>2. TypeOK'
      BY <1>7, <2>1, <3>1 DEF DeviceReads
    <3>3. ASSUME NEW e \in Conns PROVE BufferInv(e)'
      <4>1. Waiting(e)' = Waiting(e) /\ paused'[e] = paused[e] /\ out'[e] <= out[e]
        BY <2>1, <3>1 DEF Waiting
      <4>2. QED
        BY <4>1, <3>2, <1>a, WaitingCount DEF BufferInv
    <3>4. QED
      BY <3>2, <3>3
  <2>4. QED
    BY <2>2, <2>3
<1>8. ASSUME NEW c \in Conns, Lose(c) PROVE Inv'
  <2>1. /\ out' = [out EXCEPT ![c] = 0] /\ paused' = [paused EXCEPT ![c] = FALSE]
        /\ Release(c)
    BY <1>8 DEF Lose
  <2>2. TypeOK'
    BY <1>8, <2>1, ReleaseWakes DEF Lose, Raise
  <2>3. ASSUME NEW e \in Conns PROVE BufferInv(e)'
    <3>1. CASE e = c
      <4>1. Waiting(c)' = {} /\ Cardinality(Waiting(c)') = 0
        BY <2>1, ReleaseWakes, FS_EmptySet
      <4>2. QED
        BY <3>1, <4>1, <2>1, <1>a DEF BufferInv
    <3>2. CASE e # c
      BY <3>2, <2>1, ReleaseWakes DEF BufferInv
    <3>3. QED
      BY <3>1, <3>2
  <2>4. QED
    BY <2>2, <2>3
<1>9. ASSUME NEW c \in Conns, Reconnect(c) PROVE Inv'
  <2>1. TypeOK'
    BY <1>9, <1>a DEF Reconnect
  <2>2. UNCHANGED <<out, paused, drains>>
    BY <1>9 DEF Reconnect
  <2>3. QED
    BY <2>1, <2>2 DEF BufferInv, Waiting
<1>10. CASE UNCHANGED vars
  BY <1>10 DEF vars, BufferInv, Waiting
<1>11. QED
  BY <1>1, <1>2, <1>3, <1>4, <1>5, <1>6, <1>7, <1>8, <1>9, <1>10 DEF Next

LEMMA Invariance == Spec => []Inv
  BY InvInit, InvStep, PTL DEF Spec

-----------------------------------------------------------------------------
(* Each variable keeps its type.                                           *)
THEOREM TypeCorrect == Spec => []TypeOK
<1>1. Inv => TypeOK
  BY DEF Inv
<1>2. QED
  BY Invariance, <1>1, PTL

(* However many publish to a device that does not read, no more is         *)
(* buffered for it than up to the mark and a frame of each that waits      *)
(* (handle_publish, route_command_to_device).                              *)
THEOREM BuffersBounded == Spec => []BufferBounded
<1>1. Inv => BufferBounded
  BY DEF Inv, BufferInv, BufferBounded
<1>2. QED
  BY Invariance, <1>1, PTL

(* A session ends for the sake of its own connection only: a subscriber    *)
(* that is lost does not end its publisher's (handle_publish).             *)
THEOREM PublishersSurvive == Spec => PublisherSurvives
<1> DEFINE Kept == \A c \in Conns :
                     session[c] = "serving" /\ session'[c] = "ended" => link'[c] = "lost"
<1>1. ASSUME TypeOK, [Next]_vars PROVE Kept
  <2> SUFFICES ASSUME NEW c \in Conns, session[c] = "serving", session'[c] = "ended"
               PROVE  link'[c] = "lost"
    OBVIOUS
  <2> USE DEF TypeOK
  <2>1. ASSUME NEW w \in Writers, NEW s \in Conns, WriteAndDrain(w, s), UNCHANGED link
        PROVE  link'[c] = "lost"
    BY <2>1 DEF WriteAndDrain, Raise, EndedBy
  <2>2. ASSUME NEW e \in Conns, ReadRequest(e) \/ RouteCommand(e) PROVE link'[c] = "lost"
    BY <2>1, <2>2 DEF ReadRequest, RouteCommand, Writers
  <2>3. ASSUME NEW e \in Conns, NEW s \in Conns, Forward(e, s) PROVE link'[c] = "lost"
    BY <2>1, <2>3 DEF Forward, Writers
  <2>4. ASSUME NEW e \in Conns, EndOfStream(e) PROVE link'[c] = "lost"
    BY <2>4 DEF EndOfStream
  <2>5. ASSUME NEW e \in Conns, Lose(e) PROVE link'[c] = "lost"
    <3>1. session' = [d \in Conns |-> IF d \in Waiting(e) \cap {e} THEN "ended" ELSE session[d]]
      BY <2>5 DEF Lose, Raise, EndedBy
    <3>2. c = e
      BY <3>1
    <3>3. QED
      BY <1>1, <2>5, <3>2 DEF Lose
  <2>6. ASSUME NEW e \in Conns,
               ReadPublish(e) \/ DeviceWrites(e) \/ DeviceReads(e) \/ Reconnect(e)
        PROVE  link'[c] = "lost"
    <3>1. session' = session \/ session' = [session EXCEPT ![e] = "serving"]
      BY <2>6 DEF ReadPublish, DeviceWrites, DeviceReads, Reconnect
    <3>2. session'[c] = "serving"
      BY <1>1, <3>1
    <3>3. QED
      BY <3>2
  <2>7. CASE UNCHANGED vars
    BY <2>7 DEF vars
  <2>8. QED
    <3>1. CASE Next
      <4>1. PICK e \in Conns :
              \/ ReadPublish(e) \/ ReadRequest(e) \/ EndOfStream(e) \/ RouteCommand(e)
              \/ \E s \in Conns : Forward(e, s)
              \/ DeviceWrites(e) \/ DeviceReads(e) \/ Lose(e) \/ Reconnect(e)
        BY <3>1 DEF Next
      <4>2. QED
        BY <4>1, <2>2, <2>3, <2>4, <2>5, <2>6
    <3>2. QED
      BY <1>1, <3>1, <2>7
<1>2. TypeOK /\ [Next]_vars => [Kept]_vars
  BY <1>1
<1>3. QED
  BY TypeCorrect, <1>2, PTL DEF Spec, PublisherSurvives
=============================================================================
