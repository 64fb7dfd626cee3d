--------------------------- MODULE MCSendBuffers ---------------------------
(* Two devices that subscribe to one another, and a third that listens to   *)
(* the first.                                                               *)
EXTENDS SendBuffers, TLC

CONSTANTS c1, c2, c3

MCSubscribers == c1 :> {c2, c3} @@ c2 :> {c1} @@ c3 :> {}
=============================================================================
