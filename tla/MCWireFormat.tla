---------------------------- MODULE MCWireFormat ----------------------------
(* A byte has five values: payloads of 6 and 7 bytes have a length whose low *)
(* byte is a type code, 25 wraps to nothing and 28 to three bytes of text.   *)
EXTENDS WireFormat
=============================================================================
