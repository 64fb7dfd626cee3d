---------------------------- MODULE MCLifecycle ----------------------------
(* The life of a server with two devices. *)
EXTENDS Lifecycle
=============================================================================
