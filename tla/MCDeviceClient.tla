--------------------------- MODULE MCDeviceClient ---------------------------
(* The constants of DeviceClient for TLC. *)
EXTENDS DeviceClient

MCOnePattern == {"commands"}

\* What a CONNECT must have for an answer other than invalid_payload: those of
\* the broker's fields that the library sends.
MCDemandedSent == {"device_id", "token"}
=============================================================================
