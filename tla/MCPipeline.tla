----------------------------- MODULE MCPipeline -----------------------------
(* The pipeline with two messages of one device and two faults. *)
EXTENDS Pipeline

MCExtends == {<<"d1", "d1">>}

MCSpells == {<<"commands", "response">>}

MCTopicNames ==
  { <<"devices", "d1", "telemetry">>,
    <<"devices", "d1", "commands", "response">> }

\* No timestamp, one in seconds since the device's start, and one of a clock that
\* is ahead when the run begins.
MCStamps == {0, 1, 5}

AllFaults == {"mongo", "kafka", "stop", "crash"}
=============================================================================
