------------------------------ MODULE MCBroker ------------------------------
(* The broker with two or three connections, devices whose ids begin one    *)
(* another, and one topic and one pattern of each kind that tells them      *)
(* apart.                                                                   *)
EXTENDS Broker, TLC

MCExtends ==
  {<<s, s>> : s \in DeviceIds} \cup {<<s, EmptyId>> : s \in DeviceIds}
    \cup ({<<"d1", "d">>, <<"d10", "d">>, <<"d10", "d1">>} \cap (DeviceIds \X DeviceIds))

MCSpells == {<<"commands", "response">>}

Telemetry == <<"devices", "d10", "telemetry">>
Reboot    == <<"devices", "d1", "commands", "reboot">>

\* The topics and the patterns of a run.
TelemetryOnly  == {Telemetry}
Telemetries    == {Telemetry, <<"devices", "d", "telemetry">>}
Devices10      == {<<"devices", "d10", "#">>}
Devices10OrAll == {<<"devices", "d10", "#">>, <<"#">>}
RebootOnly     == {Reboot}
Commands1      == {<<"devices", "d1", "commands", "#">>}

Symmetry == Permutations(Conns)
=============================================================================
