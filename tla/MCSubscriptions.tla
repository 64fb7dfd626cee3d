-------------------------- MODULE MCSubscriptions --------------------------
(* Subscriptions with three clients and three patterns, among them a        *)
(* wildcard and the universal pattern "#", over three topics.               *)
EXTENDS Subscriptions

MCExtends == {<<s, s>> : s \in DeviceIds} \cup {<<"d10", "d1">>}

MCSpells == {<<"commands", "response">>}

MCTopicPatterns ==
  { <<"devices", "d1", "commands", "#">>,
    <<"devices", "d1", "telemetry">>,
    <<"#">> }

MCTopics ==
  { <<"devices", "d1", "commands", "reboot">>,
    <<"devices", "d1", "commands">>,
    <<"devices", "d1", "telemetry">>,
    <<"devices", "d10", "telemetry">> }
=============================================================================
