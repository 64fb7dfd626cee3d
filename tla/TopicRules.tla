----------------------------- MODULE TopicRules -----------------------------
(***************************************************************************)
(* The rules that decide, for a topic name or a topic pattern, who may     *)
(* publish or subscribe to it, which patterns match it, and which Kafka    *)
(* topic a published message goes to: broker/acl.py,                       *)
(* SubscriptionManager._matches in broker/subscriptions.py and the topic   *)
(* choice at the head of KafkaMessageProducer.send_message.                *)
(*                                                                         *)
(* The code works on strings.  Here a topic or a pattern is the sequence   *)
(* of its segments, so that the topic devices/d1/telemetry is              *)
(* <<"devices", "d1", "telemetry">>.  In two places the code looks inside  *)
(* a segment: the subscribe rule compares string prefixes without a        *)
(* closing slash, and the topic choice looks for a word anywhere in the    *)
(* string.  Extends and SpellsResponse are the relations they need.        *)
(*                                                                         *)
(* A definition marked "Fault" is a plausible mistake in the code that the *)
(* definition after it translates; the properties are tried against it and *)
(* nothing else refers to it.                                              *)
(***************************************************************************)
EXTENDS Naturals, Sequences

CONSTANTS
  DeviceIds,  \* the device identifiers, each one segment long
  EmptyId,    \* the identifier "", which the CONNECT payload model accepts
  Extends,    \* the pairs <<s, d>> such that the string s starts with d
  SpellsResponse  \* the pairs <<s, t>> of segments such that the string s/t
                  \* contains "commands/response", as in old-commands/response-2

\* Every identifier starts with itself, and no identifier but "" is the
\* beginning of the wildcard "#".
ASSUME ExtendsAssumption ==
  /\ \A d \in DeviceIds : <<d, d>> \in Extends
  /\ \A d \in DeviceIds \ {EmptyId} : <<"#", d>> \notin Extends

\* The two words are a pair of segments that spells itself.
ASSUME SpellsResponseAssumption == <<"commands", "response">> \in SpellsResponse

TelemetryTopic == "iot.telemetry"
StatusTopic    == "iot.device-events"
ResponseTopic  == "iot.cmd-responses"

\* A device publishes below devices/{its id}/ and nowhere else.
CheckPublishAcl(d, topic) ==
  /\ Len(topic) >= 3
  /\ topic[1] = "devices"
  /\ topic[2] = d

\* Fault: the prefixes are compared the wrong way round, so that a pattern is
\* let through when it is the beginning of the device's own prefix.
CheckSubscribeAclReversed(d, pattern) ==
  \/ pattern \in {<<"#">>, <<"devices", "#">>}
  \/ /\ Len(pattern) >= 2
     /\ pattern[1] = "devices"
     /\ <<d, pattern[2]>> \in Extends

\* The rule strips the wildcard and the slashes that end the pattern, and the
\* slash that ends "devices/{id}/", before it compares prefixes.  What is left
\* of the identifier "" is "devices" alone.
CheckSubscribeAcl(d, pattern) ==
  IF d = EmptyId
  THEN Len(pattern) >= 1 /\ pattern[1] = "devices"
  ELSE /\ Len(pattern) >= 2
       /\ pattern[1] = "devices"
       /\ <<pattern[2], d>> \in Extends

\* Fault: without "topic == prefix", the wildcard needs one more segment.
MatchesBelowOnly(pattern, topic) ==
  \/ pattern = topic
  \/ /\ Len(pattern) >= 2
     /\ pattern[Len(pattern)] = "#"
     /\ Len(pattern) <= Len(topic)
     /\ \A i \in 1 .. Len(pattern) - 1 : pattern[i] = topic[i]
  \/ pattern = <<"#">>

\* An exact match, a pattern that ends in "/#" whose other segments begin the
\* topic (or are the whole of it), or the pattern "#".
Matches(pattern, topic) ==
  \/ pattern = topic
  \/ /\ Len(pattern) >= 2
     /\ pattern[Len(pattern)] = "#"
     /\ Len(pattern) - 1 <= Len(topic)
     /\ \A i \in 1 .. Len(pattern) - 1 : pattern[i] = topic[i]
  \/ pattern = <<"#">>

\* The Kafka topic of a message published on a topic; the first rule that
\* applies wins.
KafkaTopic(topic) ==
  LET EndsWith(segment) == Len(topic) >= 2 /\ topic[Len(topic)] = segment
      IsResponse == \E i \in 1 .. Len(topic) - 1 :
                       <<topic[i], topic[i + 1]>> \in SpellsResponse
  IN  IF EndsWith("telemetry") THEN TelemetryTopic
      ELSE IF EndsWith("status") \/ IsResponse THEN StatusTopic
      ELSE TelemetryTopic

=============================================================================
