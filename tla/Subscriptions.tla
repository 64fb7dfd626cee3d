--------------------------- MODULE Subscriptions ---------------------------
(***************************************************************************)
(* SubscriptionManager of broker/subscriptions.py: two dictionaries that   *)
(* index one relation by pattern and by client.  The code deletes a        *)
(* pattern whose last client goes, keeps a client whose last pattern goes, *)
(* and relies on the client index alone to know what a client that leaves  *)
(* must be removed from.                                                   *)
(***************************************************************************)
EXTENDS TopicRules

CONSTANTS
  TopicNames,    \* the topics of the messages that are published
  TopicPatterns  \* the patterns that clients name

ASSUME SubscriptionsAssumption ==
  TopicNames \subseteq Seq(STRING) /\ TopicPatterns \subseteq Seq(STRING)

VARIABLES
  subscriptions,  \* pattern -> the clients that hold it
  clientSubs      \* client -> the patterns it holds

subVars == <<subscriptions, clientSubs>>

-----------------------------------------------------------------------------
\* d.get(key, set()): a key that is absent holds nothing.
At(dict, key) == IF key \in DOMAIN dict THEN dict[key] ELSE {}

\* d.setdefault(key, set()).add(x)
Added(dict, key, x) ==
  [k \in DOMAIN dict \cup {key} |->
     IF k = key THEN At(dict, key) \cup {x} ELSE dict[k]]

\* Fault: an emptied key is kept.
DiscardedKept(dict, keys, x) ==
  [k \in DOMAIN dict |-> IF k \in keys THEN dict[k] \ {x} ELSE dict[k]]

\* Discards x under each of the keys, and deletes the keys left empty by it.
Discarded(dict, keys, x) ==
  LET Left(k) == IF k \in keys THEN dict[k] \ {x} ELSE dict[k]
  IN  [k \in {j \in DOMAIN dict : j \in keys => Left(j) # {}} |-> Left(k)]

\* The clients that hold a pattern which matches the topic.
GetSubscribers(topic) ==
  UNION {subscriptions[p] : p \in {q \in DOMAIN subscriptions : Matches(q, topic)}}

-----------------------------------------------------------------------------
NoDict == [k \in {} |-> {}]

Init ==
  /\ subscriptions = NoDict
  /\ clientSubs = NoDict

\* Fault: a pattern is kept without its wildcard.
SubscribePrefix(client, pattern) ==
  LET Literal(segment) == segment # "#"
      prefix == SelectSeq(pattern, Literal)
  IN  /\ subscriptions' = Added(subscriptions, prefix, client)
      /\ clientSubs' = Added(clientSubs, client, prefix)

Subscribe(client, pattern) ==
  /\ subscriptions' = Added(subscriptions, pattern, client)
  /\ clientSubs' = Added(clientSubs, client, pattern)

\* The client keeps its entry even when no pattern is left in it.
Unsubscribe(client, pattern) ==
  /\ subscriptions' = Discarded(subscriptions, {pattern}, client)
  /\ clientSubs' = [c \in DOMAIN clientSubs |->
                      IF c = client THEN clientSubs[c] \ {pattern} ELSE clientSubs[c]]

\* Fault: the client's entry is read and not popped.
RemoveClientKeepEntry(client) ==
  /\ subscriptions' = Discarded(subscriptions, At(clientSubs, client), client)
  /\ clientSubs' = clientSubs

\* Fault: a pattern of the client goes, whoever else holds it.
RemoveClientPatterns(client) ==
  /\ subscriptions' = [k \in DOMAIN subscriptions \ At(clientSubs, client) |->
                         subscriptions[k]]
  /\ clientSubs' = [c \in DOMAIN clientSubs \ {client} |-> clientSubs[c]]

RemoveClient(client) ==
  /\ subscriptions' = Discarded(subscriptions, At(clientSubs, client), client)
  /\ clientSubs' = [c \in DOMAIN clientSubs \ {client} |-> clientSubs[c]]

Next ==
  \E client \in DeviceIds :
    \/ \E pattern \in TopicPatterns :
         Subscribe(client, pattern) \/ Unsubscribe(client, pattern)
    \/ RemoveClient(client)

Spec == Init /\ [][Next]_subVars

-----------------------------------------------------------------------------
(* Both dictionaries are over the patterns and the clients of the model. *)
TypeOK ==
  /\ \E held \in SUBSET TopicPatterns : subscriptions \in [held -> SUBSET DeviceIds]
  /\ \E known \in SUBSET DeviceIds : clientSubs \in [known -> SUBSET TopicPatterns]

(* The two dictionaries index the same relation.  Were the client index    *)
(* ever behind, remove_client would leave a departed client among the      *)
(* subscribers that handle_publish asks for.                               *)
IndexAgree ==
  \A client \in DeviceIds, pattern \in TopicPatterns :
    client \in At(subscriptions, pattern) <=> pattern \in At(clientSubs, client)

(* A publication reaches a client exactly when the client's own index holds *)
(* a pattern that is the topic, that ends in "#" and is the topic's         *)
(* beginning before it, or that is "#" (subscriptions.py get_subscribers,   *)
(* which reads the pattern index only).                                     *)
SubscribersHoldPattern ==
  \A topic \in TopicNames, client \in DeviceIds :
    client \in GetSubscribers(topic) <=>
      \E pattern \in At(clientSubs, client) :
        \/ pattern = topic
        \/ \E n \in 0 .. Len(topic) : pattern = SubSeq(topic, 1, n) \o <<"#">>

(* A pattern is a key only as long as somebody holds it, so the dictionary *)
(* that every publication scans does not keep the patterns of the past.    *)
NoEmptyPattern ==
  \A pattern \in DOMAIN subscriptions : subscriptions[pattern] # {}

-----------------------------------------------------------------------------
(* The relation that the pattern index stands for, and the specification   *)
(* of it that the manager implements.                                      *)
Subscribed ==
  {held \in DeviceIds \X TopicPatterns : held[1] \in At(subscriptions, held[2])}

Relation == INSTANCE SubscriptionRelation
              WITH Clients <- DeviceIds, Patterns <- TopicPatterns,
                   subscribed <- Subscribed

(* Every step of the manager is a step of the relation: a subscription, an *)
(* unsubscription, or a client that leaves with every pattern it holds.    *)
ImplementsRelation == Relation!Spec
=============================================================================
