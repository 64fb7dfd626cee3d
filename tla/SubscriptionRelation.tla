------------------------ MODULE SubscriptionRelation ------------------------
(***************************************************************************)
(* What the subscription manager promises: a relation between clients and  *)
(* the topic patterns they hold, and nothing else.  A client that leaves   *)
(* takes every pattern it holds with it.                                   *)
(***************************************************************************)
CONSTANTS Clients, Patterns

VARIABLE subscribed  \* the pairs <<client, pattern>> in force

Init == subscribed = {}

Subscribe(client, pattern) ==
  subscribed' = subscribed \cup {<<client, pattern>>}

Unsubscribe(client, pattern) ==
  subscribed' = subscribed \ {<<client, pattern>>}

Leave(client) ==
  subscribed' = {held \in subscribed : held[1] # client}

Next ==
  \E client \in Clients :
    \/ \E pattern \in Patterns :
         Subscribe(client, pattern) \/ Unsubscribe(client, pattern)
    \/ Leave(client)

Spec == Init /\ [][Next]_subscribed
=============================================================================
