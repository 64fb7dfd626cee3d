------------------------ MODULE SubscriptionsProofs ------------------------
(***************************************************************************)
(* Proofs about the subscription manager, for any set of clients and of    *)
(* patterns: its two dictionaries stay well formed and index one relation, *)
(* no pattern is kept empty, and it implements SubscriptionRelation.       *)
(*                                                                         *)
(* The lemmas say what the dictionary operators do to At, the lookup with  *)
(* a default; the theorems look at the dictionaries through At alone.      *)
(***************************************************************************)
EXTENDS Subscriptions, SequenceTheorems, TLAPS

-----------------------------------------------------------------------------
(* A key added to keeps what it held. *)
LEMMA AtAdded ==
  ASSUME NEW dict, NEW key, NEW x, NEW k
  PROVE  At(Added(dict, key, x), k) =
           IF k = key THEN At(dict, key) \cup {x} ELSE At(dict, k)
BY DEF At, Added

(* A key that is deleted because it was emptied still holds nothing. *)
LEMMA AtDiscarded ==
  ASSUME NEW dict, NEW keys, NEW x, NEW k
  PROVE  At(Discarded(dict, keys, x), k) =
           IF k \in keys THEN At(dict, k) \ {x} ELSE At(dict, k)
BY DEF At, Discarded

(* Adding to one key of a dictionary over K keeps it one over K. *)
LEMMA AddedType ==
  ASSUME NEW K, NEW V, NEW dict, NEW key \in K, NEW x \in V,
         \E held \in SUBSET K : dict \in [held -> SUBSET V]
  PROVE  \E held \in SUBSET K : Added(dict, key, x) \in [held -> SUBSET V]
<1>1. PICK held \in SUBSET K : dict \in [held -> SUBSET V]
  OBVIOUS
<1>2. Added(dict, key, x) \in [held \cup {key} -> SUBSET V]
  BY <1>1 DEF Added, At
<1> QED
  BY <1>2

(* Discarding from some keys of a dictionary over K keeps it one over K. *)
LEMMA DiscardedType ==
  ASSUME NEW K, NEW V, NEW dict, NEW keys, NEW x,
         \E held \in SUBSET K : dict \in [held -> SUBSET V]
  PROVE  \E held \in SUBSET K : Discarded(dict, keys, x) \in [held -> SUBSET V]
<1>1. PICK held \in SUBSET K : dict \in [held -> SUBSET V]
  OBVIOUS
<1> DEFINE left == DOMAIN Discarded(dict, keys, x)
<1>2. left \in SUBSET K
  BY <1>1 DEF Discarded
<1>3. Discarded(dict, keys, x) \in [left -> SUBSET V]
  BY <1>1 DEF Discarded
<1> QED
  BY <1>2, <1>3

-----------------------------------------------------------------------------
(* Type correctness, one step at a time: the broker's proof cites it too. *)
LEMMA StepType ==
  ASSUME TypeOK, [Next]_subVars
  PROVE  TypeOK'
<1>1. ASSUME NEW client \in DeviceIds, NEW pattern \in TopicPatterns,
             Subscribe(client, pattern)
      PROVE  TypeOK'
  BY <1>1, AddedType DEF TypeOK, Subscribe
<1>2. ASSUME NEW client \in DeviceIds, NEW pattern \in TopicPatterns,
             Unsubscribe(client, pattern)
      PROVE  TypeOK'
  <2>1. \E held \in SUBSET TopicPatterns : subscriptions' \in [held -> SUBSET DeviceIds]
    BY <1>2, DiscardedType DEF TypeOK, Unsubscribe
  <2>2. PICK known \in SUBSET DeviceIds : clientSubs \in [known -> SUBSET TopicPatterns]
    BY DEF TypeOK
  <2>3. clientSubs' \in [known -> SUBSET TopicPatterns]
    BY <1>2, <2>2 DEF Unsubscribe
  <2> QED
    BY <2>1, <2>3 DEF TypeOK
<1>3. ASSUME NEW client \in DeviceIds, RemoveClient(client)
      PROVE  TypeOK'
  <2>1. \E held \in SUBSET TopicPatterns : subscriptions' \in [held -> SUBSET DeviceIds]
    BY <1>3, DiscardedType DEF TypeOK, RemoveClient
  <2>2. PICK known \in SUBSET DeviceIds : clientSubs \in [known -> SUBSET TopicPatterns]
    BY DEF TypeOK
  <2>3. clientSubs' \in [known \ {client} -> SUBSET TopicPatterns]
    BY <1>3, <2>2 DEF RemoveClient
  <2> QED
    BY <2>1, <2>3 DEF TypeOK
<1>4. CASE UNCHANGED subVars
  BY <1>4 DEF TypeOK, subVars
<1> QED
  BY <1>1, <1>2, <1>3, <1>4 DEF Next

LEMMA InitType == Init => TypeOK
<1> SUFFICES ASSUME Init PROVE TypeOK
  OBVIOUS
<1>1. subscriptions \in [{} -> SUBSET DeviceIds] /\ clientSubs \in [{} -> SUBSET TopicPatterns]
  BY DEF Init, NoDict
<1> QED
  BY <1>1 DEF TypeOK

(* Both dictionaries stay over the clients and the patterns. *)
THEOREM TypeCorrect == Spec => []TypeOK
BY InitType, StepType, PTL DEF Spec

-----------------------------------------------------------------------------
(* What one step does to the two indexes, looked up with a default. *)

LEMMA AtUnsubscribed ==
  ASSUME NEW client, NEW pattern, Unsubscribe(client, pattern), NEW c
  PROVE  At(clientSubs', c) =
           IF c = client THEN At(clientSubs, c) \ {pattern} ELSE At(clientSubs, c)
BY DEF Unsubscribe, At

LEMMA AtRemoved ==
  ASSUME NEW client, RemoveClient(client), NEW c
  PROVE  At(clientSubs', c) = IF c = client THEN {} ELSE At(clientSubs, c)
BY DEF RemoveClient, At

(* The indexes agree after a step if they did before it.  For a client that *)
(* leaves, the patterns it is discarded from are those its own index names, *)
(* which by agreement are all that name it.                                 *)
LEMMA StepAgree ==
  ASSUME IndexAgree, [Next]_subVars
  PROVE  IndexAgree'
<1> SUFFICES ASSUME NEW c \in DeviceIds, NEW p \in TopicPatterns
             PROVE  c \in At(subscriptions', p) <=> p \in At(clientSubs', c)
  BY DEF IndexAgree
<1>0. c \in At(subscriptions, p) <=> p \in At(clientSubs, c)
  BY DEF IndexAgree
<1>1. ASSUME NEW client \in DeviceIds, NEW pattern \in TopicPatterns,
             Subscribe(client, pattern)
      PROVE  c \in At(subscriptions', p) <=> p \in At(clientSubs', c)
  <2>1. At(subscriptions', p) =
          IF p = pattern THEN At(subscriptions, pattern) \cup {client}
          ELSE At(subscriptions, p)
    BY <1>1, AtAdded DEF Subscribe
  <2>2. At(clientSubs', c) =
          IF c = client THEN At(clientSubs, client) \cup {pattern} ELSE At(clientSubs, c)
    BY <1>1, AtAdded DEF Subscribe
  <2> QED
    BY <1>0, <2>1, <2>2
<1>2. ASSUME NEW client \in DeviceIds, NEW pattern \in TopicPatterns,
             Unsubscribe(client, pattern)
      PROVE  c \in At(subscriptions', p) <=> p \in At(clientSubs', c)
  <2>1. At(subscriptions', p) =
          IF p \in {pattern} THEN At(subscriptions, p) \ {client}
          ELSE At(subscriptions, p)
    BY <1>2, AtDiscarded DEF Unsubscribe
  <2> QED
    BY <1>0, <1>2, <2>1, AtUnsubscribed
<1>3. ASSUME NEW client \in DeviceIds, RemoveClient(client)
      PROVE  c \in At(subscriptions', p) <=> p \in At(clientSubs', c)
  <2>1. At(subscriptions', p) =
          IF p \in At(clientSubs, client) THEN At(subscriptions, p) \ {client}
          ELSE At(subscriptions, p)
    BY <1>3, AtDiscarded DEF RemoveClient
  <2> QED
    BY <1>0, <1>3, <2>1, AtRemoved
<1>4. CASE UNCHANGED subVars
  BY <1>0, <1>4 DEF subVars
<1> QED
  BY <1>1, <1>2, <1>3, <1>4 DEF Next

LEMMA InitAgree == Init => IndexAgree
BY DEF Init, NoDict, IndexAgree, At

(* The pattern index and the client index always name the same relation,    *)
(* so remove_client, which consults the client index alone, removes a       *)
(* departed client from every pattern that holds it.                        *)
THEOREM IndexesAgree == Spec => []IndexAgree
BY InitAgree, StepAgree, PTL DEF Spec

(* The pattern index never keeps a pattern that nobody holds. *)
THEOREM PatternsHeld == Spec => []NoEmptyPattern
<1>1. Init => NoEmptyPattern
  BY DEF Init, NoDict, NoEmptyPattern
<1>2. ASSUME NoEmptyPattern, [Next]_subVars
      PROVE  NoEmptyPattern'
  <2>1. ASSUME NEW client \in DeviceIds, NEW pattern \in TopicPatterns,
               Subscribe(client, pattern)
        PROVE  NoEmptyPattern'
    BY <1>2, <2>1 DEF NoEmptyPattern, Subscribe, Added
  <2>2. ASSUME NEW client, NEW keys, subscriptions' = Discarded(subscriptions, keys, client)
        PROVE  NoEmptyPattern'
    BY <1>2, <2>2 DEF NoEmptyPattern, Discarded
  <2>3. CASE UNCHANGED subVars
    BY <1>2, <2>3 DEF NoEmptyPattern, subVars
  <2> QED
    BY <1>2, <2>1, <2>2, <2>3 DEF Next, Unsubscribe, RemoveClient
<1> QED
  BY <1>1, <1>2, PTL DEF Spec

-----------------------------------------------------------------------------
(* A pattern matches a topic when it is the topic, or a beginning of it,   *)
(* however short, with "#" behind it.                                      *)
LEMMA MatchesMeaning ==
  ASSUME NEW S, "#" \in S, NEW pattern \in Seq(S), NEW topic \in Seq(S)
  PROVE  Matches(pattern, topic) <=>
           \/ pattern = topic
           \/ \E n \in 0 .. Len(topic) : pattern = SubSeq(topic, 1, n) \o <<"#">>
<1>1. Len(topic) \in Nat /\ Len(pattern) \in Nat
  OBVIOUS
<1>2. ASSUME NEW n \in 0 .. Len(topic)
      PROVE  LET below == SubSeq(topic, 1, n) \o <<"#">>
             IN  /\ below \in Seq(S) /\ Len(below) = n + 1 /\ below[n + 1] = "#"
                 /\ \A i \in 1 .. n : below[i] = topic[i]
  <2>1. PICK start : start = SubSeq(topic, 1, n)
    OBVIOUS
  <2>2. start \in Seq(S) /\ Len(start) = n /\ \A i \in 1 .. n : start[i] = topic[i]
    <3>1. n \in Nat /\ n <= Len(topic) /\ \A i \in 1 .. n : topic[i] \in S
      BY <1>1
    <3>2. /\ start \in Seq(S)
          /\ Len(start) = IF 1 <= n THEN n - 1 + 1 ELSE 0
          /\ \A i \in 1 .. n - 1 + 1 : start[i] = topic[1 + i - 1]
      BY <2>1, <3>1, SubSeqProperties
    <3>3. QED
      BY <3>1, <3>2
  <2>3. <<"#">> \in Seq(S) /\ Len(<<"#">>) = 1 /\ <<"#">>[1] = "#"
    OBVIOUS
  <2>4. /\ start \o <<"#">> \in Seq(S) /\ Len(start \o <<"#">>) = n + 1
        /\ (start \o <<"#">>)[n + 1] = "#" /\ \A i \in 1 .. n : (start \o <<"#">>)[i] = start[i]
    BY <1>1, <2>2, <2>3
  <2>5. QED
    BY <2>1, <2>2, <2>4
<1>3. ASSUME NEW n \in 0 .. Len(topic), pattern = SubSeq(topic, 1, n) \o <<"#">>
      PROVE  Matches(pattern, topic)
  <2>1. /\ Len(pattern) = n + 1 /\ pattern[n + 1] = "#"
        /\ \A i \in 1 .. n : pattern[i] = topic[i]
    BY <1>2, <1>3
  <2>2. CASE n = 0
    <3>1. Len(pattern) = 1 /\ pattern[1] = "#"
      BY <2>1, <2>2
    <3>2. pattern = <<"#">>
      BY <3>1, SeqEqual
    <3>3. QED
      BY <3>2 DEF Matches
  <2>3. CASE n # 0
    <3>1. Len(pattern) >= 2 /\ Len(pattern) - 1 = n /\ n <= Len(topic) /\ pattern[Len(pattern)] = "#"
      BY <1>1, <2>1, <2>3
    <3>2. QED
      BY <2>1, <3>1 DEF Matches
  <2>4. QED
    BY <2>2, <2>3
<1>4. ASSUME Matches(pattern, topic), pattern # topic
      PROVE  \E n \in 0 .. Len(topic) : pattern = SubSeq(topic, 1, n) \o <<"#">>
  <2>1. PICK n : n = Len(pattern) - 1
    OBVIOUS
  <2>2. /\ n \in 0 .. Len(topic) /\ Len(pattern) = n + 1 /\ pattern[n + 1] = "#"
        /\ \A i \in 1 .. n : pattern[i] = topic[i]
    <3>1. CASE pattern = <<"#">>
      <4>1. Len(pattern) = 1 /\ pattern[1] = "#"
        BY <3>1
      <4>2. QED
        BY <1>1, <2>1, <4>1
    <3>2. CASE pattern # <<"#">>
      <4>1. /\ Len(pattern) >= 2 /\ pattern[Len(pattern)] = "#" /\ Len(pattern) - 1 <= Len(topic)
            /\ \A i \in 1 .. Len(pattern) - 1 : pattern[i] = topic[i]
        BY <1>4, <3>2 DEF Matches
      <4>2. QED
        BY <1>1, <2>1, <4>1
    <3>3. QED
      BY <3>1, <3>2
  <2>3. PICK below : below = SubSeq(topic, 1, n) \o <<"#">>
    OBVIOUS
  <2>4. /\ below \in Seq(S) /\ Len(below) = n + 1 /\ below[n + 1] = "#"
        /\ \A i \in 1 .. n : below[i] = topic[i]
    BY <1>2, <2>2, <2>3
  <2>5. \A i \in 1 .. n + 1 : i \in 1 .. n \/ i = n + 1
    BY <2>2
  <2>6. \A i \in 1 .. Len(pattern) : pattern[i] = below[i]
    BY <2>2, <2>4, <2>5
  <2>7. pattern = below
    BY <2>2, <2>4, <2>6, SeqEqual
  <2>8. QED
    BY <2>2, <2>3, <2>7
<1>5. Matches(topic, topic)
  BY DEF Matches
<1>6. QED
  BY <1>3, <1>4, <1>5

(* A publication reaches the clients whose own index holds a pattern for   *)
(* its topic, and no others: get_subscribers, which reads the index of the *)
(* patterns only, never misses one and never finds one that has left.      *)
THEOREM SubscribersFound == Spec => []SubscribersHoldPattern
<1>1. ASSUME TypeOK, IndexAgree, NEW topic \in TopicNames, NEW client \in DeviceIds
      PROVE  client \in GetSubscribers(topic) <=>
               \E pattern \in At(clientSubs, client) :
                 \/ pattern = topic
                 \/ \E n \in 0 .. Len(topic) : pattern = SubSeq(topic, 1, n) \o <<"#">>
  <2>1. /\ DOMAIN subscriptions \subseteq TopicPatterns
        /\ At(clientSubs, client) \subseteq TopicPatterns
    BY <1>1 DEF TypeOK, At
  <2>2. client \in GetSubscribers(topic) <=>
          \E p \in TopicPatterns : Matches(p, topic) /\ client \in At(subscriptions, p)
    BY <2>1 DEF GetSubscribers, At
  <2>3. (\E p \in TopicPatterns : Matches(p, topic) /\ client \in At(subscriptions, p))
          <=> \E p \in At(clientSubs, client) : Matches(p, topic)
    BY <1>1, <2>1 DEF IndexAgree
  <2>4. \A p \in TopicPatterns :
          Matches(p, topic) <=>
            \/ p = topic
            \/ \E n \in 0 .. Len(topic) : p = SubSeq(topic, 1, n) \o <<"#">>
    <3>1. PICK S : S = STRING \cup {"#"}
      OBVIOUS
    <3>2. \A p \in Seq(STRING) : p \in Seq(S)
      BY <3>1, SeqMonotonic
    <3>3. "#" \in S /\ topic \in Seq(S) /\ \A p \in TopicPatterns : p \in Seq(S)
      BY <3>1, <3>2, SubscriptionsAssumption
    <3>4. QED
      BY <3>3, MatchesMeaning
  <2>5. QED
    BY <2>1, <2>2, <2>3, <2>4
<1>2. TypeOK /\ IndexAgree => SubscribersHoldPattern
  BY <1>1 DEF SubscribersHoldPattern
<1>3. QED
  BY <1>2, TypeCorrect, IndexesAgree, PTL

-----------------------------------------------------------------------------
(* Every step of the manager is a step of the relation it stands for. *)
LEMMA StepRefines ==
  ASSUME IndexAgree, [Next]_subVars
  PROVE  [Relation!Next]_Subscribed
<1>1. ASSUME NEW client \in DeviceIds, NEW pattern \in TopicPatterns,
             Subscribe(client, pattern)
      PROVE  Relation!Subscribe(client, pattern)
  <2>1. \A p : At(subscriptions', p) =
          IF p = pattern THEN At(subscriptions, pattern) \cup {client}
          ELSE At(subscriptions, p)
    BY <1>1, AtAdded DEF Subscribe
  <2> QED
    BY <2>1 DEF Subscribed, Relation!Subscribe
<1>2. ASSUME NEW client \in DeviceIds, NEW pattern \in TopicPatterns,
             Unsubscribe(client, pattern)
      PROVE  Relation!Unsubscribe(client, pattern)
  <2>1. \A p : At(subscriptions', p) =
          IF p \in {pattern} THEN At(subscriptions, p) \ {client}
          ELSE At(subscriptions, p)
    BY <1>2, AtDiscarded DEF Unsubscribe
  <2> QED
    BY <2>1 DEF Subscribed, Relation!Unsubscribe
<1>3. ASSUME NEW client \in DeviceIds, RemoveClient(client)
      PROVE  Relation!Leave(client)
  <2>1. \A p : At(subscriptions', p) =
          IF p \in At(clientSubs, client) THEN At(subscriptions, p) \ {client}
          ELSE At(subscriptions, p)
    BY <1>3, AtDiscarded DEF RemoveClient
  <2>2. \A p \in TopicPatterns : client \in At(subscriptions, p) => p \in At(clientSubs, client)
    BY DEF IndexAgree
  <2> QED
    BY <2>1, <2>2 DEF Subscribed, Relation!Leave
<1>4. CASE UNCHANGED subVars
  BY <1>4 DEF subVars, Subscribed
<1> QED
  BY <1>1, <1>2, <1>3, <1>4 DEF Next, Relation!Next

(* The manager implements the relation between clients and patterns: a      *)
(* client that leaves takes exactly its own patterns with it.               *)
THEOREM Implementation == Spec => ImplementsRelation
<1>1. Init => Relation!Init
  BY DEF Init, NoDict, At, Subscribed, Relation!Init
<1> QED
  BY <1>1, StepRefines, IndexesAgree, PTL DEF Spec, ImplementsRelation, Relation!Spec
=============================================================================
