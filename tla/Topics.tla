-------------------------------- MODULE Topics --------------------------------
(***************************************************************************)
(* How memories are grouped into topics (crates/seaki-memory/src/          *)
(* topic_clustering.rs).  An item is the set of its keywords.              *)
(***************************************************************************)
EXTENDS Naturals, Sequences, FiniteSets

CONSTANTS
  Lists,      \* the lists of items to be clustered: sequences of keyword sets
  Arrivals,   \* the keywords of an item that comes later
  Kept,       \* how many keywords a topic keeps (5)
  Above,      \* the threshold of similarity, <<numerator, denominator>>
  None

\* A topic: which items of the list it holds, and its keywords.
Topic == [members : SUBSET Nat, keywords : SUBSET Nat]

\* What the proofs in KnowledgeProofs need: keywords are numbered in their order.
TopicsAssumption ==
  /\ Lists \subseteq Seq(SUBSET Nat) /\ (\A list \in Lists : \A i \in DOMAIN list : IsFiniteSet(list[i]))
  /\ Arrivals \subseteq SUBSET Nat /\ (\A kws \in Arrivals : IsFiniteSet(kws))
  /\ Above \in Nat \X (Nat \ {0})
  /\ None \notin Nat /\ None \notin Seq(Topic)

VARIABLES items, topics, arrived, given

topicVars == <<items, topics, arrived, given>>

\* jaccard_similarity, as a fraction; no keywords at all are not similar.
Similarity(a, b) ==
  IF a \cup b = {} THEN <<0, 1>> ELSE <<Cardinality(a \cap b), Cardinality(a \cup b)>>

Less(p, q) == p[1] * q[2] < q[1] * p[2]

Similar(a, b) == Less(Above, Similarity(a, b))

\* Mutant: an item that has a topic is taken again by the next one.
FreeAgain(taken, j) == TRUE

Free(taken, j) == j \notin taken

\* An item that is free opens a topic and takes every later one that is free and
\* similar to it.
Opens(list, done, i) ==
  IF i \in done.taken THEN done
  ELSE LET mine == {i} \cup {j \in i + 1 .. Len(list) :
                               Free(done.taken, j) /\ Similar(list[i], list[j])}
       IN [taken |-> done.taken \cup mine, topics |-> Append(done.topics, mine)]

\* cluster_memory_items, cluster_cards: so does one item after the other.
Cluster(list) ==
  LET done[i \in 0 .. Len(list)] ==
        IF i = 0 THEN [taken |-> {}, topics |-> <<>>] ELSE Opens(list, done[i - 1], i)
  IN done[Len(list)].topics

\* generate_topic_name, top_keywords: a topic keeps the keywords that most members
\* have, the smaller one first when as many have them.
Keywords(list, members) ==
  LET All == UNION {list[i] : i \in members}
      Uses(k) == Cardinality({i \in members : k \in list[i]})
      Before(k) == {l \in All : Uses(l) > Uses(k) \/ (Uses(l) = Uses(k) /\ l < k)}
  IN {k \in All : Cardinality(Before(k)) < Kept}

\* Mutant: the last topic that is similar enough.
BestByOrder(k, l, kws, T) == k > l

\* assign_to_topic keeps the first of the most similar topics.
Best(k, l, kws, T) ==
  \/ Less(Similarity(kws, T[l]), Similarity(kws, T[k]))
  \/ ~Less(Similarity(kws, T[k]), Similarity(kws, T[l])) /\ k < l

\* The topic an item is assigned to; None when a new one is opened for it.
Assigned(kws, T) ==
  LET Near == {k \in DOMAIN T : Similar(kws, T[k])}
  IN IF Near = {} THEN None
     ELSE CHOOSE k \in Near : \A l \in Near \ {k} : Best(k, l, kws, T)

TopicsInit == items \in Lists /\ arrived \in Arrivals /\ topics = None /\ given = None

ClusterItems ==
  /\ topics = None
  /\ topics' = [k \in DOMAIN Cluster(items) |->
                  [members |-> Cluster(items)[k],
                   keywords |-> Keywords(items, Cluster(items)[k])]]
  /\ UNCHANGED <<items, arrived, given>>

AssignToTopic ==
  /\ topics # None /\ given = None
  /\ LET T == [k \in DOMAIN topics |-> topics[k].keywords]
         k == Assigned(arrived, T)
     IN IF k # None THEN given' = k /\ UNCHANGED topics
        ELSE /\ given' = Len(topics) + 1
             /\ topics' = Append(topics, [members |-> {}, keywords |-> arrived])
  /\ UNCHANGED <<items, arrived>>

TopicsNext == ClusterItems \/ AssignToTopic

TopicsSpec == TopicsInit /\ [][TopicsNext]_topicVars

------------------------------------------------------------------------------
(* What is asked of it *)

\* Every item is in exactly one topic, and two topics never begin with items that
\* are similar to each other: greedy clustering splits no two leaders that belong
\* together.
TopicsPartition ==
  topics # None =>
    /\ \A i \in DOMAIN items : Cardinality({k \in DOMAIN topics : i \in topics[k].members}) = 1
    /\ \A k, l \in DOMAIN topics :
         LET First(m) == CHOOSE i \in topics[m].members :
                           \A j \in topics[m].members : i <= j
         IN (k # l /\ topics[k].members # {} /\ topics[l].members # {}) =>
              ~Similar(items[First(k)], items[First(l)])

\* A later item joins a topic that no other topic comes closer to, and opens one of
\* its own only when no topic is similar enough.
JoinsTheClosest ==
  given # None =>
    \A k \in DOMAIN topics :
      /\ k # given => ~Less(Similarity(arrived, topics[given].keywords),
                            Similarity(arrived, topics[k].keywords))
      /\ topics[given].members = {} =>
           (k = given \/ ~Similar(arrived, topics[k].keywords))

=============================================================================
