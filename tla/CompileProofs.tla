---------------------------- MODULE CompileProofs ----------------------------
(***************************************************************************)
(* Proofs about the pipeline compilers, for every graph and every order of *)
(* its nodes: what a depth-first search and Kahn's algorithm find, and     *)
(* what is compiled with them.  The lemmas on numbers and recursion at the *)
(* beginning serve AssistantProofs too.                                    *)
(***************************************************************************)
EXTENDS Assistant, FiniteSetTheorems, FunctionTheorems, SequenceTheorems, WellFoundedInduction,
        Functions, TLAPS

------------------------------------------------------------------------------
(* Numbers and recursion *)

\* A nonempty set of naturals has a least element.
LEMMA Least == ASSUME NEW T, T \subseteq Nat, T # {} PROVE \E n \in T : \A m \in T : n <= m
<1>1. \E n \in T : \A m \in T : ~(<<m, n>> \in OpToRel(<, Nat))
  BY NatLessThanWellFounded, WFMin
<1>2. ASSUME NEW n \in Nat, NEW m \in Nat, m < n PROVE <<m, n>> \in OpToRel(<, Nat)
  BY <1>2 DEF OpToRel
<1>3. \E n \in T : \A m \in T : ~(m < n)
  BY Zenon, <1>1, <1>2
<1>4. QED
  BY <1>3

\* A set of numbers no larger than m has a greatest.
LEMMA Greatest ==
  ASSUME NEW m \in Nat, NEW T, T \subseteq 1 .. m, T # {}
  PROVE  \E n \in T : \A k \in T : k <= n
<1> DEFINE U == {n \in Nat : m - n \in T}
<1>1. \A k \in T : m - k \in U
  BY m \in Nat, T \subseteq 1 .. m
<1>2. U \subseteq Nat /\ U # {}
  BY <1>1
<1>3. PICK n \in U : \A k \in U : n <= k
  <2> HIDE DEF U
  <2>1. QED
    BY <1>2, Least
<1>4. \A k \in T : k <= m - n
  <2>1. ASSUME NEW k \in T PROVE k <= m - n
    <3>1. k \in Nat /\ n <= m - k /\ n \in Nat
      BY <1>1, <1>3
    <3>2. QED
      BY ONLY m \in Nat, <3>1
  <2>2. QED
    BY <2>1
<1>5. m - n \in T
  BY <1>3
<1>6. QED
  BY <1>4, <1>5

\* A set of numbers that begins with 0 and has the next of each is all of them.
LEMMA StepByStep ==
  ASSUME NEW m \in Nat, NEW T, 0 \in T, \A k \in 1 .. m : k - 1 \in T => k \in T
  PROVE  \A k \in 0 .. m : k \in T
<1> DEFINE bad == {k \in 0 .. m : k \notin T}
<1>1. SUFFICES ASSUME bad # {} PROVE FALSE
  OBVIOUS
<1>2. PICK n \in bad : \A k \in bad : n <= k
  <2>1. bad \subseteq Nat
    OBVIOUS
  <2>2. QED
    BY <1>1, <2>1, Least
<1>3. n \in 1 .. m /\ n - 1 \in 0 .. m /\ ~(n <= n - 1)
  BY <1>2
<1>4. n - 1 \in T
  BY <1>2, <1>3
<1>5. QED
  BY <1>2, <1>3, <1>4

\* A function on 0 .. m that each value of determines the next.
FollowsFrom(f, a, step, m) == f = [k \in 0 .. m |-> IF k = 0 THEN a ELSE step[k][f[k - 1]]]

\* There is one from every beginning.
LEMMA Recursion ==
  ASSUME NEW S, NEW a \in S, NEW m \in Nat, NEW step \in [1 .. m -> [S -> S]]
  PROVE  \E f \in [0 .. m -> S] : FollowsFrom(f, a, step, m)
<1> DEFINE T == {n \in 0 .. m : \E f \in [0 .. n -> S] : FollowsFrom(f, a, step, n)}
<1>1. 0 \in T
  <2>1. [k \in 0 .. 0 |-> a] \in [0 .. 0 -> S] /\ FollowsFrom([k \in 0 .. 0 |-> a], a, step, 0)
    BY DEF FollowsFrom
  <2>2. QED
    BY <2>1
<1>2. ASSUME NEW n \in 1 .. m, n - 1 \in T PROVE n \in T
  <2>1. PICK f \in [0 .. n - 1 -> S] : FollowsFrom(f, a, step, n - 1)
    BY <1>2
  <2>0. n \in Nat /\ n # 0 /\ step[n] \in [S -> S] /\ n - 1 \in 0 .. n - 1
    OBVIOUS
  <2> DEFINE g == [k \in 0 .. n |-> IF k = n THEN step[n][f[n - 1]] ELSE f[k]]
  <2>2. \A k \in 0 .. n - 1 : f[k] = IF k = 0 THEN a ELSE step[k][f[k - 1]]
    BY <2>1 DEF FollowsFrom
  <2>3. \A k \in 0 .. n - 1 : k \in 0 .. n /\ k # n /\ g[k] = f[k]
    BY <2>0
  <2>4. g[n] = step[n][f[n - 1]] /\ f[n - 1] \in S /\ step[n][f[n - 1]] \in S
    BY <2>0, <2>1
  <2>5. g \in [0 .. n -> S]
    <3>1. \A k \in 0 .. n : k # n => k \in 0 .. n - 1
      BY <2>0
    <3>2. QED
      BY <2>1, <2>4, <3>1
  <2>6. ASSUME NEW k \in 0 .. n PROVE g[k] = IF k = 0 THEN a ELSE step[k][g[k - 1]]
    <3>1. CASE k = n
      <4>1. g[k - 1] = f[n - 1]
        BY <2>0, <2>3, <3>1
      <4>2. QED
        BY <2>0, <2>3, <2>4, <3>1, <4>1
    <3>2. CASE k = 0
      BY <2>0, <2>2, <2>3, <3>2
    <3>3. CASE k # n /\ k # 0
      <4>1. k \in 0 .. n - 1 /\ k - 1 \in 0 .. n - 1
        BY <2>0, <3>3
      <4>2. g[k] = f[k] /\ g[k - 1] = f[k - 1]
        BY <2>3, <4>1
      <4>3. QED
        BY <2>2, <3>3, <4>1, <4>2
    <3>4. QED
      BY <3>1, <3>2, <3>3
  <2>7. g = [k \in 0 .. n |-> g[k]]
    OBVIOUS
  <2>8. FollowsFrom(g, a, step, n)
    <3> HIDE DEF g
    <3>1. QED
      BY <2>6, <2>7 DEF FollowsFrom
  <2>9. QED
    BY <2>5, <2>8
<1>3. m \in T
  <2> HIDE DEF T
  <2>1. \A k \in 1 .. m : k - 1 \in T => k \in T
    BY <1>2
  <2>2. \A k \in 0 .. m : k \in T
    BY <1>1, <2>1, StepByStep
  <2>3. QED
    BY <2>2
<1>4. QED
  BY <1>3

------------------------------------------------------------------------------
(* Graphs *)

\* A sequence as it is filtered element after element.
Filtering(f, S, s, T) ==
  /\ f \in [0 .. Len(s) -> Seq(S)]
  /\ f[0] = <<>>
  /\ \A n \in 1 .. Len(s) : f[n] = IF s[n] \in T THEN Append(f[n - 1], s[n]) ELSE f[n - 1]
  /\ CO!Filtered(s, T) = f[Len(s)]

\* Every sequence is filtered so.
LEMMA FilteredSteps ==
  ASSUME NEW S, NEW s \in Seq(S), NEW T
  PROVE  \E f : Filtering(f, S, s, T)
<1>0. PICK m \in Nat : m = Len(s) /\ s \in [1 .. m -> S]
  BY LenProperties
<1> DEFINE next(n, u) == IF s[n] \in T THEN Append(u, s[n]) ELSE u
           Up(f) == f = [n \in 0 .. m |-> IF n = 0 THEN <<>> ELSE next(n, f[n - 1])]
           step == [n \in 1 .. m |-> [u \in Seq(S) |-> next(n, u)]]
           g == CHOOSE f : Up(f)
<1>1. \A n \in 1 .. m : \A u \in Seq(S) : next(n, u) \in Seq(S)
  <2>1. ASSUME NEW n \in 1 .. m, NEW u \in Seq(S) PROVE next(n, u) \in Seq(S)
    <3>1. PICK x \in S : x = s[n]
      BY <1>0
    <3>2. Append(u, x) \in Seq(S)
      OBVIOUS
    <3>3. QED
      BY <3>1, <3>2
  <2>2. QED
    BY <2>1
<1>2. \E f \in [0 .. m -> Seq(S)] : Up(f)
  <2> HIDE DEF next
  <2>1. step \in [1 .. m -> [Seq(S) -> Seq(S)]]
    BY <1>1
  <2>2. PICK f \in [0 .. m -> Seq(S)] : FollowsFrom(f, <<>>, step, m)
    <3>1. <<>> \in Seq(S)
      OBVIOUS
    <3> HIDE DEF step
    <3>2. QED
      BY <1>0, <2>1, <3>1, Recursion
  <2>3. ASSUME NEW n \in 0 .. m, n # 0 PROVE step[n][f[n - 1]] = next(n, f[n - 1])
    <3>1. n \in 1 .. m /\ n - 1 \in 0 .. m
      BY <1>0, <2>3
    <3>2. f[n - 1] \in Seq(S)
      BY <3>1
    <3>3. QED
      BY <3>1, <3>2
  <2>4. Up(f)
    <3> HIDE DEF step
    <3>1. QED
      BY <2>2, <2>3 DEF FollowsFrom
  <2>5. QED
    BY <2>4
<1>3. Up(g)
  BY <1>2
<1>4. CO!Filtered(s, T) = g[m]
  BY <1>0 DEF CO!Filtered
<1> HIDE DEF g
<1>5. /\ g = [n \in 0 .. m |-> g[n]]
      /\ \A n \in 0 .. m : g[n] = IF n = 0 THEN <<>> ELSE next(n, g[n - 1])
  <2> HIDE DEF next
  <2>1. QED
    BY <1>3
<1>6. \A n \in 0 .. m : g[n] \in Seq(S)
  <2> HIDE DEF next
  <2> DEFINE R == {n \in 0 .. m : g[n] \in Seq(S)}
  <2>1. 0 \in R
    BY <1>0, <1>5
  <2>2. ASSUME NEW n \in 1 .. m, n - 1 \in R PROVE n \in R
    <3>1. n \in 0 .. m /\ n # 0 /\ g[n - 1] \in Seq(S)
      BY <1>0, <2>2
    <3>2. QED
      BY <1>1, <1>5, <3>1
  <2>3. \A n \in 0 .. m : n \in R
    <3> HIDE DEF R
    <3>1. QED
      BY <1>0, <2>1, <2>2, StepByStep
  <2>4. QED
    BY <2>3
<1>7. g \in [0 .. m -> Seq(S)]
  BY <1>5, <1>6
<1>8. g[0] = <<>>
  <2> HIDE DEF next
  <2>1. QED
    BY <1>0, <1>5
<1>9. \A n \in 1 .. m : g[n] = next(n, g[n - 1])
  <2> HIDE DEF next
  <2>1. QED
    BY <1>0, <1>5
<1>10. Filtering(g, S, s, T)
  BY <1>0, <1>4, <1>7, <1>8, <1>9 DEF Filtering
<1>11. QED
  BY <1>10

\* An element of a sequence.
Has(s, x) == \E k \in 1 .. Len(s) : s[k] = x

\* u has the elements of s that are in T, in their order.
IsFiltered(u, S, s, T) ==
  /\ u \in Seq(S)
  /\ \A x : Has(u, x) <=> x \in T /\ Has(s, x)
  /\ \A j, k \in 1 .. Len(u) : j < k =>
       \E a, b \in 1 .. Len(s) : a < b /\ u[j] = s[a] /\ u[k] = s[b]

\* So has what is filtered out of a sequence.
LEMMA FilteredIs ==
  ASSUME NEW S, NEW s \in Seq(S), NEW T
  PROVE  IsFiltered(CO!Filtered(s, T), S, s, T)
<1>0. PICK m \in Nat : m = Len(s) /\ s \in [1 .. m -> S]
  BY LenProperties
<1>1. PICK f : Filtering(f, S, s, T)
  BY FilteredSteps
<1>2. /\ f \in [0 .. m -> Seq(S)] /\ f[0] = <<>> /\ CO!Filtered(s, T) = f[m]
      /\ \A n \in 1 .. m : f[n] = IF s[n] \in T THEN Append(f[n - 1], s[n]) ELSE f[n - 1]
  BY <1>0, <1>1 DEF Filtering
<1> DEFINE Right(u, n) ==
             /\ \A x : (\E k \in 1 .. Len(u) : u[k] = x) <=> x \in T /\ \E i \in 1 .. n : s[i] = x
             /\ \A j, k \in 1 .. Len(u) : j < k =>
                  \E a, b \in 1 .. n : a < b /\ u[j] = s[a] /\ u[k] = s[b]
           R == {n \in 0 .. m : Right(f[n], n)}
<1>3. 0 \in R
  BY <1>0, <1>2
<1>4. ASSUME NEW n \in 1 .. m, n - 1 \in R PROVE n \in R
  <2>0. n \in 0 .. m /\ n - 1 \in 0 .. m /\ n - 1 \in Nat /\ n \in Nat
    OBVIOUS
  <2>1. PICK u \in Seq(S), x \in S : u = f[n - 1] /\ x = s[n]
    BY <1>0, <1>2, <2>0
  <2>2. Right(u, n - 1)
    BY <1>4, <2>1
  <2>3. \A i : i \in 1 .. n <=> i \in 1 .. n - 1 \/ i = n
    BY <2>0
  <2>4. CASE x \notin T
    <3>1. f[n] = u
      BY <1>2, <2>1, <2>4
    <3>2. Right(u, n)
      BY <2>1, <2>2, <2>3, <2>4
    <3> HIDE DEF Right
    <3>3. QED
      BY <2>0, <3>1, <3>2
  <2>5. CASE x \in T
    <3>1. PICK v \in Seq(S) : v = Append(u, x) /\ f[n] = v
      BY <1>2, <2>1, <2>5, AppendProperties
    <3>2. /\ Len(v) = Len(u) + 1 /\ Len(u) \in Nat /\ v[Len(v)] = x
          /\ \A k \in 1 .. Len(u) : v[k] = u[k]
      BY <3>1, AppendProperties, LenProperties
    <3>3. \A k : k \in 1 .. Len(v) <=> k \in 1 .. Len(u) \/ k = Len(v)
      BY <3>2
    <3>4. \A y : (\E k \in 1 .. Len(v) : v[k] = y) <=> y \in T /\ \E i \in 1 .. n : s[i] = y
      <4>1. \A y : (\E k \in 1 .. Len(v) : v[k] = y) <=> (\E k \in 1 .. Len(u) : u[k] = y) \/ y = x
        BY <3>2, <3>3
      <4>2. \A y : (\E i \in 1 .. n : s[i] = y) <=> (\E i \in 1 .. n - 1 : s[i] = y) \/ y = x
        BY <2>1, <2>3
      <4>3. QED
        BY <2>2, <2>5, <4>1, <4>2
    <3>5. ASSUME NEW j \in 1 .. Len(v), NEW k \in 1 .. Len(v), j < k
          PROVE  \E a, b \in 1 .. n : a < b /\ v[j] = s[a] /\ v[k] = s[b]
      <4>1. CASE k \in 1 .. Len(u)
        <5>1. j \in 1 .. Len(u)
          BY <3>2, <3>5, <4>1
        <5>2. PICK a \in 1 .. n - 1, b \in 1 .. n - 1 : a < b /\ u[j] = s[a] /\ u[k] = s[b]
          BY <2>2, <3>5, <4>1, <5>1
        <5>3. QED
          BY <2>3, <3>2, <4>1, <5>1, <5>2
      <4>2. CASE k = Len(v)
        <5>1. j \in 1 .. Len(u)
          BY <3>2, <3>5, <4>2
        <5>2. PICK a \in 1 .. n - 1 : s[a] = u[j]
          BY <2>2, <5>1
        <5>3. a \in 1 .. n /\ n \in 1 .. n /\ a < n
          BY <2>0
        <5>4. v[j] = s[a] /\ v[k] = s[n]
          BY <2>1, <3>2, <4>2, <5>1, <5>2
        <5>5. QED
          BY <5>3, <5>4
      <4>3. QED
        BY <3>3, <4>1, <4>2
    <3>6. Right(v, n)
      BY <3>4, <3>5
    <3> HIDE DEF Right
    <3>7. QED
      BY <2>0, <3>1, <3>6
  <2>6. QED
    BY <2>4, <2>5
<1>5. Right(f[m], m)
  <2>1. \A n \in 0 .. m : n \in R
    <3> HIDE DEF R
    <3>1. QED
      BY <1>0, <1>3, <1>4, StepByStep
  <2>2. m \in R
    <3> HIDE DEF R
    <3>1. QED
      BY <1>0, <2>1
  <2> HIDE DEF Right
  <2>3. QED
    BY <2>2
<1>6. f[m] \in Seq(S)
  BY <1>0, <1>2
<1>7. PICK u \in Seq(S) : u = f[m]
  BY <1>6
<1>8. Right(u, m)
  <2> HIDE DEF Right
  <2>1. QED
    BY <1>5, <1>7
<1>9. IsFiltered(u, S, s, T)
  BY <1>0, <1>8 DEF IsFiltered, Has
<1>10. QED
  BY <1>2, <1>7, <1>9

\* The compiler's module counts as this one does.
LEMMA CountedAlike == \A S : (CO!IsFiniteSet(S) <=> IsFiniteSet(S)) /\ CO!Cardinality(S) = Cardinality(S)
<1>1. \A S : CO!IsFiniteSet(S) <=> IsFiniteSet(S)
  BY DEF CO!IsFiniteSet, IsFiniteSet
<1>2. \A S : CO!Cardinality(S) = Cardinality(S)
  BY DEF CO!Cardinality, Cardinality
<1>3. QED
  BY <1>1, <1>2

\* A graph whose edges, entry and exits are nodes it has, of which there are so many.
LEMMA NodesAreFinite ==
  ASSUME CO!GraphAssumption(graph)
  PROVE  IsFiniteSet(CO!NodesOf) /\ Cardinality(CO!NodesOf) \in Nat
<1>1. PICK N : N = CO!NodesOf
  OBVIOUS
<1>2. IsFiniteSet(N)
  BY <1>1, CountedAlike DEF CO!GraphAssumption, CO!NodesOf
<1>3. QED
  BY <1>1, <1>2, FS_CardinalityType

\* Edges lead from node to node.
LEMMA EdgesAre ==
  ASSUME CO!GraphAssumption(graph)
  PROVE  /\ DOMAIN graph.edges = 1 .. Len(graph.edges) /\ Len(graph.edges) \in Nat
         /\ \A k \in 1 .. Len(graph.edges) :
              /\ graph.edges[k] = <<graph.edges[k][1], graph.edges[k][2]>>
              /\ graph.edges[k][1] \in CO!NodesOf /\ graph.edges[k][2] \in CO!NodesOf
              /\ CO!Edge(graph.edges[k][1], graph.edges[k][2])
         /\ \A a, b : CO!Edge(a, b) => a \in CO!NodesOf /\ b \in CO!NodesOf
<1> DEFINE N == CO!NodesOf
<1>1. PICK s \in Seq(N \X N) : s = graph.edges
  BY DEF CO!GraphAssumption, CO!NodesOf
<1> HIDE DEF N
<1>2. DOMAIN s = 1 .. Len(s) /\ Len(s) \in Nat /\ \A k \in 1 .. Len(s) : s[k] \in N \X N
  BY LenProperties, ElementOfSeq
<1>3. \A k \in 1 .. Len(s) : s[k] = <<s[k][1], s[k][2]>> /\ s[k][1] \in N /\ s[k][2] \in N
  BY <1>2
<1>4. \A a, b : CO!Edge(a, b) <=> \E k \in 1 .. Len(s) : s[k] = <<a, b>>
  BY <1>1, <1>2 DEF CO!Edge
<1>5. \A a, b : CO!Edge(a, b) => a \in N /\ b \in N
  BY <1>3, <1>4
<1>6. QED
  BY <1>1, <1>2, <1>3, <1>4, <1>5 DEF N

\* The successors of a node are where its edges lead.
LEMMA OutgoingIs ==
  ASSUME CO!GraphAssumption(graph), NEW node \in CO!NodesOf
  PROVE  /\ CO!Outgoing(node) \in Seq(CO!NodesOf)
         /\ \A b : (\E k \in 1 .. Len(CO!Outgoing(node)) : CO!Outgoing(node)[k] = b) <=> CO!Edge(node, b)
<1>1. PICK N, s : N = CO!NodesOf /\ s = graph.edges /\ s \in Seq(N \X N) /\ node \in N
  BY DEF CO!GraphAssumption, CO!NodesOf
<1>2. PICK T, P : T = {node} \X N /\ P = N \X N
  OBVIOUS
<1>3. PICK u \in Seq(P) :
        /\ u = CO!Filtered(s, T)
        /\ \A x : (\E k \in 1 .. Len(u) : u[k] = x) <=> x \in T /\ \E n \in 1 .. Len(s) : s[n] = x
  <2>1. s \in Seq(P)
    BY <1>1, <1>2
  <2>2. IsFiltered(CO!Filtered(s, T), P, s, T)
    BY <2>1, FilteredIs
  <2>3. QED
    BY <2>2 DEF IsFiltered, Has
<1>4. /\ DOMAIN u = 1 .. Len(u) /\ Len(u) \in Nat
      /\ \A k \in 1 .. Len(u) : u[k] \in T /\ u[k][1] = node /\ u[k][2] \in N /\ u[k] = <<node, u[k][2]>>
  <2>1. \A k \in 1 .. Len(u) : u[k] \in T
    BY <1>3
  <2>2. \A x \in T : x[1] = node /\ x[2] \in N /\ x = <<node, x[2]>>
    BY <1>2
  <2>3. QED
    BY <2>1, <2>2, LenProperties
<1>5. CO!Outgoing(node) = [k \in 1 .. Len(u) |-> u[k][2]]
  BY <1>1, <1>2, <1>3, <1>4 DEF CO!Outgoing
<1>6. PICK v \in Seq(N) : v = CO!Outgoing(node) /\ Len(v) = Len(u) /\ \A k \in 1 .. Len(u) : v[k] = u[k][2]
  <2> DEFINE w == [k \in 1 .. Len(u) |-> u[k][2]]
  <2>1. w \in [1 .. Len(u) -> N]
    BY <1>4
  <2>2. w \in Seq(N) /\ Len(w) = Len(u)
    BY <1>4, <2>1
  <2>3. QED
    BY <1>5, <2>2
<1>7. \A b : CO!Edge(node, b) <=> \E n \in 1 .. Len(s) : s[n] = <<node, b>>
  BY <1>1, EdgesAre DEF CO!Edge
<1>8. \A b : CO!Edge(node, b) => b \in N
  BY <1>1, EdgesAre
<1>9. ASSUME NEW b PROVE (\E k \in 1 .. Len(v) : v[k] = b) <=> CO!Edge(node, b)
  <2>1. ASSUME NEW k \in 1 .. Len(v), v[k] = b PROVE CO!Edge(node, b)
    <3>1. u[k] = <<node, b>>
      BY <1>4, <1>6, <2>1
    <3>2. \E n \in 1 .. Len(s) : s[n] = <<node, b>>
      BY <1>3, <1>6, <3>1
    <3>3. QED
      BY <1>7, <3>2
  <2>2. ASSUME CO!Edge(node, b) PROVE \E k \in 1 .. Len(v) : v[k] = b
    <3>1. <<node, b>> \in T
      BY <1>2, <1>8, <2>2
    <3>2. PICK k \in 1 .. Len(u) : u[k] = <<node, b>>
      BY <1>3, <1>7, <2>2, <3>1
    <3>3. QED
      BY <1>6, <3>2
  <2>3. QED
    BY <2>1, <2>2
<1>10. QED
  BY <1>1, <1>6, <1>9

\* A node has no predecessor when no edge leads to it.
LEMMA IncomingIs ==
  ASSUME CO!GraphAssumption(graph), NEW node \in CO!NodesOf
  PROVE  CO!Incoming(node) = <<>> <=> \A a : ~CO!Edge(a, node)
<1>1. PICK N, s : N = CO!NodesOf /\ s = graph.edges /\ s \in Seq(N \X N) /\ node \in N
  BY DEF CO!GraphAssumption, CO!NodesOf
<1>2. PICK T, P : T = N \X {node} /\ P = N \X N
  OBVIOUS
<1>3. PICK u \in Seq(P) :
        /\ u = CO!Filtered(s, T)
        /\ \A x : (\E k \in 1 .. Len(u) : u[k] = x) <=> x \in T /\ \E n \in 1 .. Len(s) : s[n] = x
  <2>1. s \in Seq(P)
    BY <1>1, <1>2
  <2>2. IsFiltered(CO!Filtered(s, T), P, s, T)
    BY <2>1, FilteredIs
  <2>3. QED
    BY <2>2 DEF IsFiltered, Has
<1>4. DOMAIN u = 1 .. Len(u) /\ Len(u) \in Nat
  BY LenProperties
<1>5. CO!Incoming(node) = [k \in 1 .. Len(u) |-> u[k][1]]
  BY <1>1, <1>2, <1>3, <1>4 DEF CO!Incoming
<1>6. CO!Incoming(node) = <<>> <=> Len(u) = 0
  BY <1>4, <1>5
<1>7. \A a : CO!Edge(a, node) <=> a \in N /\ \E n \in 1 .. Len(s) : s[n] = <<a, node>>
  BY <1>1, EdgesAre DEF CO!Edge
<1>8. Len(u) = 0 <=> \A k \in 1 .. Len(u) : FALSE
  BY <1>4
<1>9. ASSUME NEW k \in 1 .. Len(u) PROVE \E a : CO!Edge(a, node)
  <2>1. u[k] \in T /\ \E n \in 1 .. Len(s) : s[n] = u[k]
    BY <1>3
  <2>2. PICK a \in N : u[k] = <<a, node>>
    BY <1>2, <2>1
  <2>3. QED
    BY <1>7, <2>1, <2>2
<1>10. ASSUME NEW a, CO!Edge(a, node) PROVE \E k \in 1 .. Len(u) : TRUE
  <2>1. <<a, node>> \in T /\ \E n \in 1 .. Len(s) : s[n] = <<a, node>>
    BY <1>2, <1>7, <1>10
  <2>2. QED
    BY <1>3, <2>1
<1>11. QED
  BY <1>6, <1>8, <1>9, <1>10

\* What can be reached is where edges lead, and on from there, and nothing else.
LEMMA ReachableIs ==
  ASSUME CO!GraphAssumption(graph)
  PROVE  /\ \A a, b : CO!Edge(a, b) => b \in CO!Reachable(a)
         /\ \A a, b, c : b \in CO!Reachable(a) /\ CO!Edge(b, c) => c \in CO!Reachable(a)
         /\ \A a : \A C \in SUBSET CO!NodesOf :
              (CO!Closed(C) /\ \A b : CO!Edge(a, b) => b \in C) => CO!Reachable(a) \subseteq C
         /\ \A a, b, c : b \in CO!Reachable(a) /\ c \in CO!Reachable(b) => c \in CO!Reachable(a)
<1>1. PICK N : N = CO!NodesOf
  OBVIOUS
<1>2. \A a, b : CO!Edge(a, b) => a \in N /\ b \in N
  BY <1>1, EdgesAre
<1>3. \A a, b : CO!Edge(a, b) => b \in CO!Reachable(a)
  BY <1>1, <1>2, Zenon DEF CO!Reachable
<1>4. \A a, b, c : b \in CO!Reachable(a) /\ CO!Edge(b, c) => c \in CO!Reachable(a)
  BY <1>1, <1>2, Zenon DEF CO!Reachable, CO!Closed
<1>5. \A a : \A C \in SUBSET N :
        (CO!Closed(C) /\ \A b : CO!Edge(a, b) => b \in C) => CO!Reachable(a) \subseteq C
  BY <1>1, Zenon DEF CO!Reachable
<1>6. \A a : CO!Reachable(a) \in SUBSET N
  BY <1>1, Zenon DEF CO!Reachable
<1>7. ASSUME NEW a, NEW b, NEW c, b \in CO!Reachable(a), c \in CO!Reachable(b) PROVE c \in CO!Reachable(a)
  <2>1. CO!Closed(CO!Reachable(a))
    BY <1>4, Zenon DEF CO!Closed
  <2>2. \A d : CO!Edge(b, d) => d \in CO!Reachable(a)
    BY <1>4, <1>7, Zenon
  <2>3. CO!Reachable(b) \subseteq CO!Reachable(a)
    BY <1>5, <1>6, <2>1, <2>2, Zenon
  <2>4. QED
    BY <1>7, <2>3, Zenon
<1>8. QED
  BY <1>1, <1>3, <1>4, <1>5, <1>7, Zenon

------------------------------------------------------------------------------
(* Cycles *)

\* The nodes that a search is through with.
Finished(s) == s.visited \ s.stack

\* As long as nothing was found, edges of what is finished lead to what is finished and
\* no cycle goes through it; what is found is a cycle.
SoundSearch(s) ==
  /\ s \in CO!Searches /\ s.stack \subseteq s.visited
  /\ s.back = {} =>
       \A a \in Finished(s) : a \notin CO!Reachable(a) /\ \A b : CO!Edge(a, b) => b \in Finished(s)
  /\ s.back # {} => CO!Cyclic

\* A search may begin at a node, with at most d nodes ahead of it.
SearchBegins(node, s, d) ==
  /\ SoundSearch(s) /\ s.back = {} /\ node \in CO!NodesOf /\ node \notin s.visited
  /\ Cardinality(CO!NodesOf \ s.visited) <= d
  /\ \A m \in s.stack : node \in CO!Reachable(m)

\* It is back from there.
SearchEnds(node, s, r) ==
  /\ SoundSearch(r)
  /\ r.back = {} => r.stack = s.stack /\ s.visited \cup {node} \subseteq r.visited

\* f searches as far as d nodes ahead.
Searching(f, d) ==
  /\ f \in [CO!NodesOf -> [CO!Searches -> CO!Searches]]
  /\ \A node, s : SearchBegins(node, s, d) => SearchEnds(node, s, f[node][s])

\* Where a search is with one node more on the stack.
Begun(node, s) == [s EXCEPT !.visited = @ \cup {node}, !.stack = @ \cup {node}]

\* One edge followed.
Followed(deeper, next, s) ==
  IF s.back # {} THEN s
  ELSE IF next \notin s.visited THEN deeper[next][s]
  ELSE [s EXCEPT !.back = {n \in {next} : CO!OnTheWay(n, s)}]

\* The edges of a node followed one after the other.
Visiting(f, deeper, node, s) ==
  /\ f \in [0 .. Len(CO!Outgoing(node)) -> CO!Searches]
  /\ f[0] = Begun(node, s)
  /\ \A k \in 1 .. Len(CO!Outgoing(node)) : f[k] = Followed(deeper, CO!Outgoing(node)[k], f[k - 1])
  /\ CO!Visit(deeper, node, s) = [f[Len(CO!Outgoing(node))] EXCEPT !.stack = @ \ {node}]

\* What a search knows of the nodes stays in its type.
LEMMA SearchTypes ==
  ASSUME NEW deeper \in [CO!NodesOf -> [CO!Searches -> CO!Searches]]
  PROVE  \A node \in CO!NodesOf, s \in CO!Searches :
           /\ Begun(node, s) \in CO!Searches /\ Followed(deeper, node, s) \in CO!Searches
           /\ [s EXCEPT !.stack = @ \ {node}] \in CO!Searches
<1>0. PICK N, S : /\ N = CO!NodesOf /\ S = CO!Searches
                  /\ S = [visited : SUBSET N, stack : SUBSET N, back : SUBSET N]
  BY DEF CO!Searches
<1> SUFFICES ASSUME NEW node \in N, NEW s \in S
             PROVE  /\ Begun(node, s) \in S /\ Followed(deeper, node, s) \in S
                    /\ [s EXCEPT !.stack = @ \ {node}] \in S
  BY <1>0
<1>1. Begun(node, s) \in S
  BY <1>0 DEF Begun
<1>2. [s EXCEPT !.back = {n \in {node} : CO!OnTheWay(n, s)}] \in S
  BY <1>0
<1>3. deeper[node][s] \in S
  <2>1. deeper \in [N -> [S -> S]]
    BY <1>0
  <2>2. QED
    BY ONLY <2>1, node \in N, s \in S
<1>4. Followed(deeper, node, s) \in S
  BY <1>2, <1>3, Zenon DEF Followed
<1>5. [s EXCEPT !.stack = @ \ {node}] \in S
  BY <1>0
<1>6. QED
  BY <1>1, <1>4, <1>5

\* Every visit goes so.
LEMMA VisitSteps ==
  ASSUME CO!GraphAssumption(graph), NEW deeper \in [CO!NodesOf -> [CO!Searches -> CO!Searches]],
         NEW node \in CO!NodesOf, NEW s \in CO!Searches
  PROVE  \E f : Visiting(f, deeper, node, s)
<1>1. PICK N, S : /\ N = CO!NodesOf /\ S = CO!Searches
                  /\ S = [visited : SUBSET N, stack : SUBSET N, back : SUBSET N]
  BY DEF CO!Searches
<1>2. PICK out \in Seq(N) : out = CO!Outgoing(node)
  BY <1>1, OutgoingIs
<1>3. PICK m \in Nat : m = Len(out) /\ out \in [1 .. m -> N]
  BY LenProperties
<1>4. /\ Begun(node, s) \in S
      /\ \A x \in N, r \in S : Followed(deeper, x, r) \in S
  BY <1>1, SearchTypes
<1> DEFINE first == Begun(node, s)
           next(k, r) == Followed(deeper, out[k], r)
           Up(f) == f = [k \in 0 .. m |-> IF k = 0 THEN first ELSE next(k, f[k - 1])]
           step == [k \in 1 .. m |-> [r \in S |-> next(k, r)]]
           g == CHOOSE f : Up(f)
<1>5. \A k \in 1 .. m : \A r \in S : next(k, r) \in S
  BY <1>3, <1>4
<1>6. \E f \in [0 .. m -> S] : Up(f)
  <2> HIDE DEF next, first
  <2>1. step \in [1 .. m -> [S -> S]]
    BY <1>5
  <2>2. first \in S
    BY <1>4 DEF first
  <2>3. PICK f \in [0 .. m -> S] : FollowsFrom(f, first, step, m)
    <3> HIDE DEF step
    <3>1. QED
      BY <1>3, <2>1, <2>2, Recursion
  <2>4. ASSUME NEW k \in 0 .. m, k # 0 PROVE step[k][f[k - 1]] = next(k, f[k - 1])
    <3>1. k \in 1 .. m /\ k - 1 \in 0 .. m
      BY <1>3, <2>4
    <3>2. f[k - 1] \in S
      BY <3>1
    <3>3. QED
      BY <3>1, <3>2
  <2>5. Up(f)
    <3> HIDE DEF step
    <3>1. QED
      BY <2>3, <2>4 DEF FollowsFrom
  <2>6. QED
    BY <2>5
<1>7. Up(g)
  BY <1>6
<1>8. CO!Visit(deeper, node, s) = [g[m] EXCEPT !.stack = @ \ {node}]
  BY <1>2, <1>3 DEF CO!Visit, Begun, Followed
<1> HIDE DEF g
<1>9. /\ g = [k \in 0 .. m |-> g[k]]
      /\ \A k \in 0 .. m : g[k] = IF k = 0 THEN first ELSE next(k, g[k - 1])
  <2> HIDE DEF next, first
  <2>1. QED
    BY <1>7
<1>10. g[0] = first /\ \A k \in 1 .. m : g[k] = next(k, g[k - 1])
  <2> HIDE DEF next, first
  <2>1. \A k \in 0 .. m : g[k] = IF k = 0 THEN first ELSE next(k, g[k - 1])
    BY <1>9
  <2>2. 0 \in 0 .. m /\ \A k \in 1 .. m : k \in 0 .. m /\ k # 0
    BY <1>3
  <2>3. g[0] = first
    BY ONLY <2>1, <2>2
  <2>4. ASSUME NEW k \in 1 .. m PROVE g[k] = next(k, g[k - 1])
    BY ONLY <2>1, <2>2, k \in 1 .. m
  <2>5. QED
    BY <2>3, <2>4
<1>11. \A k \in 0 .. m : g[k] \in S
  <2> DEFINE R == {k \in 0 .. m : g[k] \in S}
  <2>1. 0 \in R
    BY <1>3, <1>4, <1>10
  <2> HIDE DEF next
  <2>2. ASSUME NEW k \in 1 .. m, k - 1 \in R PROVE k \in R
    BY <1>3, <1>5, <1>10, <2>2
  <2>3. \A k \in 0 .. m : k \in R
    <3> HIDE DEF R
    <3>1. QED
      BY <1>3, <2>1, <2>2, StepByStep
  <2>4. QED
    BY <2>3
<1>12. g \in [0 .. m -> S]
  BY <1>9, <1>11
<1>13. Visiting(g, deeper, node, s)
  BY <1>1, <1>2, <1>3, <1>8, <1>10, <1>12 DEF Visiting
<1>14. QED
  BY <1>13

\* Following an edge of the node that was begun finishes its end, or finds a cycle.
LEMMA EdgeFollowed ==
  ASSUME CO!GraphAssumption(graph), NEW d \in Nat, d # 0, NEW deeper, Searching(deeper, d - 1),
         NEW node, NEW s, SearchBegins(node, s, d), NEW next, CO!Edge(node, next),
         NEW r, SoundSearch(r), r.back = {}, r.stack = s.stack \cup {node},
         s.visited \cup {node} \subseteq r.visited
  PROVE  LET t == Followed(deeper, next, r) IN
         /\ SoundSearch(t)
         /\ t.back = {} => t.stack = r.stack /\ r.visited \subseteq t.visited /\ next \in Finished(t)
<1>1. PICK t : t = Followed(deeper, next, r)
  OBVIOUS
<1>2. PICK N : N = CO!NodesOf /\ IsFiniteSet(N)
  BY NodesAreFinite
<1>3. node \in N /\ next \in N
  BY <1>2, EdgesAre
<1>4. r \in CO!Searches /\ r.stack \subseteq r.visited /\ r.visited \in SUBSET N
  BY <1>2 DEF SoundSearch, CO!Searches
<1>5. CASE next \notin r.visited
  <2>1. t = deeper[next][r]
    BY <1>1, <1>5 DEF Followed
  <2>2. \A m \in r.stack : next \in CO!Reachable(m)
    BY ReachableIs DEF SearchBegins
  <2>3. Cardinality(N \ r.visited) <= d - 1
    <3>1. PICK A, B : A = N \ r.visited /\ B = N \ s.visited
      OBVIOUS
    <3>2. IsFiniteSet(B) /\ A \in SUBSET B /\ node \in B /\ node \notin A
      BY <1>2, <1>3, <3>1, FS_Difference DEF SearchBegins
    <3>3. IsFiniteSet(A) /\ Cardinality(A) <= Cardinality(B) /\ Cardinality(A) # Cardinality(B)
      BY <3>2, FS_Subset
    <3>4. Cardinality(A) \in Nat /\ Cardinality(B) \in Nat /\ Cardinality(B) <= d
      BY <1>2, <3>1, <3>2, <3>3, FS_CardinalityType DEF SearchBegins
    <3>5. QED
      BY <3>1, <3>3, <3>4
  <2>4. SearchBegins(next, r, d - 1)
    BY <1>2, <1>3, <1>5, <2>2, <2>3 DEF SearchBegins
  <2>5. SearchEnds(next, r, t)
    BY <2>1, <2>4 DEF Searching
  <2>6. QED
    BY <1>1, <1>4, <1>5, <2>5 DEF SearchEnds, Finished
<1>6. CASE next \in r.visited /\ next \in r.stack
  <2>1. next \in CO!Reachable(next)
    <3>1. CASE next = node
      BY <3>1, ReachableIs
    <3>2. CASE next \in s.stack
      <4>1. node \in CO!Reachable(next)
        BY <3>2 DEF SearchBegins
      <4>2. QED
        BY <4>1, ReachableIs
    <3>3. QED
      BY <1>6, <3>1, <3>2
  <2>2. CO!Cyclic
    BY <1>2, <1>3, <2>1 DEF CO!Cyclic
  <2>3. t = [r EXCEPT !.back = {next}]
    BY <1>1, <1>6 DEF Followed, CO!OnTheWay
  <2>4. t \in CO!Searches /\ t.visited = r.visited /\ t.stack = r.stack /\ t.back = {next}
    BY <1>2, <1>3, <1>4, <2>3 DEF CO!Searches
  <2>5. t.back # {}
    BY <2>4
  <2>6. QED
    BY <1>1, <1>4, <2>2, <2>4, <2>5 DEF SoundSearch
<1>7. CASE next \in r.visited /\ next \notin r.stack
  <2>1. {n \in {next} : CO!OnTheWay(n, r)} = {}
    BY <1>7 DEF CO!OnTheWay
  <2>2. t = [r EXCEPT !.back = {}]
    BY <1>1, <1>7, <2>1 DEF Followed
  <2>3. t = r
    BY <1>4, <2>2 DEF CO!Searches
  <2>4. QED
    BY <1>1, <1>7, <2>3 DEF Finished
<1>8. QED
  BY <1>5, <1>6, <1>7

\* A visit ends as a search has to when those of the next nodes do.
LEMMA VisitRight ==
  ASSUME CO!GraphAssumption(graph), NEW d \in Nat, d # 0, NEW deeper, Searching(deeper, d - 1),
         NEW node, NEW s, SearchBegins(node, s, d)
  PROVE  SearchEnds(node, s, CO!Visit(deeper, node, s))
<1>1. s \in CO!Searches /\ node \in CO!NodesOf /\ s.back = {} /\ node \notin s.visited /\ node \notin s.stack
  BY DEF SearchBegins, SoundSearch
<1>2. PICK out \in Seq(CO!NodesOf) :
        out = CO!Outgoing(node) /\ \A b : (\E k \in 1 .. Len(out) : out[k] = b) <=> CO!Edge(node, b)
  BY <1>1, OutgoingIs
<1>3. PICK m \in Nat : m = Len(out)
  BY LenProperties
<1>4. PICK f : Visiting(f, deeper, node, s)
  BY <1>1, VisitSteps DEF Searching
<1>5. /\ f[0] = Begun(node, s) /\ \A k \in 0 .. m : f[k] \in CO!Searches
      /\ \A k \in 1 .. m : f[k] = Followed(deeper, out[k], f[k - 1])
      /\ CO!Visit(deeper, node, s) = [f[m] EXCEPT !.stack = @ \ {node}]
  BY <1>2, <1>3, <1>4 DEF Visiting
<1> DEFINE Right(r, k) ==
             /\ SoundSearch(r)
             /\ r.back = {} => /\ r.stack = s.stack \cup {node} /\ s.visited \cup {node} \subseteq r.visited
                               /\ \A i \in 1 .. k : out[i] \in Finished(r)
           R == {k \in 0 .. m : Right(f[k], k)}
<1>6. 0 \in R
  <2>1. PICK r : r = f[0]
    OBVIOUS
  <2>2. /\ r \in CO!Searches /\ r.back = {}
        /\ r.visited = s.visited \cup {node} /\ r.stack = s.stack \cup {node}
    BY <1>1, <1>3, <1>5, <2>1 DEF Begun, CO!Searches
  <2>3. Finished(r) = Finished(s)
    BY <1>1, <2>2 DEF Finished, SearchBegins, SoundSearch
  <2>4. SoundSearch(r)
    BY <1>1, <2>2, <2>3 DEF SoundSearch, SearchBegins
  <2>5. Right(r, 0)
    BY <2>2, <2>4
  <2> HIDE DEF Right
  <2>6. QED
    BY <1>3, <2>1, <2>5
<1>7. ASSUME NEW k \in 1 .. m, k - 1 \in R PROVE k \in R
  <2>0. k \in 0 .. m /\ k - 1 \in 0 .. m /\ k \in Nat /\ \A i : i \in 1 .. k <=> i \in 1 .. k - 1 \/ i = k
    BY <1>3
  <2>1. PICK r, t : r = f[k - 1] /\ t = f[k]
    OBVIOUS
  <2>2. Right(r, k - 1)
    <3> HIDE DEF Right
    <3>1. QED
      BY <1>7, <2>1
  <2>3. PICK next : next = out[k] /\ CO!Edge(node, next)
    BY <1>2, <1>3
  <2>4. t = Followed(deeper, next, r)
    BY <1>5, <2>1, <2>3
  <2>5. Right(t, k)
    <3>1. CASE r.back # {}
      <4>1. t = r
        BY <2>4, <3>1 DEF Followed
      <4>2. QED
        BY <2>2, <3>1, <4>1
    <3>2. CASE r.back = {}
      <4>1. /\ SoundSearch(t)
            /\ t.back = {} => t.stack = r.stack /\ r.visited \subseteq t.visited /\ next \in Finished(t)
        BY <2>2, <2>3, <2>4, <3>2, EdgeFollowed
      <4>2. ASSUME t.back = {} PROVE \A i \in 1 .. k : out[i] \in Finished(t)
        BY <2>0, <2>2, <2>3, <3>2, <4>1, <4>2 DEF Finished
      <4>3. QED
        BY <2>2, <3>2, <4>1, <4>2
    <3>3. QED
      BY <3>1, <3>2
  <2> HIDE DEF Right
  <2>6. QED
    BY <2>0, <2>1, <2>5
<1>8. PICK r : r = f[m] /\ r \in CO!Searches
  BY <1>3, <1>5
<1>9. Right(r, m)
  <2>1. \A k \in 0 .. m : k \in R
    <3> HIDE DEF R
    <3>1. QED
      BY <1>3, <1>6, <1>7, StepByStep
  <2>2. m \in R
    <3> HIDE DEF R
    <3>1. QED
      BY <1>3, <2>1
  <2> HIDE DEF Right
  <2>3. QED
    BY <1>8, <2>2
<1>10. PICK t : t = CO!Visit(deeper, node, s)
  OBVIOUS
<1>11. /\ t \in CO!Searches /\ t.visited = r.visited /\ t.back = r.back
       /\ t.stack = r.stack \ {node}
  BY <1>5, <1>8, <1>10 DEF CO!Searches
<1>12. CASE r.back # {}
  BY <1>9, <1>10, <1>11, <1>12 DEF SearchEnds, SoundSearch
<1>13. CASE r.back = {}
  <2>1. Finished(t) = Finished(r) \cup {node} /\ node \notin Finished(r) /\ t.stack = s.stack
    BY <1>1, <1>9, <1>11, <1>13 DEF Finished, SearchBegins, SoundSearch
  <2>2. \A b : CO!Edge(node, b) => b \in Finished(r)
    BY <1>2, <1>3, <1>9, <1>13
  <2>3. /\ \A a \in Finished(r) : a \notin CO!Reachable(a) /\ \A b : CO!Edge(a, b) => b \in Finished(r)
        /\ Finished(r) \in SUBSET CO!NodesOf
    BY <1>8, <1>9, <1>13 DEF SoundSearch, Finished, CO!Searches
  <2>4. CO!Reachable(node) \subseteq Finished(r)
    <3>1. CO!Closed(Finished(r))
      BY <2>3, Zenon DEF CO!Closed
    <3>2. QED
      BY <2>2, <2>3, <3>1, ReachableIs
  <2>5. \A a \in Finished(t) : a \notin CO!Reachable(a) /\ \A b : CO!Edge(a, b) => b \in Finished(t)
    BY <2>1, <2>2, <2>3, <2>4
  <2>6. SoundSearch(t)
    BY <1>9, <1>11, <1>13, <2>5 DEF SoundSearch
  <2>7. QED
    BY <1>9, <1>10, <1>11, <1>13, <2>1, <2>6 DEF SearchEnds
<1>14. QED
  BY <1>12, <1>13

\* A search one node deeper than f.
Deeper(f) == [node \in CO!NodesOf |-> [search \in CO!Searches |-> CO!Visit(f, node, search)]]

\* A visit is of a search.
LEMMA VisitTyped ==
  ASSUME CO!GraphAssumption(graph), NEW deeper \in [CO!NodesOf -> [CO!Searches -> CO!Searches]],
         NEW node \in CO!NodesOf, NEW s \in CO!Searches
  PROVE  CO!Visit(deeper, node, s) \in CO!Searches
<1>1. PICK f : Visiting(f, deeper, node, s)
  BY VisitSteps
<1>2. Len(CO!Outgoing(node)) \in 0 .. Len(CO!Outgoing(node))
  BY OutgoingIs, LenProperties
<1>3. f[Len(CO!Outgoing(node))] \in CO!Searches
  BY <1>1, <1>2 DEF Visiting
<1>4. \A r \in CO!Searches : [r EXCEPT !.stack = @ \ {node}] \in CO!Searches
  BY SearchTypes
<1>5. QED
  BY <1>1, <1>3, <1>4 DEF Visiting

\* The search that goes deeper than f searches one node further ahead.
LEMMA DeeperRight ==
  ASSUME CO!GraphAssumption(graph), NEW d \in Nat, d # 0, NEW f, Searching(f, d - 1)
  PROVE  Searching(Deeper(f), d)
<1>1. f \in [CO!NodesOf -> [CO!Searches -> CO!Searches]]
  BY DEF Searching
<1>2. \A node \in CO!NodesOf, s \in CO!Searches : CO!Visit(f, node, s) \in CO!Searches
  BY <1>1, VisitTyped
<1>3. Deeper(f) \in [CO!NodesOf -> [CO!Searches -> CO!Searches]]
  BY <1>2 DEF Deeper
<1>4. \A node \in CO!NodesOf, s \in CO!Searches : Deeper(f)[node][s] = CO!Visit(f, node, s)
  BY DEF Deeper
<1>5. ASSUME NEW node, NEW s, SearchBegins(node, s, d) PROVE SearchEnds(node, s, Deeper(f)[node][s])
  <2>1. node \in CO!NodesOf /\ s \in CO!Searches
    BY <1>5 DEF SearchBegins, SoundSearch
  <2>2. SearchEnds(node, s, CO!Visit(f, node, s))
    BY <1>5, VisitRight
  <2>3. QED
    BY <1>4, <2>1, <2>2
<1>6. QED
  BY <1>3, <1>5 DEF Searching

\* A search of depth d searches d nodes ahead.
LEMMA DfsRight ==
  ASSUME CO!GraphAssumption(graph)
  PROVE  Searching(CO!Dfs[Cardinality(CO!NodesOf)], Cardinality(CO!NodesOf))
<1>1. PICK m \in Nat : m = Cardinality(CO!NodesOf) /\ m = CO!Cardinality(CO!NodesOf)
  BY NodesAreFinite, CountedAlike
<1>2. PICK S : S = [CO!NodesOf -> [CO!Searches -> CO!Searches]]
  OBVIOUS
<1> DEFINE none == [node \in CO!NodesOf |-> [search \in CO!Searches |-> search]]
           Up(f) == f = [k \in 0 .. m |-> [node \in CO!NodesOf |-> [search \in CO!Searches |->
                           IF k = 0 THEN search ELSE CO!Visit(f[k - 1], node, search)]]]
           step == [k \in 1 .. m |-> [f \in S |-> Deeper(f)]]
           g == CHOOSE f : Up(f)
<1>3. none \in S
  BY <1>2
<1>4. \A f \in S : Deeper(f) \in S
  <2>1. ASSUME NEW f \in S PROVE Deeper(f) \in S
    <3>1. \A node \in CO!NodesOf, s \in CO!Searches : CO!Visit(f, node, s) \in CO!Searches
      BY <1>2, VisitTyped
    <3>2. QED
      BY <1>2, <3>1 DEF Deeper
  <2>2. QED
    BY <2>1
<1>5. \E f : f = [k \in 0 .. m |-> IF k = 0 THEN none ELSE Deeper(f[k - 1])]
  <2> HIDE DEF none
  <2>1. step \in [1 .. m -> [S -> S]]
    BY <1>4
  <2>2. PICK f \in [0 .. m -> S] : FollowsFrom(f, none, step, m)
    <3> HIDE DEF step
    <3>1. QED
      BY <1>3, <2>1, Recursion
  <2>3. ASSUME NEW k \in 0 .. m, k # 0 PROVE step[k][f[k - 1]] = Deeper(f[k - 1])
    <3>1. k \in 1 .. m /\ k - 1 \in 0 .. m
      BY <1>1, <2>3
    <3>2. f[k - 1] \in S
      BY <3>1
    <3>3. QED
      BY <3>1, <3>2
  <2>4. f = [k \in 0 .. m |-> IF k = 0 THEN none ELSE Deeper(f[k - 1])]
    <3> HIDE DEF step
    <3>1. QED
      BY <2>2, <2>3 DEF FollowsFrom
  <2>5. QED
    BY <2>4
<1>6. \A f : Up(f) <=> f = [k \in 0 .. m |-> IF k = 0 THEN none ELSE Deeper(f[k - 1])]
  <2>1. ASSUME NEW f, NEW k
        PROVE  [node \in CO!NodesOf |-> [search \in CO!Searches |->
                  IF k = 0 THEN search ELSE CO!Visit(f[k - 1], node, search)]]
                 = IF k = 0 THEN none ELSE Deeper(f[k - 1])
    BY DEF Deeper
  <2> HIDE DEF none
  <2>2. QED
    BY <2>1
<1>7. Up(g)
  <2>1. \E f : Up(f)
    <3> HIDE DEF Up, none
    <3>1. QED
      BY <1>5, <1>6
  <2> HIDE DEF Up
  <2>2. QED
    BY <2>1
<1>8. CO!Dfs = g
  BY <1>1 DEF CO!Dfs
<1> HIDE DEF g
<1>9. \A k \in 0 .. m : g[k] = IF k = 0 THEN none ELSE Deeper(g[k - 1])
  <2>1. g = [k \in 0 .. m |-> IF k = 0 THEN none ELSE Deeper(g[k - 1])]
    <3> HIDE DEF Up, none
    <3>1. QED
      BY <1>6, <1>7
  <2> HIDE DEF none
  <2>2. QED
    BY <2>1
<1> DEFINE R == {k \in 0 .. m : Searching(g[k], k)}
<1>10. 0 \in R
  <2>1. 0 \in 0 .. m /\ g[0] = none
    BY <1>1, <1>9
  <2>2. ASSUME NEW node, NEW s PROVE ~SearchBegins(node, s, 0)
    <3>1. SUFFICES ASSUME SearchBegins(node, s, 0) PROVE FALSE
      OBVIOUS
    <3>2. PICK A : A = CO!NodesOf \ s.visited
      OBVIOUS
    <3>3. IsFiniteSet(A) /\ node \in A /\ Cardinality(A) <= 0
      BY <3>1, <3>2, NodesAreFinite, FS_Difference DEF SearchBegins
    <3>4. Cardinality(A) = 0
      BY <3>3, FS_CardinalityType
    <3>5. QED
      BY <3>3, <3>4, FS_EmptySet
  <2>3. Searching(none, 0)
    BY <1>2, <1>3, <2>2 DEF Searching
  <2>4. QED
    BY <2>1, <2>3
<1>11. ASSUME NEW k \in 1 .. m, k - 1 \in R PROVE k \in R
  <2>1. k \in 0 .. m /\ k # 0 /\ k \in Nat /\ Searching(g[k - 1], k - 1)
    BY <1>1, <1>11
  <2>2. Searching(Deeper(g[k - 1]), k)
    BY <2>1, DeeperRight
  <2>3. g[k] = Deeper(g[k - 1])
    BY <1>9, <2>1
  <2>4. QED
    BY <2>1, <2>2, <2>3
<1>12. \A k \in 0 .. m : k \in R
  <2> HIDE DEF R
  <2>1. QED
    BY <1>1, <1>10, <1>11, StepByStep
<1>13. QED
  BY <1>1, <1>8, <1>12

\* The elements of a sequence are all different.
Distinct(s) == \A i, j \in 1 .. Len(s) : s[i] = s[j] => i = j

\* A sequence of different elements of a finite set is no longer than the set, and as long
\* only with all of them.
LEMMA DistinctIs ==
  ASSUME NEW S, IsFiniteSet(S), NEW s \in Seq(S), Distinct(s)
  PROVE  /\ Len(s) \in Nat /\ Len(s) <= Cardinality(S) /\ Cardinality(S) \in Nat
         /\ Len(s) = Cardinality(S) <=> \A x \in S : \E k \in 1 .. Len(s) : s[k] = x
<1>1. PICK m \in Nat : m = Len(s) /\ s \in [1 .. m -> S]
  BY LenProperties
<1>2. PICK D : D = 1 .. m
  OBVIOUS
<1>3. IsFiniteSet(D) /\ Cardinality(D) = m
  <2>1. 1 \in Int /\ m \in Int
    BY <1>1
  <2>2. IsFiniteSet(1 .. m) /\ Cardinality(1 .. m) = IF 1 > m THEN 0 ELSE m - 1 + 1
    BY <2>1, FS_Interval
  <2>3. QED
    BY <1>1, <1>2, <2>2
<1>4. s \in Injection(D, S)
  BY <1>1, <1>2 DEF Distinct, Injection, IsInjective
<1>5. Cardinality(D) <= Cardinality(S) /\ (Cardinality(D) = Cardinality(S) <=> s \in Surjection(D, S))
  BY <1>4, FS_Injection
<1>6. s \in Surjection(D, S) <=> \A x \in S : \E k \in 1 .. m : s[k] = x
  BY <1>1, <1>2 DEF Surjection
<1>7. QED
  BY <1>1, <1>3, <1>5, <1>6, FS_CardinalityType

\* An order of the nodes has each of them once.
LEMMA OrderIs ==
  ASSUME CO!GraphAssumption(graph), NEW order \in CO!SetToSeqs(CO!NodesOf)
  PROVE  /\ order \in Seq(CO!NodesOf) /\ Distinct(order)
         /\ \A n \in CO!NodesOf : \E k \in 1 .. Len(order) : order[k] = n
<1>0. PICK N : N = CO!NodesOf /\ IsFiniteSet(N)
  BY NodesAreFinite
<1>1. PICK m \in Nat : N = CO!NodesOf /\ IsFiniteSet(N) /\ m = Cardinality(N) /\ m = CO!Cardinality(N)
  BY <1>0, CountedAlike, FS_CardinalityType
<1>2. order \in [1 .. m -> N] /\ \A i, j \in 1 .. m : i # j => order[i] # order[j]
  BY <1>1 DEF CO!SetToSeqs
<1>3. order \in Seq(N) /\ Len(order) = m
  BY <1>1, <1>2
<1>4. Distinct(order)
  BY <1>2, <1>3 DEF Distinct
<1>5. Len(order) = Cardinality(N) <=> \A x \in N : \E k \in 1 .. Len(order) : order[k] = x
  BY <1>0, <1>3, <1>4, DistinctIs
<1>6. QED
  BY <1>1, <1>3, <1>4, <1>5

\* One node of the order searched.
Searched(node, s) ==
  IF s.back # {} \/ node \in s.visited THEN s ELSE CO!Dfs[CO!Cardinality(CO!NodesOf)][node][s]

\* The nodes searched in their order.
SearchingAll(f, order) ==
  /\ f \in [0 .. Len(order) -> CO!Searches]
  /\ f[0] = [visited |-> {}, stack |-> {}, back |-> {}]
  /\ \A k \in 1 .. Len(order) : f[k] = Searched(order[k], f[k - 1])
  /\ CO!HasCycle(order) <=> f[Len(order)].back # {}

\* has_cycle goes so.
LEMMA HasCycleSteps ==
  ASSUME CO!GraphAssumption(graph), NEW order \in Seq(CO!NodesOf)
  PROVE  \E f : SearchingAll(f, order)
<1>1. PICK N, S : /\ N = CO!NodesOf /\ S = CO!Searches
                  /\ S = [visited : SUBSET N, stack : SUBSET N, back : SUBSET N]
  BY DEF CO!Searches
<1>2. PICK m \in Nat : m = Len(order) /\ order \in [1 .. m -> N]
  BY <1>1, LenProperties
<1>3. PICK deeper \in [N -> [S -> S]] : deeper = CO!Dfs[CO!Cardinality(CO!NodesOf)]
  BY <1>1, DfsRight, CountedAlike DEF Searching
<1>4. \A x \in N, r \in S : Searched(x, r) \in S
  <2>1. ASSUME NEW x \in N, NEW r \in S PROVE Searched(x, r) \in S
    <3>1. deeper[x][r] \in S
      BY ONLY <1>3, x \in N, r \in S
    <3>2. Searched(x, r) = IF r.back # {} \/ x \in r.visited THEN r ELSE deeper[x][r]
      BY <1>3 DEF Searched
    <3>3. QED
      BY <3>1, <3>2
  <2>2. QED
    BY <2>1
<1> DEFINE first == [visited |-> {}, stack |-> {}, back |-> {}]
           next(k, r) == Searched(order[k], r)
           Up(f) == f = [k \in 0 .. m |-> IF k = 0 THEN first ELSE next(k, f[k - 1])]
           step == [k \in 1 .. m |-> [r \in S |-> next(k, r)]]
           g == CHOOSE f : Up(f)
<1>5. first \in S /\ \A k \in 1 .. m : \A r \in S : next(k, r) \in S
  BY <1>1, <1>2, <1>4
<1>6. \E f \in [0 .. m -> S] : Up(f)
  <2> HIDE DEF next, first
  <2>1. step \in [1 .. m -> [S -> S]]
    BY <1>5
  <2>3. PICK f \in [0 .. m -> S] : FollowsFrom(f, first, step, m)
    <3> HIDE DEF step
    <3>1. QED
      BY <1>2, <1>5, <2>1, Recursion
  <2>4. ASSUME NEW k \in 0 .. m, k # 0 PROVE step[k][f[k - 1]] = next(k, f[k - 1])
    <3>1. k \in 1 .. m /\ k - 1 \in 0 .. m
      BY <1>2, <2>4
    <3>2. f[k - 1] \in S
      BY <3>1
    <3>3. QED
      BY <3>1, <3>2
  <2>5. Up(f)
    <3> HIDE DEF step
    <3>1. QED
      BY <2>3, <2>4 DEF FollowsFrom
  <2>6. QED
    BY <2>5
<1>7. Up(g)
  BY <1>6
<1>8. CO!HasCycle(order) <=> g[m].back # {}
  BY <1>2 DEF CO!HasCycle, Searched
<1> HIDE DEF g
<1>9. /\ g = [k \in 0 .. m |-> g[k]]
      /\ \A k \in 0 .. m : g[k] = IF k = 0 THEN first ELSE next(k, g[k - 1])
  <2> HIDE DEF next, first
  <2>1. QED
    BY <1>7
<1>10. g[0] = first /\ \A k \in 1 .. m : g[k] = next(k, g[k - 1])
  <2> HIDE DEF next, first
  <2>1. \A k \in 0 .. m : g[k] = IF k = 0 THEN first ELSE next(k, g[k - 1])
    BY <1>9
  <2>2. 0 \in 0 .. m /\ \A k \in 1 .. m : k \in 0 .. m /\ k # 0
    BY <1>2
  <2>3. g[0] = first
    BY ONLY <2>1, <2>2
  <2>4. ASSUME NEW k \in 1 .. m PROVE g[k] = next(k, g[k - 1])
    BY ONLY <2>1, <2>2, k \in 1 .. m
  <2>5. QED
    BY <2>3, <2>4
<1>11. \A k \in 0 .. m : g[k] \in S
  <2> DEFINE R == {k \in 0 .. m : g[k] \in S}
  <2>1. 0 \in R
    BY <1>2, <1>5, <1>10
  <2> HIDE DEF next
  <2>2. ASSUME NEW k \in 1 .. m, k - 1 \in R PROVE k \in R
    BY <1>2, <1>5, <1>10, <2>2
  <2>3. \A k \in 0 .. m : k \in R
    <3> HIDE DEF R
    <3>1. QED
      BY <1>2, <2>1, <2>2, StepByStep
  <2>4. QED
    BY <2>3
<1>12. g \in [0 .. m -> S]
  BY <1>9, <1>11
<1>13. SearchingAll(g, order)
  BY <1>1, <1>2, <1>8, <1>10, <1>12 DEF SearchingAll
<1>14. QED
  BY <1>13

\* A cycle is found exactly when there is one.
LEMMA HasCycleRight ==
  ASSUME CO!GraphAssumption(graph), NEW order \in CO!SetToSeqs(CO!NodesOf)
  PROVE  CO!HasCycle(order) <=> CO!Cyclic
<1>1. PICK N : N = CO!NodesOf /\ IsFiniteSet(N)
  BY NodesAreFinite
<1>2. /\ order \in Seq(N) /\ \A n \in N : \E k \in 1 .. Len(order) : order[k] = n
  BY <1>1, OrderIs
<1>3. PICK m \in Nat : m = Len(order) /\ order \in [1 .. m -> N]
  BY <1>2, LenProperties
<1>4. PICK f : SearchingAll(f, order)
  BY <1>1, <1>2, HasCycleSteps
<1>5. /\ f[0] = [visited |-> {}, stack |-> {}, back |-> {}]
      /\ \A k \in 1 .. m : f[k] = Searched(order[k], f[k - 1])
      /\ CO!HasCycle(order) <=> f[m].back # {}
      /\ \A k \in 0 .. m : f[k] \in CO!Searches
  BY <1>3, <1>4 DEF SearchingAll
<1>6. PICK d \in Nat : d = Cardinality(N) /\ d = CO!Cardinality(CO!NodesOf)
  BY <1>1, CountedAlike, FS_CardinalityType
<1>7. Searching(CO!Dfs[d], d)
  BY <1>1, <1>6, DfsRight
<1> DEFINE Right(r, k) ==
             /\ SoundSearch(r)
             /\ r.back = {} => r.stack = {} /\ \A i \in 1 .. k : order[i] \in r.visited
           R == {k \in 0 .. m : Right(f[k], k)}
<1>8. 0 \in R
  <2>1. PICK r : r = f[0]
    OBVIOUS
  <2>2. r \in CO!Searches /\ r.visited = {} /\ r.stack = {} /\ r.back = {}
    BY <1>3, <1>5, <2>1
  <2>3. Right(r, 0)
    BY <2>2 DEF SoundSearch, Finished
  <2> HIDE DEF Right
  <2>4. QED
    BY <1>3, <2>1, <2>3
<1>9. ASSUME NEW k \in 1 .. m, k - 1 \in R PROVE k \in R
  <2>0. k \in 0 .. m /\ k - 1 \in 0 .. m /\ k \in Nat /\ \A i : i \in 1 .. k <=> i \in 1 .. k - 1 \/ i = k
    BY <1>3
  <2>1. PICK r, t, node : r = f[k - 1] /\ t = f[k] /\ node = order[k] /\ node \in N /\ r \in CO!Searches
    BY <1>3, <1>5, <2>0
  <2>2. Right(r, k - 1)
    <3> HIDE DEF Right
    <3>1. QED
      BY <1>9, <2>1
  <2>3. t = Searched(node, r)
    BY <1>5, <2>1
  <2>4. Right(t, k)
    <3>1. CASE r.back # {}
      <4>1. t = r
        BY <2>3, <3>1 DEF Searched
      <4>2. QED
        BY <2>2, <3>1, <4>1
    <3>2. CASE r.back = {} /\ node \in r.visited
      <4>1. t = r
        BY <2>3, <3>2 DEF Searched
      <4>2. QED
        BY <2>0, <2>1, <2>2, <3>2, <4>1
    <3>3. CASE r.back = {} /\ node \notin r.visited
      <4>1. t = CO!Dfs[d][node][r]
        BY <1>6, <2>3, <3>3 DEF Searched
      <4>2. Cardinality(N \ r.visited) <= d
        <5>1. N \ r.visited \in SUBSET N
          OBVIOUS
        <5>2. QED
          BY <1>1, <1>6, <5>1, FS_Subset
      <4>3. SearchBegins(node, r, d)
        BY <1>1, <2>1, <2>2, <3>3, <4>2 DEF SearchBegins
      <4>4. SearchEnds(node, r, t)
        BY <1>7, <4>1, <4>3 DEF Searching
      <4>5. QED
        BY <2>0, <2>1, <2>2, <3>3, <4>4 DEF SearchEnds
    <3>4. QED
      BY <3>1, <3>2, <3>3
  <2> HIDE DEF Right
  <2>5. QED
    BY <2>0, <2>1, <2>4
<1>10. PICK r : r = f[m] /\ r \in CO!Searches
  BY <1>3, <1>5
<1>11. Right(r, m)
  <2>1. \A k \in 0 .. m : k \in R
    <3> HIDE DEF R
    <3>1. QED
      BY <1>3, <1>8, <1>9, StepByStep
  <2>2. m \in R
    <3> HIDE DEF R
    <3>1. QED
      BY <1>3, <2>1
  <2> HIDE DEF Right
  <2>3. QED
    BY <1>10, <2>2
<1>12. ASSUME r.back = {} PROVE ~CO!Cyclic
  <2>1. \A n \in N : n \in Finished(r)
    BY <1>2, <1>3, <1>11, <1>12 DEF Finished
  <2>2. \A n \in N : n \notin CO!Reachable(n)
    BY <1>11, <1>12, <2>1 DEF SoundSearch
  <2>3. QED
    BY <1>1, <2>2 DEF CO!Cyclic
<1>13. QED
  BY <1>5, <1>10, <1>11, <1>12 DEF SoundSearch

------------------------------------------------------------------------------
(* Topological orders *)

\* A new element at the end is one more.
LEMMA OneMore ==
  ASSUME NEW S, NEW s \in Seq(S), Distinct(s), NEW x \in S, ~Has(s, x)
  PROVE  /\ Append(s, x) \in Seq(S) /\ Distinct(Append(s, x)) /\ Len(Append(s, x)) = Len(s) + 1
         /\ \A y : Has(Append(s, x), y) <=> Has(s, y) \/ y = x
<1>1. PICK t \in Seq(S) : t = Append(s, x)
  BY AppendProperties
<1>2. /\ Len(s) \in Nat /\ Len(t) = Len(s) + 1 /\ t[Len(t)] = x
      /\ \A k \in 1 .. Len(s) : t[k] = s[k]
  BY <1>1, AppendProperties, LenProperties
<1>3. \A k : k \in 1 .. Len(t) <=> k \in 1 .. Len(s) \/ k = Len(t)
  BY <1>2
<1>4. \A y : Has(t, y) <=> Has(s, y) \/ y = x
  BY <1>2, <1>3 DEF Has
<1>5. Distinct(t)
  BY <1>2, <1>3 DEF Has, Distinct
<1>6. QED
  BY <1>1, <1>2, <1>4, <1>5

\* Without its last element a sequence has one less.
LEMMA OneLess ==
  ASSUME NEW S, NEW s \in Seq(S), Distinct(s), s # <<>>
  PROVE  /\ CO!Front(s) \in Seq(S) /\ Distinct(CO!Front(s)) /\ CO!Last(s) \in S /\ Has(s, CO!Last(s))
         /\ \A y : Has(CO!Front(s), y) <=> Has(s, y) /\ y # CO!Last(s)
<1>1. PICK m \in Nat : m = Len(s) /\ s \in [1 .. m -> S] /\ m # 0
  BY LenProperties, EmptySeq
<1>2. PICK t \in Seq(S) : t = CO!Front(s) /\ Len(t) = m - 1 /\ \A k \in 1 .. m - 1 : t[k] = s[k]
  <2>1. CO!Front(s) = [k \in 1 .. m - 1 |-> s[k]]
    BY <1>1 DEF CO!Front
  <2>2. [k \in 1 .. m - 1 |-> s[k]] \in [1 .. m - 1 -> S] /\ m - 1 \in Nat
    BY <1>1
  <2>3. QED
    BY <2>1, <2>2
<1>3. CO!Last(s) = s[m]
  BY <1>1 DEF CO!Last
<1>4. m \in 1 .. m /\ \A k : k \in 1 .. m <=> k \in 1 .. m - 1 \/ k = m
  BY <1>1
<1>5. Distinct(t)
  BY <1>1, <1>2, <1>4 DEF Distinct
<1>6. \A k \in 1 .. m - 1 : s[k] # s[m]
  <2>1. \A k \in 1 .. m - 1 : k # m
    BY ONLY m \in Nat
  <2>2. QED
    BY <1>1, <1>4, <2>1 DEF Distinct
<1>7. \A y : Has(t, y) <=> Has(s, y) /\ y # s[m]
  BY <1>1, <1>2, <1>4, <1>6 DEF Has
<1>8. QED
  BY <1>1, <1>2, <1>3, <1>4, <1>5, <1>7 DEF Has

\* What topological_sort knows: a node is queued or done when all before it are done, once,
\* and after them.
SortRight(sort) ==
  /\ sort.queue \in Seq(CO!NodesOf) /\ Distinct(sort.queue)
  /\ sort.result \in Seq(CO!NodesOf) /\ Distinct(sort.result)
  /\ \A x : ~(Has(sort.queue, x) /\ Has(sort.result, x))
  /\ \A n \in CO!NodesOf :
       Has(sort.queue, n) \/ Has(sort.result, n) <=> \A a : CO!Edge(a, n) => Has(sort.result, a)
  /\ \A i, j \in 1 .. Len(sort.result) : CO!Edge(sort.result[i], sort.result[j]) => i < j

\* An edge of a node that frees its end.
Frees(e, node, done) == graph.edges[e][1] = node /\ CO!Freed(e, done)

\* The edges of the node that was popped, one after the other.
Freeing(f, sort) ==
  /\ f \in [0 .. Len(graph.edges) -> Seq(CO!NodesOf)]
  /\ f[0] = CO!Front(sort.queue)
  /\ \A e \in 1 .. Len(graph.edges) :
       f[e] = IF Frees(e, CO!Last(sort.queue), CO!ToSet(sort.result))
              THEN Append(f[e - 1], graph.edges[e][2]) ELSE f[e - 1]
  /\ CO!Popped(sort) = [queue |-> f[Len(graph.edges)], result |-> Append(sort.result, CO!Last(sort.queue))]

\* A node is popped so.
LEMMA PoppedSteps ==
  ASSUME CO!GraphAssumption(graph), NEW sort, sort.queue \in Seq(CO!NodesOf), Distinct(sort.queue),
         sort.queue # <<>>
  PROVE  \E f : Freeing(f, sort)
<1>0. PICK N, S : N = CO!NodesOf /\ S = Seq(N)
  OBVIOUS
<1>1. PICK m \in Nat : m = Len(graph.edges) /\ \A e \in 1 .. m : graph.edges[e][2] \in N
  BY <1>0, EdgesAre
<1>2. PICK first, node, done :
        /\ first \in S /\ first = CO!Front(sort.queue)
        /\ node = CO!Last(sort.queue) /\ done = CO!ToSet(sort.result)
  BY <1>0, OneLess
<1> DEFINE next(e, q) == IF Frees(e, node, done) THEN Append(q, graph.edges[e][2]) ELSE q
           Up(f) == f = [e \in 0 .. m |-> IF e = 0 THEN first ELSE next(e, f[e - 1])]
           step == [e \in 1 .. m |-> [q \in S |-> next(e, q)]]
           g == CHOOSE f : Up(f)
<1>5. \A e \in 1 .. m : \A q \in S : next(e, q) \in S
  <2>1. \A x \in N : \A q \in S : Append(q, x) \in S
    BY <1>0, AppendProperties
  <2>2. QED
    BY <1>1, <2>1
<1>6. \E f \in [0 .. m -> S] : Up(f)
  <2> HIDE DEF next
  <2>1. step \in [1 .. m -> [S -> S]]
    BY <1>5
  <2>3. PICK f \in [0 .. m -> S] : FollowsFrom(f, first, step, m)
    <3> HIDE DEF step
    <3>1. QED
      BY <1>1, <1>2, <2>1, Recursion
  <2>4. ASSUME NEW k \in 0 .. m, k # 0 PROVE step[k][f[k - 1]] = next(k, f[k - 1])
    <3>1. k \in 1 .. m /\ k - 1 \in 0 .. m
      BY <1>1, <2>4
    <3>2. f[k - 1] \in S
      BY <3>1
    <3>3. QED
      BY <3>1, <3>2
  <2>5. Up(f)
    <3> HIDE DEF step
    <3>1. QED
      BY <2>3, <2>4 DEF FollowsFrom
  <2>6. QED
    BY <2>5
<1>7. Up(g)
  BY <1>6
<1>8. CO!Popped(sort) = [queue |-> g[m], result |-> Append(sort.result, node)]
  <2>1. \A e, q : next(e, q) = IF graph.edges[e][1] = node /\ CO!Freed(e, done)
                               THEN Append(q, graph.edges[e][2]) ELSE q
    BY DEF Frees
  <2>2. QED
    BY <1>1, <1>2 DEF CO!Popped, Frees
<1> HIDE DEF g
<1>9. /\ g = [k \in 0 .. m |-> g[k]]
      /\ \A k \in 0 .. m : g[k] = IF k = 0 THEN first ELSE next(k, g[k - 1])
  <2> HIDE DEF next
  <2>1. QED
    BY <1>7
<1>10. g[0] = first /\ \A k \in 1 .. m : g[k] = next(k, g[k - 1])
  <2> HIDE DEF next
  <2>1. \A k \in 0 .. m : g[k] = IF k = 0 THEN first ELSE next(k, g[k - 1])
    BY <1>9
  <2>2. 0 \in 0 .. m /\ \A k \in 1 .. m : k \in 0 .. m /\ k # 0
    BY <1>1
  <2>3. g[0] = first
    BY ONLY <2>1, <2>2
  <2>4. ASSUME NEW k \in 1 .. m PROVE g[k] = next(k, g[k - 1])
    BY ONLY <2>1, <2>2, k \in 1 .. m
  <2>5. QED
    BY <2>3, <2>4
<1>11. \A k \in 0 .. m : g[k] \in S
  <2> DEFINE R == {k \in 0 .. m : g[k] \in S}
  <2>1. 0 \in R
    BY <1>1, <1>2, <1>10
  <2> HIDE DEF next
  <2>2. ASSUME NEW k \in 1 .. m, k - 1 \in R PROVE k \in R
    BY <1>1, <1>5, <1>10, <2>2
  <2>3. \A k \in 0 .. m : k \in R
    <3> HIDE DEF R
    <3>1. QED
      BY <1>1, <2>1, <2>2, StepByStep
  <2>4. QED
    BY <2>3
<1>12. g \in [0 .. m -> S]
  BY <1>9, <1>11
<1>13. Freeing(g, sort)
  BY <1>0, <1>1, <1>2, <1>8, <1>10, <1>12 DEF Freeing
<1>14. QED
  BY <1>13

\* What the node that is popped frees: what comes after it with all that comes before done,
\* by the last of the edges between them.
LEMMA FreesIs ==
  ASSUME CO!GraphAssumption(graph), NEW node, NEW r \in Seq(CO!NodesOf), ~Has(r, node)
  PROVE  /\ \A e \in 1 .. Len(graph.edges) : Frees(e, node, CO!ToSet(r)) =>
              /\ CO!Edge(node, graph.edges[e][2])
              /\ \A a : CO!Edge(a, graph.edges[e][2]) => a = node \/ Has(r, a)
              /\ \A k \in 1 .. Len(graph.edges) :
                   Frees(k, node, CO!ToSet(r)) /\ graph.edges[k][2] = graph.edges[e][2] => k = e
         /\ \A x : (CO!Edge(node, x) /\ \A a : CO!Edge(a, x) => a = node \/ Has(r, a)) =>
              \E e \in 1 .. Len(graph.edges) : Frees(e, node, CO!ToSet(r)) /\ graph.edges[e][2] = x
<1>1. PICK m, edges : /\ edges = graph.edges /\ m \in Nat /\ m = Len(edges) /\ DOMAIN edges = 1 .. m
                      /\ \A k \in 1 .. m : edges[k] = <<edges[k][1], edges[k][2]>>
  BY EdgesAre
<1>2. PICK done : done = CO!ToSet(r) /\ \A x : x \in done <=> Has(r, x)
  <2>1. DOMAIN r = 1 .. Len(r)
    BY LenProperties
  <2>2. CO!ToSet(r) = {r[i] : i \in 1 .. Len(r)}
    BY <2>1 DEF CO!ToSet
  <2>3. \A x : x \in CO!ToSet(r) <=> Has(r, x)
    BY <2>2 DEF Has
  <2>4. QED
    BY <2>3
<1>3. \A a, b : CO!Edge(a, b) <=> \E k \in 1 .. m : edges[k] = <<a, b>>
  BY <1>1 DEF CO!Edge
<1>4. \A e \in 1 .. m : Frees(e, node, done) <=>
        /\ edges[e][1] = node
        /\ \A k \in 1 .. m : edges[k][2] = edges[e][2] =>
             edges[k][1] \in done \/ (edges[k][1] = edges[e][1] /\ k <= e)
  BY <1>1 DEF Frees, CO!Freed
<1>5. ASSUME NEW e \in 1 .. m, Frees(e, node, done)
      PROVE  /\ CO!Edge(node, edges[e][2])
             /\ \A a : CO!Edge(a, edges[e][2]) => a = node \/ Has(r, a)
             /\ \A k \in 1 .. m : Frees(k, node, done) /\ edges[k][2] = edges[e][2] => k = e
  <2>1. CO!Edge(node, edges[e][2])
    <3>1. edges[e] = <<node, edges[e][2]>>
      BY <1>1, <1>4, <1>5
    <3>2. QED
      BY <1>3, <3>1
  <2>2. ASSUME NEW a, CO!Edge(a, edges[e][2]) PROVE a = node \/ Has(r, a)
    <3>1. PICK k \in 1 .. m : edges[k] = <<a, edges[e][2]>>
      BY <1>3, <2>2
    <3>2. edges[k][1] = a /\ edges[k][2] = edges[e][2]
      BY <3>1
    <3>3. QED
      BY <1>2, <1>4, <1>5, <3>2
  <2>3. ASSUME NEW k \in 1 .. m, Frees(k, node, done), edges[k][2] = edges[e][2] PROVE k = e
    <3>1. node \notin done
      BY <1>2
    <3>2. edges[k][1] = node /\ edges[e][1] = node
      BY <1>4, <1>5, <2>3
    <3>3. k <= e
      BY <1>4, <1>5, <2>3, <3>1, <3>2
    <3>4. e <= k
      BY <1>4, <1>5, <2>3, <3>1, <3>2
    <3>5. QED
      BY <1>1, <3>3, <3>4
  <2>4. QED
    BY <2>1, <2>2, <2>3
<1>6. ASSUME NEW x, CO!Edge(node, x), \A a : CO!Edge(a, x) => a = node \/ Has(r, a)
      PROVE  \E e \in 1 .. m : Frees(e, node, done) /\ edges[e][2] = x
  <2>1. PICK T : T = {k \in 1 .. m : edges[k] = <<node, x>>}
    OBVIOUS
  <2>2. T # {} /\ T \subseteq 1 .. m
    BY <1>3, <1>6, <2>1
  <2>3. PICK e \in T : \A k \in T : k <= e
    BY <1>1, <2>2, Greatest
  <2>4. e \in 1 .. m /\ edges[e][1] = node /\ edges[e][2] = x
    BY <2>1
  <2>5. ASSUME NEW k \in 1 .. m, edges[k][2] = x PROVE edges[k][1] \in done \/ (edges[k][1] = node /\ k <= e)
    <3>1. edges[k] = <<edges[k][1], x>>
      BY <1>1, <2>5
    <3>2. CO!Edge(edges[k][1], x)
      BY <1>3, <3>1
    <3>3. CASE edges[k][1] = node
      BY <2>1, <2>3, <3>1, <3>3
    <3>4. QED
      BY <1>2, <1>6, <3>2, <3>3
  <2>6. Frees(e, node, done)
    BY <1>4, <2>4, <2>5
  <2>7. QED
    BY <2>4, <2>6
<1>7. QED
  BY <1>1, <1>2, <1>5, <1>6

\* The queue that is left is without the node, and has what it freed.
LEMMA FreeingIs ==
  ASSUME CO!GraphAssumption(graph), NEW sort, SortRight(sort), sort.queue # <<>>,
         NEW node, node = CO!Last(sort.queue), NEW f, Freeing(f, sort)
  PROVE  LET q == f[Len(graph.edges)] IN
         /\ q \in Seq(CO!NodesOf) /\ Distinct(q)
         /\ \A x : Has(q, x) <=>
              \/ Has(sort.queue, x) /\ x # node
              \/ CO!Edge(node, x) /\ \A a : CO!Edge(a, x) => a = node \/ Has(sort.result, a)
<1>1. PICK N : N = CO!NodesOf
  OBVIOUS
<1>2. PICK m \in Nat : m = Len(graph.edges) /\ \A e \in 1 .. m : graph.edges[e][2] \in N
  BY <1>1, EdgesAre
<1>3. PICK r, done : r \in Seq(N) /\ r = sort.result /\ done = CO!ToSet(r)
  BY <1>1 DEF SortRight
<1>4. PICK front \in Seq(N) :
        /\ front = CO!Front(sort.queue) /\ Distinct(front) /\ Has(sort.queue, node)
        /\ \A y : Has(front, y) <=> Has(sort.queue, y) /\ y # node
  <2>1. sort.queue \in Seq(N) /\ Distinct(sort.queue)
    BY <1>1 DEF SortRight
  <2>2. QED
    BY <2>1, OneLess
<1>5. node \in N /\ ~Has(r, node)
  <2>1. CO!Last(sort.queue) \in N
    BY <1>1, OneLess DEF SortRight
  <2>2. QED
    BY <1>3, <1>4, <2>1 DEF SortRight
<1>6. /\ f[0] = front /\ \A e \in 0 .. m : f[e] \in Seq(N)
      /\ \A e \in 1 .. m : f[e] = IF Frees(e, node, done) THEN Append(f[e - 1], graph.edges[e][2]) ELSE f[e - 1]
  BY <1>1, <1>2, <1>3, <1>4 DEF Freeing
<1>7. \A n \in N : Has(sort.queue, n) => \A a : CO!Edge(a, n) => Has(r, a)
  BY <1>1, <1>3 DEF SortRight
<1>8. /\ \A e \in 1 .. m : Frees(e, node, done) =>
           /\ CO!Edge(node, graph.edges[e][2])
           /\ \A a : CO!Edge(a, graph.edges[e][2]) => a = node \/ Has(r, a)
           /\ \A k \in 1 .. m : Frees(k, node, done) /\ graph.edges[k][2] = graph.edges[e][2] => k = e
      /\ \A x : (CO!Edge(node, x) /\ \A a : CO!Edge(a, x) => a = node \/ Has(r, a)) =>
           \E e \in 1 .. m : Frees(e, node, done) /\ graph.edges[e][2] = x
  BY <1>1, <1>2, <1>3, <1>5, FreesIs
<1> DEFINE Right(q, k) ==
             /\ q \in Seq(N) /\ Distinct(q)
             /\ \A x : Has(q, x) <=>
                  Has(front, x) \/ \E e \in 1 .. k : Frees(e, node, done) /\ graph.edges[e][2] = x
           R == {k \in 0 .. m : Right(f[k], k)}
<1>9. 0 \in R
  BY <1>2, <1>4, <1>6
<1>10. ASSUME NEW k \in 1 .. m, k - 1 \in R PROVE k \in R
  <2>0. k \in 0 .. m /\ k - 1 \in 0 .. m /\ k \in Nat /\ \A i : i \in 1 .. k <=> i \in 1 .. k - 1 \/ i = k
    BY <1>2
  <2>1. PICK p, q, x : p = f[k - 1] /\ q = f[k] /\ x = graph.edges[k][2] /\ x \in N
    BY <1>2
  <2>2. Right(p, k - 1)
    <3> HIDE DEF Right
    <3>1. QED
      BY <1>10, <2>1
  <2>3. q = IF Frees(k, node, done) THEN Append(p, x) ELSE p
    BY <1>6, <2>1
  <2>4. CASE ~Frees(k, node, done)
    <3>1. Right(q, k)
      BY <2>0, <2>2, <2>3, <2>4
    <3> HIDE DEF Right
    <3>2. QED
      BY <2>0, <2>1, <3>1
  <2>5. CASE Frees(k, node, done)
    <3>1. ~Has(front, x)
      BY <1>4, <1>5, <1>7, <1>8, <2>1, <2>5
    <3>2. \A e \in 1 .. k - 1 : ~(Frees(e, node, done) /\ graph.edges[e][2] = x)
      <4>1. \A e \in 1 .. k - 1 : e \in 1 .. m /\ e # k
        BY <1>2
      <4>2. QED
        BY <1>8, <2>1, <2>5, <4>1
    <3>3. ~Has(p, x)
      BY <2>2, <3>1, <3>2
    <3>4. q \in Seq(N) /\ Distinct(q) /\ \A y : Has(q, y) <=> Has(p, y) \/ y = x
      BY <2>1, <2>2, <2>3, <2>5, <3>3, OneMore
    <3>5. Right(q, k)
      BY <2>0, <2>1, <2>2, <2>5, <3>4
    <3> HIDE DEF Right
    <3>6. QED
      BY <2>0, <2>1, <3>5
  <2>6. QED
    BY <2>4, <2>5
<1>11. PICK q : q = f[m]
  OBVIOUS
<1>12. Right(q, m)
  <2>1. \A k \in 0 .. m : k \in R
    <3> HIDE DEF R
    <3>1. QED
      BY <1>2, <1>9, <1>10, StepByStep
  <2>2. m \in R
    <3> HIDE DEF R
    <3>1. QED
      BY <1>2, <2>1
  <2> HIDE DEF Right
  <2>3. QED
    BY <1>11, <2>2
<1>13. \A x : (\E e \in 1 .. m : Frees(e, node, done) /\ graph.edges[e][2] = x)
                <=> CO!Edge(node, x) /\ \A a : CO!Edge(a, x) => a = node \/ Has(r, a)
  BY <1>8
<1>14. \A x : Has(q, x) <=>
         \/ Has(sort.queue, x) /\ x # node
         \/ CO!Edge(node, x) /\ \A a : CO!Edge(a, x) => a = node \/ Has(r, a)
  BY <1>4, <1>12, <1>13
<1>15. QED
  BY <1>1, <1>2, <1>3, <1>11, <1>12, <1>14

\* Popping a node keeps what topological_sort knows, and one more is done.
LEMMA PoppedRight ==
  ASSUME CO!GraphAssumption(graph), NEW sort, SortRight(sort), sort.queue # <<>>
  PROVE  /\ SortRight(CO!Popped(sort))
         /\ CO!Popped(sort) \in [queue : Seq(CO!NodesOf), result : Seq(CO!NodesOf)]
         /\ Len(CO!Popped(sort).result) = Len(sort.result) + 1
<1>1. PICK N, queue, r : N = CO!NodesOf /\ queue = sort.queue /\ r = sort.result
  OBVIOUS
<1>2. /\ queue \in Seq(N) /\ Distinct(queue) /\ r \in Seq(N) /\ Distinct(r)
      /\ \A x : ~(Has(queue, x) /\ Has(r, x))
      /\ \A n \in N : Has(queue, n) \/ Has(r, n) <=> \A a : CO!Edge(a, n) => Has(r, a)
      /\ \A i, j \in 1 .. Len(r) : CO!Edge(r[i], r[j]) => i < j
  BY <1>1 DEF SortRight
<1>3. PICK node \in N : node = CO!Last(queue) /\ Has(queue, node)
  BY <1>1, <1>2, OneLess
<1>4. ~Has(r, node) /\ \A a : CO!Edge(a, node) => Has(r, a)
  BY <1>2, <1>3
<1>5. PICK f : Freeing(f, sort)
  BY <1>1, <1>2, PoppedSteps
<1>6. PICK q \in Seq(N) :
        /\ q = f[Len(graph.edges)] /\ Distinct(q)
        /\ \A x : Has(q, x) <=>
             \/ Has(queue, x) /\ x # node
             \/ CO!Edge(node, x) /\ \A a : CO!Edge(a, x) => a = node \/ Has(r, a)
  BY <1>1, <1>3, <1>5, FreeingIs
<1>7. PICK t \in Seq(N) :
        /\ t = Append(r, node) /\ Distinct(t) /\ Len(t) = Len(r) + 1
        /\ \A y : Has(t, y) <=> Has(r, y) \/ y = node
  <2>1. /\ Append(r, node) \in Seq(N) /\ Distinct(Append(r, node)) /\ Len(Append(r, node)) = Len(r) + 1
        /\ \A y : Has(Append(r, node), y) <=> Has(r, y) \/ y = node
    BY <1>2, <1>3, <1>4, OneMore
  <2>2. QED
    BY <2>1
<1>8. PICK s : /\ s = CO!Popped(sort) /\ s = [queue |-> q, result |-> t]
  BY <1>1, <1>3, <1>5, <1>6, <1>7 DEF Freeing
<1>9. s.queue = q /\ s.result = t /\ s \in [queue : Seq(N), result : Seq(N)]
  BY <1>8
<1>10. \A x : ~(Has(q, x) /\ Has(t, x))
  <2>1. ASSUME NEW x, Has(q, x), Has(t, x) PROVE FALSE
    <3>1. CASE x = node
      BY <1>4, <1>6, <2>1, <3>1
    <3>2. CASE Has(r, x)
      <4>1. CO!Edge(node, x) /\ x \in N
        BY <1>1, <1>2, <1>6, <2>1, <3>2, EdgesAre
      <4>2. QED
        BY <1>2, <1>4, <3>2, <4>1
    <3>3. QED
      BY <1>7, <2>1, <3>1, <3>2
  <2>2. QED
    BY <2>1
<1>11. ASSUME NEW n \in N PROVE Has(q, n) \/ Has(t, n) <=> \A a : CO!Edge(a, n) => Has(t, a)
  <2>1. ASSUME Has(q, n) \/ Has(t, n), NEW a, CO!Edge(a, n) PROVE Has(t, a)
    <3>1. Has(r, a) \/ a = node
      BY <1>2, <1>4, <1>6, <1>7, <2>1
    <3>2. QED
      BY <1>7, <3>1
  <2>2. ASSUME \A a : CO!Edge(a, n) => Has(t, a) PROVE Has(q, n) \/ Has(t, n)
    <3>1. \A a : CO!Edge(a, n) => Has(r, a) \/ a = node
      BY <1>7, <2>2
    <3>2. CASE CO!Edge(node, n)
      BY <1>6, <3>1, <3>2
    <3>3. CASE ~CO!Edge(node, n)
      <4>1. Has(queue, n) \/ Has(r, n)
        BY <1>2, <3>1, <3>3
      <4>2. QED
        BY <1>6, <1>7, <4>1
    <3>4. QED
      BY <3>2, <3>3
  <2>3. QED
    BY <2>1, <2>2
<1>12. ASSUME NEW i \in 1 .. Len(t), NEW j \in 1 .. Len(t), CO!Edge(t[i], t[j]) PROVE i < j
  <2>1. /\ Len(r) \in Nat /\ t[Len(t)] = node /\ \A k \in 1 .. Len(r) : t[k] = r[k]
        /\ \A k : k \in 1 .. Len(t) <=> k \in 1 .. Len(r) \/ k = Len(t)
    BY <1>2, <1>3, <1>7, AppendProperties, LenProperties
  <2>2. CASE j \in 1 .. Len(r)
    <3>1. r[j] \in N /\ Has(r, r[j])
      BY <1>2, <2>2 DEF Has
    <3>2. Has(r, t[i])
      BY <1>2, <1>12, <2>1, <2>2, <3>1
    <3>3. i \in 1 .. Len(r)
      BY <1>4, <1>12, <2>1, <3>2
    <3>4. QED
      BY <1>2, <1>12, <2>1, <2>2, <3>3
  <2>3. CASE j = Len(t)
    <3>1. Has(r, t[i])
      BY <1>4, <1>12, <2>1, <2>3
    <3>2. i \in 1 .. Len(r)
      BY <1>4, <1>12, <2>1, <3>1
    <3>3. QED
      BY <1>7, <2>1, <2>3, <3>2
  <2>4. QED
    BY <2>1, <2>2, <2>3
<1>13. SortRight(s)
  BY <1>1, <1>6, <1>7, <1>9, <1>10, <1>11, <1>12 DEF SortRight
<1>14. QED
  BY <1>1, <1>7, <1>8, <1>9, <1>13

\* A round of topological_sort.
Round(sort) == IF sort.queue = <<>> THEN sort ELSE CO!Popped(sort)

\* Where topological_sort begins.
Unsorted(order) ==
  [queue |-> CO!Filtered(order, {n \in CO!NodesOf : CO!Incoming(n) = <<>>}), result |-> <<>>]

\* topological_sort, round after round.
Sorting(f, order, m) ==
  /\ \A k \in 0 .. m : SortRight(f[k])
  /\ f[0] = Unsorted(order)
  /\ \A k \in 1 .. m : f[k] = Round(f[k - 1])
  /\ CO!TopologicalSort(order) = IF Len(f[m].result) # m THEN CO!Error("CycleDetected")
                                 ELSE [nodes |-> f[m].result]

\* It begins with the nodes that no edge leads to.
LEMMA UnsortedRight ==
  ASSUME CO!GraphAssumption(graph), NEW order \in CO!SetToSeqs(CO!NodesOf)
  PROVE  /\ SortRight(Unsorted(order)) /\ Len(Unsorted(order).result) = 0
         /\ Unsorted(order) \in [queue : Seq(CO!NodesOf), result : Seq(CO!NodesOf)]
<1>1. PICK N, T : N = CO!NodesOf /\ T = {n \in CO!NodesOf : CO!Incoming(n) = <<>>}
  OBVIOUS
<1>2. order \in Seq(N) /\ Distinct(order) /\ \A n \in N : \E k \in 1 .. Len(order) : order[k] = n
  BY <1>1, OrderIs
<1>3. PICK q \in Seq(N) :
        /\ q = CO!Filtered(order, T)
        /\ \A x : Has(q, x) <=> x \in T /\ \E n \in 1 .. Len(order) : order[n] = x
        /\ \A j, k \in 1 .. Len(q) : j < k =>
             \E a, b \in 1 .. Len(order) : a < b /\ q[j] = order[a] /\ q[k] = order[b]
  <2>0. order \in Seq(N)
    BY <1>2
  <2>1. IsFiltered(CO!Filtered(order, T), N, order, T)
    BY <2>0, FilteredIs
  <2>2. QED
    BY <2>1 DEF IsFiltered, Has
<1>4. Distinct(q)
  <2>1. ASSUME NEW j \in 1 .. Len(q), NEW k \in 1 .. Len(q), j < k PROVE q[j] # q[k]
    <3>1. PICK a \in 1 .. Len(order), b \in 1 .. Len(order) : a < b /\ q[j] = order[a] /\ q[k] = order[b]
      BY <1>3, <2>1
    <3>2. a # b
      BY <1>2, <3>1, LenProperties
    <3>3. QED
      BY <1>2, <3>1, <3>2 DEF Distinct
  <2>2. \A j, k \in 1 .. Len(q) : j = k \/ j < k \/ k < j
    BY LenProperties
  <2>3. QED
    BY <2>1, <2>2 DEF Distinct
<1>5. \A n \in N : n \in T <=> \A a : ~CO!Edge(a, n)
  BY <1>1, IncomingIs
<1>6. PICK s : s = Unsorted(order) /\ s.queue = q /\ s.result = <<>>
  <2>1. Unsorted(order) = [queue |-> q, result |-> <<>>]
    BY <1>1, <1>3 DEF Unsorted
  <2>2. QED
    BY <2>1
<1>7. \A x : ~Has(s.result, x)
  BY <1>6 DEF Has
<1>8. \A n \in N : Has(s.queue, n) <=> \A a : ~CO!Edge(a, n)
  BY <1>2, <1>3, <1>5, <1>6
<1>9. s.result \in Seq(N) /\ Distinct(s.result) /\ Len(s.result) = 0
  BY <1>6 DEF Distinct
<1>10. SortRight(s)
  BY <1>1, <1>4, <1>6, <1>7, <1>8, <1>9 DEF SortRight
<1>11. s \in [queue : Seq(N), result : Seq(N)]
  BY <1>1, <1>3, <1>6, <1>9 DEF Unsorted
<1>12. QED
  BY <1>1, <1>6, <1>9, <1>10, <1>11

\* Every sort goes so.
LEMMA SortingSteps ==
  ASSUME CO!GraphAssumption(graph), NEW order \in CO!SetToSeqs(CO!NodesOf)
  PROVE  \E f : Sorting(f, order, Cardinality(CO!NodesOf))
<1>1. PICK m \in Nat : m = Cardinality(CO!NodesOf) /\ m = CO!Cardinality(CO!NodesOf)
  BY NodesAreFinite, CountedAlike
<1>2. PICK S : S = {s \in [queue : Seq(CO!NodesOf), result : Seq(CO!NodesOf)] : SortRight(s)}
  OBVIOUS
<1>3. PICK first \in S : first = Unsorted(order)
  BY <1>2, UnsortedRight
<1> DEFINE next(r) == Round(r)
           Up(f) == f = [k \in 0 .. m |-> IF k = 0 THEN first ELSE next(f[k - 1])]
           step == [k \in 1 .. m |-> [r \in S |-> next(r)]]
           g == CHOOSE f : Up(f)
<1>5. \A r \in S : next(r) \in S
  <2>1. ASSUME NEW r \in S PROVE next(r) \in S
    <3>1. CASE r.queue = <<>>
      BY <3>1 DEF Round
    <3>2. CASE r.queue # <<>>
      BY <1>2, <3>2, PoppedRight DEF Round
    <3>3. QED
      BY <3>1, <3>2
  <2>2. QED
    BY <2>1
<1>6. \E f \in [0 .. m -> S] : Up(f)
  <2> HIDE DEF next
  <2>1. step \in [1 .. m -> [S -> S]]
    BY <1>5
  <2>3. PICK f \in [0 .. m -> S] : FollowsFrom(f, first, step, m)
    <3> HIDE DEF step
    <3>1. QED
      BY <1>1, <1>3, <2>1, Recursion
  <2>4. ASSUME NEW k \in 0 .. m, k # 0 PROVE step[k][f[k - 1]] = next(f[k - 1])
    <3>1. k \in 1 .. m /\ k - 1 \in 0 .. m
      BY <1>1, <2>4
    <3>2. f[k - 1] \in S
      BY <3>1
    <3>3. QED
      BY <3>1, <3>2
  <2>5. Up(f)
    <3> HIDE DEF step
    <3>1. QED
      BY <2>3, <2>4 DEF FollowsFrom
  <2>6. QED
    BY <2>5
<1>7. Up(g)
  BY <1>6
<1>8. CO!TopologicalSort(order) =
        IF Len(g[m].result) # m THEN CO!Error("CycleDetected") ELSE [nodes |-> g[m].result]
  BY <1>1, <1>3 DEF CO!TopologicalSort, Round, Unsorted
<1> HIDE DEF g
<1>9. /\ g = [k \in 0 .. m |-> g[k]]
      /\ \A k \in 0 .. m : g[k] = IF k = 0 THEN first ELSE next(g[k - 1])
  <2> HIDE DEF next
  <2>1. QED
    BY <1>7
<1>10. g[0] = first /\ \A k \in 1 .. m : g[k] = next(g[k - 1])
  <2> HIDE DEF next
  <2>1. \A k \in 0 .. m : g[k] = IF k = 0 THEN first ELSE next(g[k - 1])
    BY <1>9
  <2>2. 0 \in 0 .. m /\ \A k \in 1 .. m : k \in 0 .. m /\ k # 0
    BY <1>1
  <2>3. g[0] = first
    BY ONLY <2>1, <2>2
  <2>4. ASSUME NEW k \in 1 .. m PROVE g[k] = next(g[k - 1])
    BY ONLY <2>1, <2>2, k \in 1 .. m
  <2>5. QED
    BY <2>3, <2>4
<1>11. \A k \in 0 .. m : g[k] \in S
  <2> DEFINE R == {k \in 0 .. m : g[k] \in S}
  <2>1. 0 \in R
    BY <1>1, <1>3, <1>10
  <2> HIDE DEF next
  <2>2. ASSUME NEW k \in 1 .. m, k - 1 \in R PROVE k \in R
    BY <1>1, <1>5, <1>10, <2>2
  <2>3. \A k \in 0 .. m : k \in R
    <3> HIDE DEF R
    <3>1. QED
      BY <1>1, <2>1, <2>2, StepByStep
  <2>4. QED
    BY <2>3
<1>12. \A k \in 0 .. m : SortRight(g[k])
  BY <1>2, <1>11
<1>13. Sorting(g, order, m)
  BY <1>1, <1>3, <1>8, <1>10, <1>12 DEF Sorting
<1>14. QED
  BY <1>1, <1>13

\* Where every node has one before it, there is a cycle.
LEMMA AllAfterOthers ==
  ASSUME CO!GraphAssumption(graph), NEW U, U \subseteq CO!NodesOf, U # {},
         \A n \in U : \E p \in U : CO!Edge(p, n)
  PROVE  CO!Cyclic
<1>1. PICK N : N = CO!NodesOf /\ IsFiniteSet(N)
  BY NodesAreFinite
<1> DEFINE Before(n) == {k \in N : n \in CO!Reachable(k)}
<1>2. \A n : IsFiniteSet(Before(n)) /\ Cardinality(Before(n)) \in Nat
  <2>1. ASSUME NEW n PROVE IsFiniteSet(Before(n)) /\ Cardinality(Before(n)) \in Nat
    <3>1. PICK A \in SUBSET N : A = Before(n)
      OBVIOUS
    <3>2. IsFiniteSet(A)
      BY <1>1, FS_Subset
    <3>3. QED
      BY <3>1, <3>2, FS_CardinalityType
  <2>2. QED
    BY <2>1
<1>3. PICK T : T = {Cardinality(Before(n)) : n \in U}
  OBVIOUS
<1>4. PICK least \in T : \A i \in T : least <= i
  <2> HIDE DEF Before
  <2>1. T \subseteq Nat /\ T # {}
    BY <1>2, <1>3
  <2>2. QED
    BY <2>1, Least
<1>5. PICK n \in U : \A p \in U : Cardinality(Before(n)) <= Cardinality(Before(p))
  <2> HIDE DEF Before
  <2>1. QED
    BY <1>3, <1>4
<1>6. PICK p \in U : CO!Edge(p, n)
  OBVIOUS
<1>7. p \in N /\ Before(p) \subseteq Before(n) /\ p \in Before(n)
  <2>1. p \in N
    BY <1>1
  <2>2. \A k : p \in CO!Reachable(k) => n \in CO!Reachable(k)
    BY <1>6, ReachableIs
  <2>3. n \in CO!Reachable(p)
    BY <1>6, ReachableIs
  <2>4. QED
    BY <2>1, <2>2, <2>3
<1>8. Before(n) = Before(p)
  <2>1. PICK A, B : A = Before(n) /\ B = Before(p) /\ B \in SUBSET A
    BY <1>7
  <2>2. IsFiniteSet(A) /\ Cardinality(A) \in Nat /\ Cardinality(B) \in Nat /\ Cardinality(A) <= Cardinality(B)
    <3> HIDE DEF Before
    <3>1. QED
      BY <1>2, <1>5, <2>1
  <2>3. Cardinality(B) <= Cardinality(A) /\ (Cardinality(A) = Cardinality(B) => A = B)
    BY <2>1, <2>2, FS_Subset
  <2>4. QED
    BY <2>1, <2>2, <2>3
<1>9. p \in CO!Reachable(p)
  BY <1>7, <1>8
<1>10. QED
  BY <1>1, <1>7, <1>9 DEF CO!Cyclic

\* A sort fails only on a cycle, and gives each node once, after all before it.
LEMMA SortedIs ==
  ASSUME CO!GraphAssumption(graph), NEW order \in CO!SetToSeqs(CO!NodesOf),
         NEW sorted, sorted = CO!TopologicalSort(order)
  PROVE  \/ sorted = CO!Error("CycleDetected") /\ CO!Cyclic
         \/ /\ sorted = [nodes |-> sorted.nodes] /\ sorted.nodes \in Seq(CO!NodesOf) /\ Distinct(sorted.nodes)
            /\ \A n \in CO!NodesOf : Has(sorted.nodes, n)
            /\ \A i, j \in 1 .. Len(sorted.nodes) :
                 CO!Edge(sorted.nodes[i], sorted.nodes[j]) => i < j
<1>1. PICK N : N = CO!NodesOf /\ IsFiniteSet(N)
  BY NodesAreFinite
<1>2. PICK m \in Nat : m = Cardinality(N)
  BY <1>1, FS_CardinalityType
<1>3. PICK f : Sorting(f, order, m)
  BY <1>1, <1>2, SortingSteps
<1>4. /\ \A k \in 0 .. m : SortRight(f[k])
      /\ Len(f[0].result) = 0 /\ \A k \in 1 .. m : f[k] = Round(f[k - 1])
      /\ sorted = IF Len(f[m].result) # m THEN CO!Error("CycleDetected") ELSE [nodes |-> f[m].result]
  BY <1>2, <1>3, UnsortedRight DEF Sorting
<1> DEFINE Right(s, k) == s.queue = <<>> \/ Len(s.result) = k
           R == {k \in 0 .. m : Right(f[k], k)}
<1>5. 0 \in R
  BY <1>2, <1>4
<1>6. ASSUME NEW k \in 1 .. m, k - 1 \in R PROVE k \in R
  <2>0. k \in 0 .. m /\ k - 1 \in 0 .. m
    BY <1>2
  <2>1. PICK r, t : r = f[k - 1] /\ t = f[k] /\ SortRight(r)
    BY <1>4, <2>0
  <2>2. Right(r, k - 1) /\ t = Round(r)
    BY <1>4, <1>6, <2>1
  <2>3. Right(t, k)
    <3>1. CASE r.queue = <<>>
      BY <2>2, <3>1 DEF Round
    <3>2. CASE r.queue # <<>>
      <4>1. Len(t.result) = Len(r.result) + 1
        BY <2>1, <2>2, <3>2, PoppedRight DEF Round
      <4>2. QED
        BY <2>2, <3>2, <4>1
    <3>3. QED
      BY <3>1, <3>2
  <2> HIDE DEF Right
  <2>4. QED
    BY <2>0, <2>1, <2>3
<1>7. PICK s : s = f[m]
  OBVIOUS
<1>8. (s.queue = <<>> \/ Len(s.result) = m) /\ SortRight(s)
  <2>1. \A k \in 0 .. m : k \in R
    <3> HIDE DEF R
    <3>1. QED
      BY <1>2, <1>5, <1>6, StepByStep
  <2>2. m \in R /\ m \in 0 .. m
    <3> HIDE DEF R
    <3>1. QED
      BY <1>2, <2>1
  <2>3. QED
    BY <1>4, <1>7, <2>2
<1>9. PICK r \in Seq(N) :
        /\ r = s.result /\ Distinct(r) /\ \A i, j \in 1 .. Len(r) : CO!Edge(r[i], r[j]) => i < j
        /\ \A n \in N : Has(s.queue, n) \/ Has(r, n) <=> \A a : CO!Edge(a, n) => Has(r, a)
  BY <1>1, <1>8 DEF SortRight
<1>10. Len(r) = m <=> \A n \in N : Has(r, n)
  BY <1>1, <1>2, <1>9, DistinctIs DEF Has
<1>11. CASE Len(r) = m
  <2>1. sorted = [nodes |-> r]
    BY <1>4, <1>7, <1>9, <1>11
  <2>2. sorted.nodes = r
    BY <2>1
  <2>3. QED
    BY <1>1, <1>9, <1>10, <1>11, <2>1, <2>2
<1>12. CASE Len(r) # m
  <2>1. PICK U : U = {n \in N : ~Has(r, n)}
    OBVIOUS
  <2>2. U \subseteq N /\ U # {}
    BY <1>10, <1>12, <2>1
  <2>3. \A n : ~Has(s.queue, n)
    BY <1>8, <1>9, <1>12 DEF Has
  <2>4. \A n \in U : \E p \in U : CO!Edge(p, n)
    <3>1. ASSUME NEW n \in U PROVE \E p \in U : CO!Edge(p, n)
      <4>1. PICK p : CO!Edge(p, n) /\ ~Has(r, p)
        BY <1>9, <2>1, <2>3
      <4>2. p \in N
        BY <1>1, <4>1, EdgesAre
      <4>3. QED
        BY <2>1, <4>1, <4>2
    <3>2. QED
      BY <3>1
  <2>5. CO!Cyclic
    BY <1>1, <2>2, <2>4, AllAfterOthers
  <2>6. sorted = CO!Error("CycleDetected")
    BY <1>4, <1>7, <1>9, <1>12
  <2>7. QED
    BY <2>5, <2>6
<1>13. QED
  BY <1>11, <1>12

------------------------------------------------------------------------------
(* The walk to a linear pipeline *)

\* A walk fails as not linear, or its steps are commands along edges up to where it is.
WalkRight(w) ==
  \/ w = CO!Error("NotLinearGraph")
  \/ /\ w \in [at : CO!NodesOf, nodes : Seq(CO!NodesOf)]
     /\ \A i \in 1 .. Len(w.nodes) :
          graph.kind[w.nodes[i]] \notin CO!Routing /\ w.at \in CO!Reachable(w.nodes[i])
     /\ \A i, j \in 1 .. Len(w.nodes) : i < j => w.nodes[j] \in CO!Reachable(w.nodes[i])

\* What is an error and what is not.
LEMMA ErrorsAre ==
  /\ \A why : CO!IsError(CO!Error(why)) /\ CO!Error(why).error = why
  /\ \A a, n : ~CO!IsError([at |-> a, nodes |-> n])
  /\ \A n : ~CO!IsError([nodes |-> n])
  /\ \A s, t, g : ~CO!IsError([steps |-> s, takes |-> t, gives |-> g])
  /\ \A s, t, g, e : ~CO!IsError([steps |-> s, takes |-> t, gives |-> g, effect |-> e])
BY DEF CO!IsError, CO!Error

\* One step on, it still is.
LEMMA WalkedOn ==
  ASSUME CO!GraphAssumption(graph), NEW w, WalkRight(w)
  PROVE  WalkRight(CO!WalkOn(w))
<1>1. CASE CO!IsError(w)
  BY <1>1 DEF CO!WalkOn
<1>2. CASE ~CO!IsError(w)
  <2>1. w # CO!Error("NotLinearGraph")
    BY <1>2, ErrorsAre
  <2>2. PICK N, here, s : N = CO!NodesOf /\ here = w.at /\ s = w.nodes
    OBVIOUS
  <2>3. /\ here \in N /\ s \in Seq(N)
        /\ \A i \in 1 .. Len(s) : graph.kind[s[i]] \notin CO!Routing /\ here \in CO!Reachable(s[i])
        /\ \A i, j \in 1 .. Len(s) : i < j => s[j] \in CO!Reachable(s[i])
    BY <2>1, <2>2 DEF WalkRight
  <2>4. CASE here = graph.exits[1]
    BY <2>2, <2>4 DEF CO!WalkOn
  <2>5. CASE /\ here # graph.exits[1]
             /\ graph.kind[here] \in {"tee", "branch", "join"} \/ Len(CO!Outgoing(here)) # 1
    BY <1>2, <2>2, <2>5 DEF CO!WalkOn, WalkRight
  <2>6. CASE /\ here # graph.exits[1]
             /\ ~(graph.kind[here] \in {"tee", "branch", "join"} \/ Len(CO!Outgoing(here)) # 1)
    <3>1. PICK x : x = CO!Outgoing(here)[1] /\ CO!Edge(here, x)
      <4>1. 1 \in 1 .. Len(CO!Outgoing(here))
        BY <2>6
      <4>2. \A b : (\E k \in 1 .. Len(CO!Outgoing(here)) : CO!Outgoing(here)[k] = b) <=> CO!Edge(here, b)
        BY <2>2, <2>3, OutgoingIs
      <4>3. QED
        BY <4>1, <4>2
    <3>2. x \in N /\ x \in CO!Reachable(here) /\ \A a : here \in CO!Reachable(a) => x \in CO!Reachable(a)
      BY <2>2, <3>1, EdgesAre, ReachableIs
    <3>3. CASE graph.kind[here] \in CO!Routing
      <4>1. PICK v : v = CO!WalkOn(w) /\ v = [at |-> x, nodes |-> s]
        BY <1>2, <2>2, <2>6, <3>1, <3>3 DEF CO!WalkOn
      <4>2. v.at = x /\ v.nodes = s /\ v \in [at : N, nodes : Seq(N)]
        BY <2>3, <3>2, <4>1
      <4>3. WalkRight(v)
        BY <2>2, <2>3, <3>2, <4>2 DEF WalkRight
      <4>4. QED
        BY <4>1, <4>3
    <3>4. CASE graph.kind[here] \notin CO!Routing
      <4>1. PICK t \in Seq(N) : t = Append(s, here) /\ Len(t) = Len(s) + 1 /\ t[Len(t)] = here
                                /\ \A k \in 1 .. Len(s) : t[k] = s[k]
        <5>1. /\ Append(s, here) \in Seq(N) /\ Len(Append(s, here)) = Len(s) + 1
              /\ Append(s, here)[Len(s) + 1] = here /\ \A k \in 1 .. Len(s) : Append(s, here)[k] = s[k]
          BY <2>3, AppendProperties
        <5>2. QED
          BY <5>1
      <4>2. PICK v : v = CO!WalkOn(w) /\ v = [at |-> x, nodes |-> t]
        BY <1>2, <2>2, <2>6, <3>1, <3>4, <4>1 DEF CO!WalkOn
      <4>3. v.at = x /\ v.nodes = t /\ v \in [at : N, nodes : Seq(N)]
        BY <2>3, <3>2, <4>1, <4>2
      <4>4. Len(s) \in Nat /\ \A k : k \in 1 .. Len(t) <=> k \in 1 .. Len(s) \/ k = Len(t)
        BY <2>3, <4>1, LenProperties
      <4>5. \A i \in 1 .. Len(t) : graph.kind[t[i]] \notin CO!Routing /\ x \in CO!Reachable(t[i])
        BY <2>3, <3>2, <3>4, <4>1, <4>4
      <4>6. \A i, j \in 1 .. Len(t) : i < j => t[j] \in CO!Reachable(t[i])
        <5>1. ASSUME NEW i \in 1 .. Len(t), NEW j \in 1 .. Len(t), i < j PROVE t[j] \in CO!Reachable(t[i])
          <6>1. i \in 1 .. Len(s)
            BY <4>1, <4>4, <5>1
          <6>2. CASE j = Len(t)
            BY <2>3, <4>1, <6>1, <6>2
          <6>3. CASE j \in 1 .. Len(s)
            BY <2>3, <4>1, <5>1, <6>1, <6>3
          <6>4. QED
            BY <4>4, <6>2, <6>3
        <5>2. QED
          BY <5>1
      <4>7. WalkRight(v)
        BY <2>2, <4>3, <4>5, <4>6 DEF WalkRight
      <4>8. QED
        BY <4>2, <4>7
    <3>5. QED
      BY <3>3, <3>4
  <2>7. QED
    BY <2>4, <2>5, <2>6
<1>3. QED
  BY <1>1, <1>2


\* to_linear_ast walks so, and its steps are commands along edges.
LEMMA LinearRight ==
  ASSUME CO!GraphAssumption(graph), graph.entry \in CO!NodesOf
  PROVE  WalkRight(CO!ToLinearAst)
<1>1. PICK m \in Nat : m = CO!Cardinality(CO!NodesOf)
  BY NodesAreFinite, CountedAlike
<1>2. PICK S : S = {w \in [at : CO!NodesOf, nodes : Seq(CO!NodesOf)] \cup {CO!Error("NotLinearGraph")} :
                      WalkRight(w)}
  OBVIOUS
<1>3. \A w : w \in S <=> WalkRight(w)
  BY <1>2 DEF WalkRight
<1>4. PICK first \in S : first = [at |-> graph.entry, nodes |-> <<>>]
  <2>1. PICK w : w = [at |-> graph.entry, nodes |-> <<>>]
    OBVIOUS
  <2>2. w.nodes = <<>> /\ w \in [at : CO!NodesOf, nodes : Seq(CO!NodesOf)]
    BY <2>1
  <2>3. WalkRight(w)
    BY <2>2 DEF WalkRight
  <2>4. QED
    BY <1>3, <2>1, <2>3
<1> DEFINE next(w) == CO!WalkOn(w)
           Up(f) == f = [k \in 0 .. m |-> IF k = 0 THEN first ELSE next(f[k - 1])]
           step == [k \in 1 .. m |-> [w \in S |-> next(w)]]
           g == CHOOSE f : Up(f)
<1>5. \A w \in S : next(w) \in S
  BY <1>3, WalkedOn
<1>6. \E f \in [0 .. m -> S] : Up(f)
  <2> HIDE DEF next
  <2>1. step \in [1 .. m -> [S -> S]]
    BY <1>5
  <2>3. PICK f \in [0 .. m -> S] : FollowsFrom(f, first, step, m)
    <3> HIDE DEF step
    <3>1. QED
      BY <1>1, <1>4, <2>1, Recursion
  <2>4. ASSUME NEW k \in 0 .. m, k # 0 PROVE step[k][f[k - 1]] = next(f[k - 1])
    <3>1. k \in 1 .. m /\ k - 1 \in 0 .. m
      BY <1>1, <2>4
    <3>2. f[k - 1] \in S
      BY <3>1
    <3>3. QED
      BY <3>1, <3>2
  <2>5. Up(f)
    <3> HIDE DEF step
    <3>1. QED
      BY <2>3, <2>4 DEF FollowsFrom
  <2>6. QED
    BY <2>5
<1>7. Up(g)
  BY <1>6
<1>8. CO!ToLinearAst = g[m]
  BY <1>1, <1>4 DEF CO!ToLinearAst
<1> HIDE DEF g
<1>9. /\ g = [k \in 0 .. m |-> g[k]]
      /\ \A k \in 0 .. m : g[k] = IF k = 0 THEN first ELSE next(g[k - 1])
  <2> HIDE DEF next
  <2>1. QED
    BY <1>7
<1> DEFINE R == {k \in 0 .. m : g[k] \in S}
<1>10. 0 \in R
  <2>1. 0 \in 0 .. m
    BY <1>1
  <2> HIDE DEF next
  <2>2. g[0] = first
    BY ONLY <1>9, <2>1
  <2>3. QED
    BY <2>1, <2>2
<1>11. ASSUME NEW k \in 1 .. m, k - 1 \in R PROVE k \in R
  <2>1. k \in 0 .. m /\ k # 0 /\ k - 1 \in 0 .. m /\ g[k - 1] \in S
    BY <1>1, <1>11
  <2> HIDE DEF next
  <2>2. g[k] = next(g[k - 1])
    BY ONLY <1>9, <2>1
  <2>3. QED
    BY <1>5, <2>1, <2>2
<1>12. \A k \in 0 .. m : k \in R
  <2> HIDE DEF R
  <2>1. QED
    BY <1>1, <1>10, <1>11, StepByStep
<1>13. g[m] \in S
  <2>1. m \in R
    <3> HIDE DEF R
    <3>1. QED
      BY <1>1, <1>12
  <2>2. QED
    BY <2>1
<1>14. QED
  BY <1>3, <1>8, <1>13

------------------------------------------------------------------------------
(* What the compilers return *)

\* Of two sequences that rise in the same way with the same elements, the one has what the
\* other has, at the same places.
LEMMA RisesAlike ==
  ASSUME NEW S, NEW u \in Seq(S), NEW v \in Seq(S), NEW pos \in [S -> Nat],
         \A i, j \in 1 .. Len(u) : i < j => pos[u[i]] < pos[u[j]],
         \A i, j \in 1 .. Len(v) : i < j => pos[v[i]] < pos[v[j]],
         \A x : Has(u, x) <=> Has(v, x)
  PROVE  Len(u) <= Len(v) /\ \A i \in 1 .. Len(u) : u[i] = v[i]
<1>1. PICK m \in Nat, n \in Nat : m = Len(u) /\ n = Len(v)
  BY LenProperties
<1>2. \A i \in 1 .. m : u[i] \in S /\ pos[u[i]] \in Nat
  BY <1>1, ElementOfSeq
<1>3. \A i \in 1 .. n : v[i] \in S /\ pos[v[i]] \in Nat
  BY <1>1, ElementOfSeq
<1> DEFINE R == {k \in 0 .. m : k <= n /\ \A i \in 1 .. k : u[i] = v[i]}
<1>4. 0 \in R
  BY <1>1
<1>5. ASSUME NEW k \in 1 .. m, k - 1 \in R PROVE k \in R
  <2>0. k - 1 <= n /\ k \in Nat /\ k \in 0 .. m /\ \A i \in 1 .. k - 1 : u[i] = v[i]
    BY <1>1, <1>5
  <2>1. PICK j \in 1 .. n : v[j] = u[k]
    <3>1. Has(u, u[k])
      BY <1>1 DEF Has
    <3>2. QED
      BY <1>1, <3>1 DEF Has
  <2>2. ~(j < k)
    <3>1. SUFFICES ASSUME j < k PROVE FALSE
      OBVIOUS
    <3>2. j \in 1 .. k - 1 /\ j \in 1 .. m
      BY <1>1, <3>1
    <3>3. u[j] = u[k] /\ pos[u[j]] < pos[u[k]]
      BY <1>1, <2>0, <2>1, <3>1, <3>2
    <3>4. QED
      BY <1>2, <3>2, <3>3
  <2>3. k <= j /\ j <= n /\ k \in 1 .. n
    BY <1>1, <2>0, <2>2
  <2>4. k = j
    <3>1. SUFFICES ASSUME k # j PROVE FALSE
      OBVIOUS
    <3>2. k < j
      BY <1>1, <2>3, <3>1
    <3>3. pos[v[k]] < pos[u[k]]
      BY <1>1, <2>1, <2>3, <3>2
    <3>4. PICK i \in 1 .. m : u[i] = v[k]
      <4>1. Has(v, v[k])
        BY <1>1, <2>3 DEF Has
      <4>2. QED
        BY <1>1, <4>1 DEF Has
    <3>5. i < k
      <4>1. pos[u[i]] < pos[u[k]] /\ pos[u[i]] \in Nat /\ pos[u[k]] \in Nat
        BY <1>2, <3>3, <3>4
      <4>2. i # k
        BY <4>1
      <4>3. ~(k < i)
        <5>1. k < i => pos[u[k]] < pos[u[i]]
          BY <1>1
        <5>2. QED
          BY <4>1, <5>1
      <4>4. QED
        BY ONLY <4>2, <4>3, k \in 1 .. m, i \in 1 .. m, m \in Nat
    <3>6. i \in 1 .. k - 1 /\ i \in 1 .. n /\ k \in 1 .. n
      BY <1>1, <2>3, <3>5
    <3>7. v[i] = v[k] /\ pos[v[i]] < pos[v[k]]
      BY <1>1, <2>0, <3>4, <3>5, <3>6
    <3>8. QED
      BY <1>3, <3>6, <3>7
  <2>5. \A i \in 1 .. k : i \in 1 .. k - 1 \/ i = k
    BY <2>0
  <2>6. \A i \in 1 .. k : u[i] = v[i]
    BY <2>0, <2>1, <2>4, <2>5
  <2>7. QED
    BY <2>0, <2>3, <2>6
<1>6. m \in R
  <2>1. \A k \in 0 .. m : k \in R
    <3> HIDE DEF R
    <3>1. QED
      BY <1>1, <1>4, <1>5, StepByStep
  <2>2. m \in 0 .. m
    BY <1>1
  <2> HIDE DEF R
  <2>3. QED
    BY <2>1, <2>2
<1>7. QED
  BY <1>1, <1>6

\* They are the same sequence.
LEMMA SameOrder ==
  ASSUME NEW S, NEW u \in Seq(S), NEW v \in Seq(S), NEW pos \in [S -> Nat],
         \A i, j \in 1 .. Len(u) : i < j => pos[u[i]] < pos[u[j]],
         \A i, j \in 1 .. Len(v) : i < j => pos[v[i]] < pos[v[j]],
         \A x : Has(u, x) <=> Has(v, x)
  PROVE  u = v
<1>1. Len(u) <= Len(v) /\ \A i \in 1 .. Len(u) : u[i] = v[i]
  BY RisesAlike
<1>2. Len(v) <= Len(u)
  BY RisesAlike
<1>3. Len(u) = Len(v)
  BY <1>1, <1>2, LenProperties
<1>4. QED
  BY <1>1, <1>3, SeqEqual

\* validate fails for want of ends, or exactly on a cycle.
LEMMA ValidateIs ==
  ASSUME CO!GraphAssumption(graph), NEW order \in CO!SetToSeqs(CO!NodesOf), None \notin CO!Failures
  PROVE  \/ CO!Validate(order) \in {"MissingEntry", "MissingExit"}
         \/ CO!Validate(order) = "CycleDetected" /\ CO!Cyclic
         \/ CO!Validate(order) = None /\ ~CO!Cyclic /\ graph.entry \in CO!NodesOf
BY HasCycleRight DEF CO!Validate

\* Manifests that are all right are of known commands.
LEMMA ManifestsAre ==
  ASSUME None \notin CO!Failures, NEW steps
  PROVE  \/ CO!Manifests(steps) = None /\ \A k \in DOMAIN steps : CO!Known(graph.kind[steps[k]])
         \/ CO!Manifests(steps) \in {"CommandNotFound", "SchemaHashMismatch"}
BY DEF CO!Manifests, CO!Failures

\* A built-in command takes one or many.
LEMMA BuiltinTakes ==
  ASSUME NEW c, CO!Known(c)
  PROVE  CO!Builtin[c].takes[2] \in {"one", "many"}
<1>1. c \in {"search", "resolve", "summarize", "filter", "map", "propose"}
  BY DEF CO!Known, CO!Builtin
<1>2. QED
  BY <1>1 DEF CO!Builtin

\* An error says that there is a cycle exactly when there is one, unless an end is missing.
ErrorRight(r) ==
  /\ CO!IsError(r)
  /\ r.error = "CycleDetected" <=> CO!Cyclic /\ r.error \notin {"MissingEntry", "MissingExit"}

\* A linear pipeline.
PipelineRight(r) ==
  /\ ~CO!IsError(r) /\ ~CO!Cyclic /\ r.steps \in Seq(CO!NodesOf)
  /\ \A i \in 1 .. Len(r.steps) : graph.kind[r.steps[i]] \notin CO!Routing /\ CO!Known(graph.kind[r.steps[i]])
  /\ \A i, j \in 1 .. Len(r.steps) : i < j => r.steps[j] \in CO!Reachable(r.steps[i])
  /\ \A k \in 2 .. Len(r.steps) :
       CO!Fits(CO!Builtin[graph.kind[r.steps[k - 1]]].gives, CO!Builtin[graph.kind[r.steps[k]]].takes)

\* What compile returns is one of the two.
LEMMA CompiledLinear ==
  ASSUME CO!GraphAssumption(graph), NEW order \in CO!SetToSeqs(CO!NodesOf), None \notin CO!Failures
  PROVE  ErrorRight(CO!CompileLinear(order)) \/ PipelineRight(CO!CompileLinear(order))
<1>1. PICK invalid, walk, r :
        /\ invalid = CO!Validate(order) /\ walk = CO!ToLinearAst /\ r = CO!CompileLinear(order)
  OBVIOUS
<1>2. PICK steps, unknown : steps = walk.nodes /\ unknown = CO!Manifests(steps)
  OBVIOUS
<1>3. r = IF invalid # None THEN CO!Error(invalid)
          ELSE IF CO!IsError(walk) THEN walk
          ELSE IF steps = <<>> THEN CO!Error("EmptyPipeline")
          ELSE IF unknown # None THEN CO!Error(unknown)
          ELSE IF CO!IsError(CO!Compose(steps)) THEN CO!Compose(steps)
          ELSE [steps |-> steps, takes |-> CO!Compose(steps).takes, gives |-> CO!Compose(steps).gives,
                effect |-> IF \E n \in CO!ToSet(steps) : CO!Builtin[graph.kind[n]].effect = 1 THEN 1 ELSE 0]
  BY <1>1, <1>2 DEF CO!CompileLinear
<1>4. \/ invalid \in {"MissingEntry", "MissingExit"}
      \/ invalid = "CycleDetected" /\ CO!Cyclic
      \/ invalid = None /\ ~CO!Cyclic /\ graph.entry \in CO!NodesOf
  BY <1>1, ValidateIs
<1>5. CASE invalid # None
  <2>1. r = CO!Error(invalid)
    BY <1>3, <1>5
  <2>2. CO!IsError(r) /\ r.error = invalid
    BY <2>1, ErrorsAre
  <2>3. ErrorRight(r)
    BY <1>4, <1>5, <2>2 DEF ErrorRight
  <2>4. QED
    BY <1>1, <2>3
<1>6. CASE invalid = None
  <2>1. ~CO!Cyclic /\ graph.entry \in CO!NodesOf
    BY <1>4, <1>6 DEF CO!Failures
  <2>2. \A why \in {"NotLinearGraph", "EmptyPipeline", "CommandNotFound", "SchemaHashMismatch",
                    "TypeMismatch or CardinalityConflict"} : ErrorRight(CO!Error(why))
    BY <2>1, ErrorsAre DEF ErrorRight
  <2>3. WalkRight(walk)
    BY <1>1, <2>1, LinearRight
  <2>4. CASE CO!IsError(walk)
    <3>1. r = walk
      BY <1>3, <1>6, <2>4
    <3>2. walk = CO!Error("NotLinearGraph")
      <4>1. ASSUME walk \in [at : CO!NodesOf, nodes : Seq(CO!NodesOf)] PROVE ~CO!IsError(walk)
        <5>1. walk = [at |-> walk.at, nodes |-> walk.nodes]
          BY <4>1
        <5>2. QED
          BY <5>1, ErrorsAre
      <4>2. QED
        BY <2>3, <2>4, <4>1 DEF WalkRight
    <3>3. QED
      BY <1>1, <2>2, <3>1, <3>2
  <2>5. CASE ~CO!IsError(walk) /\ steps = <<>>
    BY <1>1, <1>3, <1>6, <2>2, <2>5
  <2>6. CASE ~CO!IsError(walk) /\ steps # <<>> /\ unknown # None
    <3>1. unknown \in {"CommandNotFound", "SchemaHashMismatch"}
      BY <1>2, <2>6, ManifestsAre
    <3>2. QED
      BY <1>1, <1>3, <1>6, <2>2, <2>6, <3>1
  <2>7. CASE ~CO!IsError(walk) /\ steps # <<>> /\ unknown = None
    <3>1. /\ steps \in Seq(CO!NodesOf)
          /\ \A i \in 1 .. Len(steps) : graph.kind[steps[i]] \notin CO!Routing
          /\ \A i, j \in 1 .. Len(steps) : i < j => steps[j] \in CO!Reachable(steps[i])
      BY <1>2, <2>3, <2>7, ErrorsAre DEF WalkRight
    <3>2. \A i \in 1 .. Len(steps) : CO!Known(graph.kind[steps[i]])
      <4>1. \A i \in DOMAIN steps : CO!Known(graph.kind[steps[i]])
        BY <1>2, <2>7, ManifestsAre DEF CO!Failures
      <4>2. DOMAIN steps = 1 .. Len(steps)
        BY <3>1, LenProperties
      <4>3. QED
        BY <4>1, <4>2
    <3>3. PICK conflict : conflict <=> \E k \in 2 .. Len(steps) :
            ~CO!Fits(CO!Builtin[graph.kind[steps[k - 1]]].gives, CO!Builtin[graph.kind[steps[k]]].takes)
      OBVIOUS
    <3>4. CASE conflict
      <4>1. CO!Compose(steps) = CO!Error("TypeMismatch or CardinalityConflict")
        BY <3>3, <3>4 DEF CO!Compose
      <4>2. r = CO!Error("TypeMismatch or CardinalityConflict")
        BY <1>3, <1>6, <2>7, <4>1, ErrorsAre
      <4>3. QED
        BY <1>1, <2>2, <4>2
    <3>5. CASE ~conflict
      <4>1. CO!Compose(steps) = [steps |-> steps, takes |-> CO!Builtin[graph.kind[steps[1]]].takes,
                                 gives |-> CO!Builtin[graph.kind[steps[Len(steps)]]].gives]
        BY <3>3, <3>5 DEF CO!Compose
      <4>2. ~CO!IsError(CO!Compose(steps))
        BY <4>1, ErrorsAre
      <4>3. PICK takes, gives, effect :
              r = [steps |-> steps, takes |-> takes, gives |-> gives, effect |-> effect]
        BY <1>3, <1>6, <2>7, <4>2
      <4>4. ~CO!IsError(r) /\ r.steps = steps
        BY <4>3, ErrorsAre
      <4>5. PipelineRight(r)
        BY <2>1, <3>1, <3>2, <3>3, <3>5, <4>4 DEF PipelineRight
      <4>6. QED
        BY <1>1, <4>5
    <3>6. QED
      BY <3>4, <3>5
  <2>8. QED
    BY <2>4, <2>5, <2>6, <2>7
<1>7. QED
  BY <1>5, <1>6

\* The steps of a DAG are the nodes but the entry, each once, after what leads to it.
StepsAre(steps, nodes) ==
  /\ nodes \in Seq(CO!NodesOf) /\ Distinct(nodes)
  /\ \A n \in CO!NodesOf : Has(nodes, n) <=> graph.kind[n] # "entry"
  /\ \A i, j \in 1 .. Len(nodes) : nodes[j] \in CO!Reachable(nodes[i]) => i < j
  /\ DOMAIN steps = 1 .. Len(nodes) /\ \A k \in 1 .. Len(nodes) : steps[k].id = nodes[k]

\* A DAG.
DagRight(r) == ~CO!IsError(r) /\ ~CO!Cyclic /\ \E nodes : StepsAre(r.steps, nodes)

\* In a sorted graph what can be reached comes later.
LEMMA ReachedLater ==
  ASSUME CO!GraphAssumption(graph), NEW s \in Seq(CO!NodesOf), Distinct(s),
         \A n \in CO!NodesOf : Has(s, n),
         \A i, j \in 1 .. Len(s) : CO!Edge(s[i], s[j]) => i < j
  PROVE  \A i, j \in 1 .. Len(s) : s[j] \in CO!Reachable(s[i]) => i < j
<1>2. ASSUME NEW i \in 1 .. Len(s), NEW j \in 1 .. Len(s), s[j] \in CO!Reachable(s[i]) PROVE i < j
  <2>1. PICK C : C = {n \in CO!NodesOf : \E k \in 1 .. Len(s) : s[k] = n /\ i < k}
    OBVIOUS
  <2>2. \A n \in CO!NodesOf : \E k \in 1 .. Len(s) : s[k] = n
    BY DEF Has
  <2>3. ASSUME NEW a, NEW b, CO!Edge(a, b), a = s[i] \/ a \in C PROVE b \in C
    <3>1. a \in CO!NodesOf /\ b \in CO!NodesOf
      BY <2>3, EdgesAre
    <3>2. PICK k \in 1 .. Len(s) : s[k] = a /\ (k = i \/ i < k)
      BY <2>1, <2>3
    <3>3. PICK l \in 1 .. Len(s) : s[l] = b
      BY <2>2, <3>1
    <3>4. k < l
      BY <2>3, <3>2, <3>3
    <3>5. i < l
      BY <3>2, <3>3, <3>4, LenProperties
    <3>6. QED
      BY <2>1, <3>1, <3>3, <3>5
  <2>4. C \in SUBSET CO!NodesOf /\ CO!Closed(C) /\ \A b : CO!Edge(s[i], b) => b \in C
    BY <2>1, <2>3 DEF CO!Closed
  <2>5. s[j] \in C
    BY <1>2, <2>4, ReachableIs
  <2>6. QED
    BY <2>1, <2>5 DEF Distinct
<1>3. QED
  BY <1>2

\* What compile_dag returns is one of the two.
LEMMA CompiledDag ==
  ASSUME CO!GraphAssumption(graph), NEW order \in CO!SetToSeqs(CO!NodesOf), None \notin CO!Failures
  PROVE  ErrorRight(CO!CompileDag(order)) \/ DagRight(CO!CompileDag(order))
<1>1. PICK invalid, sorted, unknown, r :
        /\ invalid = CO!Validate(order) /\ sorted = CO!TopologicalSort(order) /\ r = CO!CompileDag(order)
        /\ unknown = CO!Manifests(CO!Filtered(sorted.nodes, {n \in CO!NodesOf : graph.kind[n] \notin CO!Routing}))
  OBVIOUS
<1>2. PICK T, inner : /\ T = {n \in CO!NodesOf : graph.kind[n] # "entry"}
                      /\ inner = CO!Filtered(sorted.nodes, {n \in CO!NodesOf : graph.kind[n] # "entry"})
  OBVIOUS
<1>3. r = IF invalid # None THEN CO!Error(invalid)
          ELSE IF CO!IsError(sorted) THEN sorted
          ELSE IF unknown # None THEN CO!Error(unknown)
          ELSE [steps |-> [k \in DOMAIN inner |-> CO!DagStep(inner[k])],
                takes |-> CO!DagTakes, gives |-> CO!DagGives]
  BY <1>1, <1>2 DEF CO!CompileDag
<1>4. \/ invalid \in {"MissingEntry", "MissingExit"}
      \/ invalid = "CycleDetected" /\ CO!Cyclic
      \/ invalid = None /\ ~CO!Cyclic
  BY <1>1, ValidateIs
<1>5. CASE invalid # None
  <2>1. r = CO!Error(invalid)
    BY <1>3, <1>5
  <2>2. CO!IsError(r) /\ r.error = invalid
    BY <2>1, ErrorsAre
  <2>3. ErrorRight(r)
    BY <1>4, <1>5, <2>2 DEF ErrorRight
  <2>4. QED
    BY <1>1, <2>3
<1>6. CASE invalid = None
  <2>1. ~CO!Cyclic
    BY <1>4, <1>6 DEF CO!Failures
  <2>2. PICK s \in Seq(CO!NodesOf) :
          /\ sorted = [nodes |-> s] /\ sorted.nodes = s /\ Distinct(s) /\ \A n \in CO!NodesOf : Has(s, n)
          /\ \A i, j \in 1 .. Len(s) : CO!Edge(s[i], s[j]) => i < j
    BY <1>1, <2>1, SortedIs
  <2>3. ~CO!IsError(sorted)
    BY <2>2, ErrorsAre
  <2>4. CASE unknown # None
    <3>1. unknown \in {"CommandNotFound", "SchemaHashMismatch"}
      BY <1>1, <2>4, ManifestsAre
    <3>2. CO!IsError(r) /\ r.error = unknown
      BY <1>3, <1>6, <2>3, <2>4, ErrorsAre
    <3>3. ErrorRight(r)
      BY <2>1, <3>1, <3>2 DEF ErrorRight
    <3>4. QED
      BY <1>1, <3>3
  <2>5. CASE unknown = None
    <3>1. r = [steps |-> [k \in DOMAIN inner |-> CO!DagStep(inner[k])],
               takes |-> CO!DagTakes, gives |-> CO!DagGives]
      BY <1>3, <1>6, <2>3, <2>5
    <3>2. ~CO!IsError(r) /\ r.steps = [k \in DOMAIN inner |-> CO!DagStep(inner[k])]
      BY <3>1, ErrorsAre
    <3>3. inner = CO!Filtered(s, T)
      BY <1>2, <2>2
    <3>4. IsFiltered(inner, CO!NodesOf, s, T)
      BY <3>3, FilteredIs
    <3>5. /\ inner \in Seq(CO!NodesOf) /\ \A x : Has(inner, x) <=> x \in T /\ Has(s, x)
          /\ \A j, k \in 1 .. Len(inner) : j < k =>
               \E a, b \in 1 .. Len(s) : a < b /\ inner[j] = s[a] /\ inner[k] = s[b]
      BY <3>4 DEF IsFiltered
    <3>6. \A n \in CO!NodesOf : Has(inner, n) <=> graph.kind[n] # "entry"
      BY <1>2, <2>2, <3>5
    <3>7. \A i, j \in 1 .. Len(s) : s[j] \in CO!Reachable(s[i]) => i < j
      BY <2>2, ReachedLater
    <3>8. ASSUME NEW j \in 1 .. Len(inner), NEW k \in 1 .. Len(inner), j < k
          PROVE  inner[j] # inner[k] /\ inner[j] \notin CO!Reachable(inner[k])
      <4>1. PICK a \in 1 .. Len(s), b \in 1 .. Len(s) : a < b /\ inner[j] = s[a] /\ inner[k] = s[b]
        BY <3>5, <3>8
      <4>2. a # b /\ ~(b < a)
        BY <4>1, LenProperties
      <4>3. QED
        BY <2>2, <3>7, <4>1, <4>2 DEF Distinct
    <3>9. \A j, k \in 1 .. Len(inner) : j = k \/ j < k \/ k < j
      BY <3>5, LenProperties
    <3>10. Distinct(inner)
      BY <3>8, <3>9 DEF Distinct
    <3>11. \A n \in CO!NodesOf : n \notin CO!Reachable(n)
      BY <2>1 DEF CO!Cyclic
    <3>12. \A i, j \in 1 .. Len(inner) : inner[j] \in CO!Reachable(inner[i]) => i < j
      BY <3>5, <3>8, <3>9, <3>11, ElementOfSeq
    <3>13. DOMAIN inner = 1 .. Len(inner)
      BY <3>5, LenProperties
    <3>14. \A k \in 1 .. Len(inner) : CO!DagStep(inner[k]).id = inner[k]
      BY DEF CO!DagStep
    <3>15. DOMAIN r.steps = 1 .. Len(inner) /\ \A k \in 1 .. Len(inner) : r.steps[k].id = inner[k]
      BY <3>2, <3>13, <3>14
    <3>16. StepsAre(r.steps, inner)
      BY <3>5, <3>6, <3>10, <3>12, <3>15 DEF StepsAre
    <3>17. QED
      BY <1>1, <2>1, <3>2, <3>16 DEF DagRight
  <2>6. QED
    BY <2>4, <2>5
<1>7. QED
  BY <1>5, <1>6

\* A chain of nodes is what is filtered out for it of all nodes in order.
LEMMA FilteredChain ==
  ASSUME NEW S, NEW nodes \in Seq(S), Distinct(nodes),
         \A i, j \in 1 .. Len(nodes) : nodes[j] \in CO!Reachable(nodes[i]) => i < j,
         NEW chain \in Seq(S), \A k \in 1 .. Len(chain) : Has(nodes, chain[k]),
         \A i, j \in 1 .. Len(chain) : i < j => chain[j] \in CO!Reachable(chain[i])
  PROVE  CO!Filtered(nodes, CO!ToSet(chain)) = chain
<1>1. PICK m \in Nat : m = Len(nodes) /\ nodes \in [1 .. m -> S]
  BY LenProperties
<1>2. PICK T : T = CO!ToSet(chain) /\ \A x : x \in T <=> Has(chain, x)
  <2>1. DOMAIN chain = 1 .. Len(chain)
    BY LenProperties
  <2>2. CO!ToSet(chain) = {chain[i] : i \in 1 .. Len(chain)}
    BY <2>1 DEF CO!ToSet
  <2>3. \A x : x \in CO!ToSet(chain) <=> Has(chain, x)
    BY <2>2 DEF Has
  <2>4. QED
    BY <2>3
<1>3. PICK u \in Seq(S) :
        /\ u = CO!Filtered(nodes, T)
        /\ \A x : Has(u, x) <=> x \in T /\ Has(nodes, x)
        /\ \A j, k \in 1 .. Len(u) : j < k => \E a, b \in 1 .. m : a < b /\ u[j] = nodes[a] /\ u[k] = nodes[b]
  <2>1. PICK u : u = CO!Filtered(nodes, T) /\ IsFiltered(u, S, nodes, T)
    BY FilteredIs
  <2>2. /\ u \in Seq(S)
        /\ \A x : Has(u, x) <=> x \in T /\ Has(nodes, x)
        /\ \A j, k \in 1 .. Len(u) : j < k =>
             \E a, b \in 1 .. Len(nodes) : a < b /\ u[j] = nodes[a] /\ u[k] = nodes[b]
    BY <2>1 DEF IsFiltered
  <2>3. \A j, k \in 1 .. Len(u) : j < k => \E a, b \in 1 .. m : a < b /\ u[j] = nodes[a] /\ u[k] = nodes[b]
    BY ONLY <1>1, <2>2
  <2>4. QED
    BY ONLY <2>1, <2>2, <2>3
<1>4. \A x : Has(u, x) <=> Has(chain, x)
  <2>1. \A x : Has(chain, x) => Has(nodes, x)
    BY DEF Has
  <2>2. QED
    BY <1>2, <1>3, <2>1
<1>5. PICK pos : pos = [n \in S |-> IF Has(nodes, n) THEN CHOOSE k \in 1 .. m : nodes[k] = n ELSE 0]
  OBVIOUS
<1>6. \A k \in 1 .. m : pos[nodes[k]] = k
  <2>1. ASSUME NEW k \in 1 .. m PROVE pos[nodes[k]] = k
    <3>1. PICK n \in S : n = nodes[k]
      BY <1>1
    <3>2. Has(nodes, n)
      BY <1>1, <3>1 DEF Has
    <3>3. pos[n] = CHOOSE i \in 1 .. m : nodes[i] = n
      BY <1>5, <3>2
    <3>4. pos[n] \in 1 .. m /\ nodes[pos[n]] = n
      BY <3>1, <3>3
    <3>5. QED
      BY <1>1, <3>1, <3>4 DEF Distinct
  <2>2. QED
    BY <2>1
<1>7. pos \in [S -> Nat]
  <2>1. ASSUME NEW n \in S PROVE pos[n] \in Nat
    <3>1. CASE Has(nodes, n)
      <4>1. PICK k \in 1 .. m : nodes[k] = n
        BY <1>1, <3>1 DEF Has
      <4>2. pos[n] = k
        BY <1>6, <4>1
      <4>3. QED
        BY <4>2
    <3>2. CASE ~Has(nodes, n)
      <4>1. pos[n] = 0
        BY <1>5, <3>2
      <4>2. QED
        BY <4>1
    <3>3. QED
      BY <3>1, <3>2
  <2>2. pos = [n \in S |-> pos[n]]
    BY <1>5
  <2>3. QED
    BY <2>1, <2>2
<1>8. \A j, k \in 1 .. Len(u) : j < k => pos[u[j]] < pos[u[k]]
  <2>1. ASSUME NEW j \in 1 .. Len(u), NEW k \in 1 .. Len(u), j < k PROVE pos[u[j]] < pos[u[k]]
    <3>1. PICK a \in 1 .. m, b \in 1 .. m : a < b /\ u[j] = nodes[a] /\ u[k] = nodes[b]
      BY <1>3, <2>1
    <3>2. QED
      BY <1>6, <3>1
  <2>2. QED
    BY <2>1
<1>9. \A j, k \in 1 .. Len(chain) : j < k => pos[chain[j]] < pos[chain[k]]
  <2>1. ASSUME NEW j \in 1 .. Len(chain), NEW k \in 1 .. Len(chain), j < k PROVE pos[chain[j]] < pos[chain[k]]
    <3>1. PICK a \in 1 .. m : nodes[a] = chain[j]
      BY <1>1 DEF Has
    <3>2. PICK b \in 1 .. m : nodes[b] = chain[k]
      BY <1>1 DEF Has
    <3>3. a < b
      BY <1>1, <2>1, <3>1, <3>2
    <3>4. QED
      BY <1>6, <3>1, <3>2, <3>3
  <2>2. QED
    BY <2>1
<1>10. u = chain
  BY <1>4, <1>7, <1>8, <1>9, SameOrder
<1>11. QED
  BY <1>2, <1>3, <1>10

\* What the two compilers returned.
ReturnedRight(r) == ErrorRight(r) \/ PipelineRight(r)
DagReturnedRight(r) == ErrorRight(r) \/ DagRight(r)

\* It is as it should be.
LEMMA ReturnedIsRight ==
  ASSUME CO!GraphAssumption(graph), ReturnedRight(linear), DagReturnedRight(dag)
  PROVE  CO!CyclesAreFound /\ CO!StepsFollowEdges /\ CO!ChainFits
<1>1. CO!CyclesAreFound
  BY DEF ReturnedRight, DagReturnedRight, ErrorRight, PipelineRight, DagRight, CO!CyclesAreFound
<1>2. ASSUME ~CO!IsError(dag) PROVE \E nodes : StepsAre(dag.steps, nodes)
  BY <1>2 DEF DagReturnedRight, ErrorRight, DagRight
<1>3. ASSUME ~CO!IsError(linear) PROVE PipelineRight(linear)
  BY <1>3 DEF ReturnedRight, ErrorRight
<1>4. CO!StepsFollowEdges
  <2>1. SUFFICES ASSUME ~CO!IsError(dag)
        PROVE  LET At(node) == {k \in DOMAIN dag.steps : dag.steps[k].id = node} IN
               /\ \A node \in CO!NodesOf :
                    CO!Cardinality(At(node)) = IF graph.kind[node] = "entry" THEN 0 ELSE 1
               /\ \A a, b \in CO!NodesOf : CO!Edge(a, b) => \A i \in At(a), j \in At(b) : i < j
    BY DEF CO!StepsFollowEdges
  <2>2. PICK nodes : StepsAre(dag.steps, nodes)
    BY <1>2, <2>1
  <2> DEFINE At(node) == {k \in DOMAIN dag.steps : dag.steps[k].id = node}
  <2>3. \A node, k : k \in At(node) <=> k \in 1 .. Len(nodes) /\ nodes[k] = node
    BY <2>2 DEF StepsAre
  <2> HIDE DEF At
  <2>4. ASSUME NEW node \in CO!NodesOf
        PROVE  CO!Cardinality(At(node)) = IF graph.kind[node] = "entry" THEN 0 ELSE 1
    <3>1. CASE graph.kind[node] = "entry"
      <4>1. At(node) = {}
        BY <2>2, <2>3, <3>1 DEF StepsAre, Has
      <4>2. QED
        BY <3>1, <4>1, FS_EmptySet, CountedAlike
    <3>2. CASE graph.kind[node] # "entry"
      <4>1. PICK k \in 1 .. Len(nodes) : nodes[k] = node
        BY <2>2, <3>2 DEF StepsAre, Has
      <4>2. At(node) = {k}
        BY <2>2, <2>3, <4>1 DEF StepsAre, Distinct
      <4>3. QED
        BY <3>2, <4>2, FS_Singleton, CountedAlike
    <3>3. QED
      BY <3>1, <3>2
  <2>5. ASSUME NEW a \in CO!NodesOf, NEW b \in CO!NodesOf, CO!Edge(a, b), NEW i \in At(a), NEW j \in At(b)
        PROVE  i < j
    <3>1. i \in 1 .. Len(nodes) /\ j \in 1 .. Len(nodes) /\ nodes[i] = a /\ nodes[j] = b
      BY <2>3
    <3>2. nodes[j] \in CO!Reachable(nodes[i])
      BY <2>5, <3>1, ReachableIs
    <3>3. QED
      BY <2>2, <3>1, <3>2 DEF StepsAre
  <2>6. QED
    BY <2>4, <2>5 DEF At
<1>5. CO!ChainFits
  <2>1. SUFFICES ASSUME ~CO!IsError(linear)
        PROVE  /\ \A k \in 1 .. Len(linear.steps) - 1 :
                    /\ CO!GivesOf(linear.steps[k])[1] = CO!TakesOf(linear.steps[k + 1])[1]
                    /\ CO!GivesOf(linear.steps[k])[2] = "many" => CO!TakesOf(linear.steps[k + 1])[2] = "many"
                    /\ linear.steps[k + 1] \in CO!Reachable(linear.steps[k])
               /\ ~CO!IsError(dag) =>
                    CO!Filtered([k \in DOMAIN dag.steps |-> dag.steps[k].id], CO!ToSet(linear.steps))
                      = linear.steps
    BY DEF CO!ChainFits
  <2>2. PICK steps \in Seq(CO!NodesOf) :
          /\ steps = linear.steps
          /\ \A i \in 1 .. Len(steps) : graph.kind[steps[i]] \notin CO!Routing /\ CO!Known(graph.kind[steps[i]])
          /\ \A i, j \in 1 .. Len(steps) : i < j => steps[j] \in CO!Reachable(steps[i])
          /\ \A k \in 2 .. Len(steps) :
               CO!Fits(CO!Builtin[graph.kind[steps[k - 1]]].gives, CO!Builtin[graph.kind[steps[k]]].takes)
    BY <1>3, <2>1 DEF PipelineRight
  <2>3. ASSUME NEW k \in 1 .. Len(steps) - 1
        PROVE  /\ CO!GivesOf(steps[k])[1] = CO!TakesOf(steps[k + 1])[1]
               /\ CO!GivesOf(steps[k])[2] = "many" => CO!TakesOf(steps[k + 1])[2] = "many"
               /\ steps[k + 1] \in CO!Reachable(steps[k])
    <3>1. /\ k \in 1 .. Len(steps) /\ k + 1 \in 1 .. Len(steps) /\ k + 1 \in 2 .. Len(steps)
          /\ k < k + 1 /\ k + 1 - 1 = k
      BY LenProperties
    <3>2. /\ CO!GivesOf(steps[k]) = CO!Builtin[graph.kind[steps[k]]].gives
          /\ CO!TakesOf(steps[k + 1]) = CO!Builtin[graph.kind[steps[k + 1]]].takes
      BY <2>2, <3>1 DEF CO!GivesOf, CO!TakesOf
    <3>3. CO!Fits(CO!GivesOf(steps[k]), CO!TakesOf(steps[k + 1]))
      <4>1. PICK l \in 2 .. Len(steps) : l = k + 1 /\ l - 1 = k
        BY <3>1
      <4>2. CO!Fits(CO!Builtin[graph.kind[steps[l - 1]]].gives, CO!Builtin[graph.kind[steps[l]]].takes)
        BY <2>2
      <4>3. QED
        BY <3>2, <4>1, <4>2
    <3>4. CO!TakesOf(steps[k + 1])[2] \in {"one", "many"}
      BY <2>2, <3>1, <3>2, BuiltinTakes
    <3>5. QED
      BY <2>2, <3>1, <3>3, <3>4 DEF CO!Fits
  <2>4. ASSUME ~CO!IsError(dag)
        PROVE  CO!Filtered([k \in DOMAIN dag.steps |-> dag.steps[k].id], CO!ToSet(steps)) = steps
    <3>1. PICK nodes : StepsAre(dag.steps, nodes)
      BY <1>2, <2>4
    <3>2. nodes \in Seq(CO!NodesOf) /\ Distinct(nodes)
          /\ \A i, j \in 1 .. Len(nodes) : nodes[j] \in CO!Reachable(nodes[i]) => i < j
      BY <3>1 DEF StepsAre
    <3>3. [k \in DOMAIN dag.steps |-> dag.steps[k].id] = nodes
      <4>1. [k \in DOMAIN dag.steps |-> dag.steps[k].id] = [k \in 1 .. Len(nodes) |-> nodes[k]]
        BY <3>1 DEF StepsAre
      <4>2. nodes = [k \in 1 .. Len(nodes) |-> nodes[k]]
        BY <3>2, LenProperties
      <4>3. QED
        BY <4>1, <4>2
    <3>4. \A k \in 1 .. Len(steps) : Has(nodes, steps[k])
      <4>1. \A k \in 1 .. Len(steps) : graph.kind[steps[k]] # "entry" /\ steps[k] \in CO!NodesOf
        BY <2>2, ElementOfSeq DEF CO!Routing
      <4>2. QED
        BY <3>1, <4>1 DEF StepsAre
    <3>5. CO!Filtered(nodes, CO!ToSet(steps)) = steps
      BY <2>2, <3>2, <3>4, FilteredChain
    <3>6. QED
      BY <3>3, <3>5
  <2>5. QED
    BY <2>2, <2>3, <2>4
<1>6. QED
  BY <1>1, <1>4, <1>5

\* What is asked of the graph is the same as long as the graph is.
LEMMA SameGraph ==
  ASSUME graph' = graph
  PROVE  /\ CO!NodesOf' = CO!NodesOf
         /\ \A a : CO!Reachable(a)' = CO!Reachable(a)
         /\ CO!Cyclic' <=> CO!Cyclic
<1>1. CO!NodesOf' = CO!NodesOf
  BY DEF CO!NodesOf
<1>2. \A a, b : CO!Edge(a, b)' <=> CO!Edge(a, b)
  BY DEF CO!Edge
<1>3. ASSUME NEW C PROVE CO!Closed(C)' <=> CO!Closed(C)
  BY <1>1, <1>2 DEF CO!Closed
<1>4. ASSUME NEW a PROVE CO!Reachable(a)' = CO!Reachable(a)
  BY <1>1, <1>2, <1>3, Zenon DEF CO!Reachable
<1>5. CO!Cyclic' <=> CO!Cyclic
  BY <1>1, <1>4, Zenon DEF CO!Cyclic
<1>6. QED
  BY <1>1, <1>4, <1>5

\* The compilers have returned nothing yet, or what is right.
CompileInv ==
  /\ graph \in Graphs
  /\ (linear = None /\ dag = None) \/ (ReturnedRight(linear) /\ DagReturnedRight(dag))

\* What they have returned stays right as long as the graph is the same.
LEMMA ReturnedStays ==
  ASSUME graph' = graph
  PROVE  /\ \A r : linear' = r /\ ReturnedRight(r) => ReturnedRight(linear)'
         /\ \A r : dag' = r /\ DagReturnedRight(r) => DagReturnedRight(dag)'
<1>1. /\ CO!NodesOf' = CO!NodesOf
      /\ \A a : CO!Reachable(a)' = CO!Reachable(a)
      /\ CO!Cyclic' <=> CO!Cyclic
  BY SameGraph
<1>2. ASSUME NEW r, linear' = r, ReturnedRight(r) PROVE ReturnedRight(linear)'
  <2>1. CASE ErrorRight(r)
    <3>1. ErrorRight(linear)'
      BY <1>1, <1>2, <2>1 DEF ErrorRight, CO!IsError
    <3>2. QED
      BY <3>1 DEF ReturnedRight
  <2>2. CASE PipelineRight(r)
    <3>1. PipelineRight(linear)'
      BY <1>1, <1>2, <2>2 DEF PipelineRight, CO!IsError, CO!Known, CO!Fits
    <3>2. QED
      BY <3>1 DEF ReturnedRight
  <2>3. QED
    BY <1>2, <2>1, <2>2 DEF ReturnedRight
<1>3. ASSUME NEW r, dag' = r, DagReturnedRight(r) PROVE DagReturnedRight(dag)'
  <2>1. CASE ErrorRight(r)
    <3>1. ErrorRight(dag)'
      BY <1>1, <1>3, <2>1 DEF ErrorRight, CO!IsError
    <3>2. QED
      BY <3>1 DEF DagReturnedRight
  <2>2. CASE DagRight(r)
    <3>1. DagRight(dag)'
      BY <1>1, <1>3, <2>2 DEF DagRight, CO!IsError, StepsAre, Distinct, Has
    <3>2. QED
      BY <3>1 DEF DagReturnedRight
  <2>3. QED
    BY <1>3, <2>1, <2>2 DEF DagReturnedRight
<1>4. QED
  BY <1>2, <1>3

\* Both compilers find the cycles, a DAG has every node after those before it, and the steps of
\* a linear pipeline fit together as those of its DAG do (compiler.rs, graph.rs), for every
\* graph and every order of its nodes.
THEOREM CompileIsRight ==
  ASSUME CO!CompileAssumption
  PROVE  CO!CompileSpec => [](CO!CyclesAreFound /\ CO!StepsFollowEdges /\ CO!ChainFits)
<1>1. CO!CompileInit => CompileInv
  BY DEF CO!CompileInit, CompileInv
<1>2. CompileInv /\ [CO!CompileGraph]_(CO!compileVars) => CompileInv'
  <2>1. SUFFICES ASSUME CompileInv, [CO!CompileGraph]_(CO!compileVars) PROVE CompileInv'
    OBVIOUS
  <2>2. graph' = graph
    BY <2>1 DEF CO!CompileGraph, CO!compileVars
  <2>3. CO!GraphAssumption(graph) /\ None \notin CO!Failures
    BY <2>1 DEF CompileInv, CO!CompileAssumption
  <2>4. CASE CO!CompileGraph
    <3>1. PICK order \in CO!SetToSeqs(CO!NodesOf) :
            linear' = CO!CompileLinear(order) /\ dag' = CO!CompileDag(order)
      BY <2>4 DEF CO!CompileGraph
    <3>2. ReturnedRight(CO!CompileLinear(order)) /\ DagReturnedRight(CO!CompileDag(order))
      BY <2>3, CompiledLinear, CompiledDag DEF ReturnedRight, DagReturnedRight
    <3>3. ReturnedRight(linear)' /\ DagReturnedRight(dag)'
      BY <2>2, <3>1, <3>2, ReturnedStays
    <3>4. QED
      BY <2>1, <2>2, <3>3 DEF CompileInv
  <2>5. CASE UNCHANGED CO!compileVars
    <3>1. linear' = linear /\ dag' = dag
      BY <2>5 DEF CO!compileVars
    <3>2. CASE linear = None /\ dag = None
      BY <2>1, <2>2, <3>1, <3>2 DEF CompileInv
    <3>3. CASE ReturnedRight(linear) /\ DagReturnedRight(dag)
      <4>1. ReturnedRight(linear)' /\ DagReturnedRight(dag)'
        BY <2>2, <3>1, <3>3, ReturnedStays
      <4>2. QED
        BY <2>1, <2>2, <4>1 DEF CompileInv
    <3>4. QED
      BY <2>1, <3>2, <3>3 DEF CompileInv
  <2>6. QED
    BY <2>1, <2>4, <2>5
<1>3. CompileInv => CO!CyclesAreFound /\ CO!StepsFollowEdges /\ CO!ChainFits
  <2>1. SUFFICES ASSUME CompileInv PROVE CO!CyclesAreFound /\ CO!StepsFollowEdges /\ CO!ChainFits
    OBVIOUS
  <2>2. CASE linear = None /\ dag = None
    BY <2>2 DEF CO!CyclesAreFound, CO!StepsFollowEdges, CO!ChainFits
  <2>3. CASE ReturnedRight(linear) /\ DagReturnedRight(dag)
    BY <2>1, <2>3, ReturnedIsRight DEF CompileInv, CO!CompileAssumption
  <2>4. QED
    BY <2>1, <2>2, <2>3 DEF CompileInv
<1>4. QED
  BY <1>1, <1>2, <1>3, PTL DEF CO!CompileSpec

==============================================================================
