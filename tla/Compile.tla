-------------------------------- MODULE Compile --------------------------------
(***************************************************************************)
(* Graphs of pipeline nodes (crates/seaki-pipeline/src/graph.rs), their    *)
(* compilation to a linear pipeline and to a DAG (compiler.rs), and the    *)
(* type check of a linear pipeline (crates/seaki-pipe/src/ast.rs) against  *)
(* the built-in commands (registry.rs).                                    *)
(*                                                                         *)
(* A graph is [kind, edges, entry, exits]: the kind of a node is the id of *)
(* its command or one of "entry", "exit", "tee", "branch", "join"; edges   *)
(* and exits are sequences, in the order they were added.                  *)
(***************************************************************************)
EXTENDS Naturals, Sequences, FiniteSets, SequencesExt

CONSTANTS
  Graphs,     \* the graphs considered
  BadHash,    \* commands whose manifest does not match its schema hash
  None

VARIABLES
  graph,      \* the graph compiled
  linear,     \* what compile returned, None before
  dag         \* what compile_dag returned, None before

compileVars == <<graph, linear, dag>>

\* What the proofs in CompileProofs need, add_edge and add_exit ensure.
GraphAssumption(g) ==
  /\ IsFiniteSet(DOMAIN g.kind)
  /\ g.edges \in Seq((DOMAIN g.kind) \X (DOMAIN g.kind))
  /\ g.exits \in Seq(DOMAIN g.kind)

------------------------------------------------------------------------------
(* The built-in commands *)

Builtin == [
  search    |-> [takes |-> <<"json", "one">>,   gives |-> <<"paragraph", "many">>, effect |-> 0],
  resolve   |-> [takes |-> <<"paragraph", "many">>, gives |-> <<"cited", "many">>, effect |-> 0],
  summarize |-> [takes |-> <<"cited", "many">>, gives |-> <<"answer", "one">>,     effect |-> 0],
  filter    |-> [takes |-> <<"json", "many">>,  gives |-> <<"json", "many">>,      effect |-> 0],
  map       |-> [takes |-> <<"json", "many">>,  gives |-> <<"json", "many">>,      effect |-> 0],
  propose   |-> [takes |-> <<"cited", "many">>, gives |-> <<"patch", "one">>,      effect |-> 1]]

Routing == {"entry", "exit", "tee", "branch", "join"}
JsonOne == <<"json", "one">>

Known(command) == command \in DOMAIN Builtin

\* What compilation may fail with; None when it does not.
Failures ==
  {"MissingEntry", "MissingExit", "CycleDetected", "NotLinearGraph", "EmptyPipeline",
   "CommandNotFound", "SchemaHashMismatch", "TypeMismatch or CardinalityConflict"}

Error(why) == [error |-> why]
IsError(r) == "error" \in DOMAIN r

------------------------------------------------------------------------------
(* PipelineGraph *)

NodesOf == DOMAIN graph.kind

\* Iterator::filter: the elements that are in T.
Filtered(s, T) ==
  LET upTo[n \in 0 .. Len(s)] ==
        IF n = 0 THEN <<>>
        ELSE IF s[n] \in T THEN Append(upTo[n - 1], s[n]) ELSE upTo[n - 1]
  IN upTo[Len(s)]

\* The ends of the edges that leave a node, in the order they were added.
Outgoing(node) ==
  LET out == Filtered(graph.edges, {node} \X NodesOf) IN [k \in DOMAIN out |-> out[k][2]]
Incoming(node) ==
  LET into == Filtered(graph.edges, NodesOf \X {node}) IN [k \in DOMAIN into |-> into[k][1]]

\* Mutant: a node that was visited before counts as one on the way to it.
OnTheWayIfVisited(node, search) == node \in search.visited

OnTheWay(node, search) == node \in search.stack

\* What a search knows: what was visited, what is on the stack, and where on the stack
\* an edge led back to.
Searches == [visited : SUBSET NodesOf, stack : SUBSET NodesOf, back : SUBSET NodesOf]

\* dfs of one node, where `deeper` is dfs of the next ones.
Visit(deeper, node, search) ==
  LET out == Outgoing(node)
      after[k \in 0 .. Len(out)] ==
        IF k = 0 THEN [search EXCEPT !.visited = @ \cup {node}, !.stack = @ \cup {node}]
        ELSE LET s == after[k - 1] IN
             IF s.back # {} THEN s
             ELSE IF out[k] \notin s.visited THEN deeper[out[k]][s]
             ELSE [s EXCEPT !.back = {n \in {out[k]} : OnTheWay(n, s)}]
  IN [after[Len(out)] EXCEPT !.stack = @ \ {node}]

\* dfs, so deep: it is never deeper than there are nodes.
Dfs[depth \in 0 .. Cardinality(NodesOf)] ==
  [node \in NodesOf |-> [search \in Searches |->
     IF depth = 0 THEN search ELSE Visit(Dfs[depth - 1], node, search)]]

\* The keys of a HashMap come in any order; `order` is one.
HasCycle(order) ==
  LET after[k \in 0 .. Len(order)] ==
        IF k = 0 THEN [visited |-> {}, stack |-> {}, back |-> {}]
        ELSE LET s == after[k - 1] IN
             IF s.back # {} \/ order[k] \in s.visited THEN s
             ELSE Dfs[Cardinality(NodesOf)][order[k]][s]
  IN after[Len(order)].back # {}

\* validate: an error, or None.
Validate(order) ==
  IF graph.entry \notin NodesOf \/ graph.kind[graph.entry] # "entry" THEN "MissingEntry"
  ELSE IF graph.exits = <<>> \/ \E k \in DOMAIN graph.exits : graph.kind[graph.exits[k]] # "exit"
    THEN "MissingExit"
  ELSE IF HasCycle(order) THEN "CycleDetected"
  ELSE None

\* A walk that has come to a node, with the commands on its way: one step on.  Only
\* the edges that leave the node are looked at.
WalkOn(walk) ==
  IF IsError(walk) \/ walk.at = graph.exits[1] THEN walk
  ELSE IF graph.kind[walk.at] \in {"tee", "branch", "join"} \/ Len(Outgoing(walk.at)) # 1
    THEN Error("NotLinearGraph")
  ELSE [at |-> Outgoing(walk.at)[1],
        nodes |-> IF graph.kind[walk.at] \in Routing THEN walk.nodes
                  ELSE Append(walk.nodes, walk.at)]

\* to_linear_ast: from the entry to the first exit, past each node once at most.
ToLinearAst ==
  LET after[k \in 0 .. Cardinality(NodesOf)] ==
        IF k = 0 THEN [at |-> graph.entry, nodes |-> <<>>] ELSE WalkOn(after[k - 1])
  IN after[Cardinality(NodesOf)]

------------------------------------------------------------------------------
(* Linear pipelines *)

\* Mutant: cardinalities are not compared.
FitsByFrame(found, expected) == found[1] = expected[1]

\* Whether what is found may be fed to a step: Many cannot feed One.
Fits(found, expected) ==
  found[1] = expected[1] /\ ~(found[2] = "many" /\ expected[2] = "one")

\* compose, of the steps that to_linear_ast makes: the first takes a constant, the
\* others what the step before gives.
Compose(steps) ==
  LET Takes(k) == Builtin[graph.kind[steps[k]]].takes
      Gives(k) == Builtin[graph.kind[steps[k]]].gives
  IN IF \E k \in 2 .. Len(steps) : ~Fits(Gives(k - 1), Takes(k))
     THEN Error("TypeMismatch or CardinalityConflict")
     ELSE [steps |-> steps, takes |-> Takes(1), gives |-> Gives(Len(steps))]

\* The manifests of some commands, in their order, are known and their hashes right;
\* the first that is not is reported.
Manifests(steps) ==
  LET Bad == {k \in DOMAIN steps : ~Known(graph.kind[steps[k]]) \/ graph.kind[steps[k]] \in BadHash}
      first == CHOOSE k \in Bad : \A j \in Bad : k <= j
  IN IF Bad = {} THEN None
     ELSE IF ~Known(graph.kind[steps[first]]) THEN "CommandNotFound" ELSE "SchemaHashMismatch"

\* compile.
CompileLinear(order) ==
  LET invalid == Validate(order)
      walk == ToLinearAst
      steps == walk.nodes
      unknown == Manifests(steps)
  IN IF invalid # None THEN Error(invalid)
     ELSE IF IsError(walk) THEN walk
     ELSE IF steps = <<>> THEN Error("EmptyPipeline")
     ELSE IF unknown # None THEN Error(unknown)
     ELSE LET composed == Compose(steps) IN
          IF IsError(composed) THEN composed
          ELSE [steps |-> steps, takes |-> composed.takes, gives |-> composed.gives,
                effect |-> IF \E n \in ToSet(steps) : Builtin[graph.kind[n]].effect = 1
                           THEN 1 ELSE 0]

------------------------------------------------------------------------------
(* DAG pipelines *)

\* Mutant: a node is queued as soon as one of its predecessors is done.
FreedAtOnce(e, done) == graph.edges[e][2] \notin done

\* The count of edges into the end of edge e comes down to zero with it, when those
\* from done nodes and the earlier ones from its beginning are gone.
Freed(e, done) ==
  \A k \in DOMAIN graph.edges :
    graph.edges[k][2] = graph.edges[e][2] =>
      graph.edges[k][1] \in done \/ (graph.edges[k][1] = graph.edges[e][1] /\ k <= e)

\* The last of the queue is done, and what it frees is queued.
Popped(sort) ==
  LET node == Last(sort.queue)
      queue[e \in 0 .. Len(graph.edges)] ==
        IF e = 0 THEN Front(sort.queue)
        ELSE IF graph.edges[e][1] = node /\ Freed(e, ToSet(sort.result))
          THEN Append(queue[e - 1], graph.edges[e][2])
        ELSE queue[e - 1]
  IN [queue |-> queue[Len(graph.edges)], result |-> Append(sort.result, node)]

\* topological_sort: the queue is a stack, first the nodes without predecessor, in
\* the order of a HashMap.  A node is popped once, so there is a round for each.
TopologicalSort(order) ==
  LET after[k \in 0 .. Cardinality(NodesOf)] ==
        IF k = 0 THEN [queue |-> Filtered(order, {n \in NodesOf : Incoming(n) = <<>>}),
                       result |-> <<>>]
        ELSE IF after[k - 1].queue = <<>> THEN after[k - 1] ELSE Popped(after[k - 1])
      sorted == after[Cardinality(NodesOf)].result
  IN IF Len(sorted) # Cardinality(NodesOf) THEN Error("CycleDetected")
     ELSE [nodes |-> sorted]

TakesOf(node) ==
  IF graph.kind[node] \in Routing THEN JsonOne ELSE Builtin[graph.kind[node]].takes
GivesOf(node) ==
  IF graph.kind[node] \in Routing THEN JsonOne ELSE Builtin[graph.kind[node]].gives

DagStep(node) ==
  [id |-> node, kind |-> graph.kind[node], takes |-> TakesOf(node), gives |-> GivesOf(node),
   predecessors |-> Incoming(node), successors |-> Outgoing(node)]

\* The ends of the pipeline, from the first edge that leaves the entry and the
\* first that reaches an exit.
DagTakes == IF Outgoing(graph.entry) = <<>> THEN JsonOne ELSE TakesOf(Outgoing(graph.entry)[1])
DagGives ==
  LET last == Filtered(graph.edges, NodesOf \X ToSet(graph.exits))
  IN IF last = <<>> THEN JsonOne ELSE GivesOf(last[1][1])

\* compile_dag.
CompileDag(order) ==
  LET invalid == Validate(order)
      sorted == TopologicalSort(order)
      unknown == Manifests(Filtered(sorted.nodes, {n \in NodesOf : graph.kind[n] \notin Routing}))
  IN IF invalid # None THEN Error(invalid)
     ELSE IF IsError(sorted) THEN sorted
     ELSE IF unknown # None THEN Error(unknown)
     ELSE LET inner == Filtered(sorted.nodes, {n \in NodesOf : graph.kind[n] # "entry"}) IN
          [steps |-> [k \in DOMAIN inner |-> DagStep(inner[k])],
           takes |-> DagTakes, gives |-> DagGives]

------------------------------------------------------------------------------

CompileAssumption ==
  None \notin Failures /\ \A g \in Graphs : GraphAssumption(g)

CompileInit == graph \in Graphs /\ linear = None /\ dag = None

\* The two compilers on one graph, whose nodes come in any order.
CompileGraph ==
  /\ linear = None
  /\ \E order \in SetToSeqs(NodesOf) :
       /\ linear' = CompileLinear(order)
       /\ dag' = CompileDag(order)
  /\ UNCHANGED graph

CompileSpec == CompileInit /\ [][CompileGraph]_compileVars

------------------------------------------------------------------------------
(* What is asked of them *)

Edge(from, to) == \E k \in DOMAIN graph.edges : graph.edges[k] = <<from, to>>

\* No edge leaves a set of nodes.
Closed(C) == \A a \in C, b \in NodesOf : Edge(a, b) => b \in C

\* Where edges lead to from a node, in one step or more: into every closed set that
\* has its successors.
Reachable(node) ==
  {b \in NodesOf : \A C \in SUBSET NodesOf :
     (Closed(C) /\ \A a \in NodesOf : Edge(node, a) => a \in C) => b \in C}
Cyclic == \E node \in NodesOf : node \in Reachable(node)

\* Both compilers refuse a graph as cyclic exactly when it has a cycle, whatever
\* the order in which a HashMap gave them its nodes.
CyclesAreFound ==
  dag # None =>
    \A r \in {linear, dag} :
      (IsError(r) /\ r.error = "CycleDetected") <=>
        (Cyclic /\ ~(IsError(r) /\ r.error \in {"MissingEntry", "MissingExit"}))

\* Every node but the entry is one step of a compiled DAG, after its predecessors.
StepsFollowEdges ==
  (dag # None /\ ~IsError(dag)) =>
    LET At(node) == {k \in DOMAIN dag.steps : dag.steps[k].id = node} IN
    /\ \A node \in NodesOf :
         Cardinality(At(node)) = IF graph.kind[node] = "entry" THEN 0 ELSE 1
    /\ \A a, b \in NodesOf : Edge(a, b) => \A i \in At(a), j \in At(b) : i < j

\* Every step of a compiled linear pipeline can take what the step before gives,
\* the steps are commands one after the other along edges, and the DAG of the same
\* graph has them in the same order.
ChainFits ==
  (linear # None /\ ~IsError(linear)) =>
    /\ \A k \in 1 .. Len(linear.steps) - 1 :
         LET gives == GivesOf(linear.steps[k])
             takes == TakesOf(linear.steps[k + 1])
         IN /\ gives[1] = takes[1]
            /\ gives[2] = "many" => takes[2] = "many"
            /\ linear.steps[k + 1] \in Reachable(linear.steps[k])
    /\ ~IsError(dag) =>
         LET ids == [k \in DOMAIN dag.steps |-> dag.steps[k].id]
         IN Filtered(ids, ToSet(linear.steps)) = linear.steps

\* Source documentation: to_linear_ast "Returns `GraphError` if the graph is not a
\* linear chain".  Violated: edges into the chain are never looked at, so a command
\* that feeds a step of it, or stands alone, is dropped without an error.
OnlyChains ==
  (linear # None /\ ~IsError(linear)) =>
    {n \in NodesOf : graph.kind[n] \notin Routing} = ToSet(linear.steps)

=============================================================================
