----------------------------- MODULE MCAssistant -----------------------------
(* Small instances of the five services of Assistant for TLC. *)
EXTENDS Assistant, SequencesExt, FiniteSetsExt

------------------------------------------------------------------------------
(* Dispatch: two skills, the first with any pattern of up to three letters, or *)
(* four of which some cannot be registered; intents that hold markers; contexts *)
(* that do.                                                                     *)

Word(n) == [1 .. n -> {<<"a">>, <<"b">>}]
Words == UNION {Word(n) : n \in 0 .. 3}
Templates == {<<<<"memory">>, <<"intent">>>>, <<<<"intent">>, <<"summary">>, <<"wiki">>>>}
Skill(id, patterns, priority, needs, command, template) ==
  [id |-> id, patterns |-> patterns, priority |-> priority, needs |-> needs,
   commands |-> {command}, template |-> template]

Pairs ==
  {<<Skill("s", {p}, 1, {"x"}, "f", t), Skill("t", {q}, 2, {"x", "y"}, "f", t)>> :
     p \in Words, q \in {<<<<"a">>, <<"b">>, <<"a">>, <<"b">>>>, <<<<"b">>>>}, t \in Templates}
Refusable ==
  {<<Skill("s", {p}, 1, {"x"}, "f", <<>>), Skill(id, {}, 2, {}, "f", <<>>),
     Skill("s", {p}, 2, {}, "f", <<>>), Skill("u", {p}, 1, {"y"}, c, <<>>)>> :
     p \in Words, id \in {"t", "s"}, c \in {"g", ""}}

MCOffers == Pairs \cup Refusable
MCIntents == Words \cup {<<<<"a">>, <<"memory">>>>, <<<<"intent">>, <<"wiki">>>>}
MCContexts == {[x \in {<<"memory">>, <<"wiki">>, <<"summary">>} |->
                  IF x = <<"memory">> THEN <<<<"c">>, <<"wiki">>>>
                  ELSE IF x = <<"wiki">> THEN <<<<"d">>>> ELSE <<<<"intent">>>>]}

------------------------------------------------------------------------------
(* Compilers: four nodes, all sets of up to four edges between them, all sets *)
(* of three with every edge added twice, and a chain without a proper end.    *)

Nodes == {"e", "a", "b", "x"}
Kinds == {[e |-> "entry", x |-> "exit", a |-> k[1], b |-> k[2]] :
            k \in {<<"search", "resolve">>, <<"search", "filter">>, <<"tee", "propose">>, <<"map", "search">>}}

Graph(k, edges) == [kind |-> k, edges |-> edges, entry |-> "e", exits |-> <<"x">>]
Chain == <<<<"e", "a">>, <<"a", "b">>, <<"b", "x">>>>
MCGraphs ==
  {Graph(k, SetToSeq(es)) : k \in Kinds, es \in UNION {kSubset(n, Nodes \X Nodes) : n \in 0 .. 4}}
    \cup {Graph(k, SetToSeq(es) \o SetToSeq(es)) : k \in Kinds, es \in kSubset(3, Nodes \X Nodes)}
    \cup {[Graph(k, Chain) EXCEPT !.entry = n] : k \in Kinds, n \in {"a", "__dummy"}}
    \cup {[Graph(k, Chain) EXCEPT !.exits = s] : k \in Kinds, s \in {<<>>, <<"x", "b">>}}

------------------------------------------------------------------------------
(* Intents: pipelines of up to three steps with every kind of binding, among *)
(* them one to a step that comes later.                                      *)

Step(id, binding) == [id |-> id, binding |-> binding]

MCPipelines ==
  {<<Step("a", "constant"), Step("b", "previous"), Step("c", "a")>>,
   <<Step("a", "constant"), Step("b", "a"), Step("c", "previous")>>,
   <<Step("a", "constant"), Step("b", "constant"), Step("c", "b")>>,
   <<Step("a", "previous")>>, <<Step("a", "b"), Step("b", "constant")>>}

------------------------------------------------------------------------------
(* Answers: every text of up to four brackets and digits, with no result, one *)
(* and twelve.                                                                *)

Marks == {<<"[">>, <<"]">>, <<"digit", 0>>, <<"digit", 1>>, <<"digit", 2>>}
MCTexts == UNION {[1 .. n -> Marks] : n \in 0 .. 4}

=============================================================================
