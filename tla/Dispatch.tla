------------------------------- MODULE Dispatch -------------------------------
(***************************************************************************)
(* From an intent to a pipeline (crates/seaki-agent/src/skill.rs and       *)
(* dispatch.rs): skills are registered, the intent is matched against      *)
(* their patterns, the best skill is admitted and its template rendered.   *)
(* A text is a sequence of letters, <<"a">>, and of markers of variables,  *)
(* <<"intent">>; a word is one without markers.                            *)
(***************************************************************************)
EXTENDS Naturals, Sequences, FiniteSets, SequencesExt, FiniteSetsExt

CONSTANTS
  Offers,     \* the lists of skills offered for registration, each a record
              \* [id, patterns, priority, needs, commands, template]
  Intents,    \* what a user may say
  Contexts,   \* what is injected: functions from markers to texts
  Granted,    \* the capabilities and scopes the actor has
  Commands,   \* the commands of the pipe registry
  Distance,   \* how many edits a pattern may be away (2)
  None

VARIABLES offered, skills, intent, context, result

dispatchVars == <<offered, skills, intent, context, result>>

IntentMarker == <<"intent">>

\* A letter that no text uses, of templates and of what is put into them.
Hole == <<"hole">>
PlainTexts == Seq(Seq(STRING) \ {Hole})

\* SkillManifest
Skill ==
  [id : STRING, patterns : SUBSET Seq(Seq(STRING)), priority : Nat, needs : SUBSET STRING,
   commands : SUBSET STRING, template : PlainTexts]

\* What the proofs in AssistantProofs need: what is said may have any letter.
DispatchAssumption ==
  /\ Distance \in Nat
  /\ Offers \subseteq Seq(Skill) /\ Intents \subseteq Seq(Seq(STRING))
  /\ Contexts \subseteq [{<<"memory">>, <<"wiki">>, <<"summary">>} -> PlainTexts]

------------------------------------------------------------------------------
(* Matching *)

Within(word, pattern) ==
  \E from \in 0 .. Len(word) - Len(pattern) : SubSeq(word, from + 1, from + Len(pattern)) = pattern

Smallest(a, b) == IF a <= b THEN a ELSE b

\* Mutant: a row is given up as soon as it reaches the distance.
HopelessEarly(row) == \A j \in DOMAIN row : row[j] >= Distance

\* The row has no entry within the distance.
Hopeless(row) == \A j \in DOMAIN row : row[j] > Distance

\* One row after the other: the distances from the first i letters of a to the first
\* j of b, which each step takes from its left, from above, or across.
Row(prev, i, a, b) ==
  LET row[j \in 0 .. Len(b)] ==
        IF j = 0 THEN i
        ELSE Smallest(Smallest(prev[j] + 1, row[j - 1] + 1),
                      prev[j - 1] + (IF a[i] = b[j] THEN 0 ELSE 1))
  IN row

\* levenshtein_within: no when the lengths differ by more, or some row is hopeless.
LevenshteinWithin(a, b) ==
  LET Far == Len(a) > Len(b) + Distance \/ Len(b) > Len(a) + Distance
      rows[i \in 0 .. Len(a)] ==
        IF i = 0 THEN [j \in 0 .. Len(b) |-> j] ELSE Row(rows[i - 1], i, a, b)
  IN ~Far /\ (\A i \in 1 .. Len(a) : ~Hopeless(rows[i])) /\ rows[Len(a)][Len(b)] <= Distance

\* match_intent: 10 for a pattern within the intent, 8 for a pattern that is close.
Score(skill, words) ==
  LET Of(p) == IF Within(words, p) THEN 10 ELSE IF LevenshteinWithin(words, p) THEN 8 ELSE 0
  IN Max({Of(p) : p \in skill.patterns})

\* The matches that sort first; one of several when score and priority are the same,
\* for the registry is a hash map.
BestMatches(words) ==
  LET Matching == {s \in skills : Score(s, words) > 0}
  IN {s \in Matching : \A t \in Matching :
        \/ Score(s, words) > Score(t, words)
        \/ Score(s, words) = Score(t, words) /\ s.priority <= t.priority}

------------------------------------------------------------------------------
(* Rendering *)

\* String::replace
Replaced(text, marker, by) ==
  LET upTo[n \in 0 .. Len(text)] ==
        IF n = 0 THEN <<>>
        ELSE upTo[n - 1] \o (IF text[n] = marker THEN by ELSE <<text[n]>>)
  IN upTo[Len(text)]

\* What is left of the syntax of templates is made harmless.
Escaped(text) ==
  [i \in DOMAIN text |-> IF text[i] \in {<<n>> : n \in {"intent", "memory", "wiki", "summary"}}
                           THEN <<"escaped", text[i]>> ELSE text[i]]

\* The memory items, then the wiki claims, then the summary.
Filled(text, ctx) ==
  LET With(t, marker) == Replaced(t, marker, ctx[marker])
  IN With(With(With(text, <<"memory">>), <<"wiki">>), <<"summary">>)

\* Mutant: the intent comes first.
RenderIntentFirst(template, words, ctx) ==
  Escaped(Filled(Replaced(template, IntentMarker, words), ctx))

\* substitute_vars: the intent comes last.
Render(template, words, ctx) ==
  Escaped(Replaced(Filled(template, ctx), IntentMarker, words))

------------------------------------------------------------------------------

DispatchInit ==
  /\ offered \in Offers /\ skills = {}
  /\ intent \in Intents /\ context \in Contexts
  /\ result = None

\* SkillRegistry::register: an id twice, no patterns or a blank command is an error.
Registrable(s) ==
  /\ \A t \in skills : t.id # s.id
  /\ s.patterns # {} /\ "" \notin s.commands

Register ==
  /\ offered # <<>> /\ offered' = Tail(offered)
  /\ skills' = IF Registrable(Head(offered)) THEN skills \cup {Head(offered)} ELSE skills
  /\ UNCHANGED <<intent, context, result>>

\* SkillAdmission::check
Admitted(s) == s.needs \subseteq Granted

Refused(why, s) == [kind |-> why, skill |-> s, text |-> <<>>]

\* render_pipeline: every command is looked up before the first step is rendered.
RenderPipeline(s) ==
  IF s.commands \subseteq Commands
  THEN [kind |-> "dispatched", skill |-> s, text |-> Render(s.template, intent, context)]
  ELSE Refused("CommandNotFound", s)

\* dispatch: there is no second choice when the best match is refused.
DispatchIntent ==
  /\ offered = <<>> /\ result = None
  /\ LET Best == BestMatches(intent)
     IN IF Best = {} THEN result' = Refused("NoMatchingSkill", None)
        ELSE \E s \in Best :
               result' = IF Admitted(s) THEN RenderPipeline(s)
                         ELSE Refused("SkillNotAllowed", s)
  /\ UNCHANGED <<offered, skills, intent, context>>

DispatchNext == Register \/ DispatchIntent

DispatchSpec == DispatchInit /\ [][DispatchNext]_dispatchVars

------------------------------------------------------------------------------
(* What is asked of it *)

Letters == (UNION {UNION {ToSet(p) : p \in s.patterns} : s \in skills}) \cup ToSet(intent)

\* The words one edit away, themselves included.
Edited(w) ==
  {w} \cup {RemoveAt(w, i) : i \in DOMAIN w}
      \cup {ReplaceAt(w, i, x) : i \in DOMAIN w, x \in Letters}
      \cup {InsertAt(w, i, x) : i \in 1 .. Len(w) + 1, x \in Letters}

\* A pattern is called close exactly when so many edits lead from the intent to it, and
\* a skill that is dispatched is one that the actor has every capability for.
MatchIsClosest ==
  LET near[n \in 0 .. Distance] ==
        IF n = 0 THEN {intent} ELSE UNION {Edited(w) : w \in near[n - 1]}
  IN /\ \A s \in skills : \A p \in s.patterns :
          LevenshteinWithin(intent, p) <=> p \in near[Distance]
     /\ (result # None /\ result.kind = "dispatched") => result.skill.needs \subseteq Granted

\* What the user says is opaque: whatever it contains, the rendered text is that of any
\* other intent with this one, escaped, in its place; no variable in it is looked up.
IntentIsOpaque ==
  (result # None /\ result.kind = "dispatched") =>
    result.text = Replaced(Render(result.skill.template, <<Hole>>, context), Hole,
                           Escaped(intent))

=============================================================================
