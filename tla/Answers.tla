------------------------------- MODULE Answers -------------------------------
(***************************************************************************)
(* An answer with citations (crates/seaki-agent/src/compose.rs): the text  *)
(* a language model gives is scanned for markers [N], which name the       *)
(* search results from 1.  Brackets, digits and everything else.           *)
(***************************************************************************)
EXTENDS Naturals, Sequences, SequencesExt, Functions

CONSTANTS
  Texts,    \* what the model may say: sequences of <<"[">>, <<"]">>, <<"digit", d>>, ...
  Sizes,    \* how many search results there may be
  None

\* What the proofs in AssistantProofs need.
AnswersAssumption == (\A t \in Texts : t \in Seq(ToSet(t))) /\ Sizes \subseteq Nat

VARIABLES text, results, answer

answerVars == <<text, results, answer>>

Digits == {<<"digit", d>> : d \in 0 .. 9}
Open == <<"[">>
Close == <<"]">>

\* Where the digits that begin at i end.
NumberEnd(i) ==
  CHOOSE e \in i .. Len(text) + 1 :
    /\ \A k \in i .. e - 1 : text[k] \in Digits
    /\ e > Len(text) \/ text[e] \notin Digits

NumberAt(i, e) ==
  LET Upto[k \in 0 .. e - i] == IF k = 0 THEN 0 ELSE 10 * Upto[k - 1] + text[i + k - 1][2]
  IN Upto[e - i]

\* Mutant: the scan goes on behind the number it has read.
NextPlaceBehind(i, e) == e + 1

\* The scan goes on with the next character, whatever it has read.
NextPlace(i, e) == i + 1

\* extract_citation_refs, one round of the loop at place i.
Scanned(done, i) ==
  IF i < done.next THEN done
  ELSE IF text[i] # Open THEN [done EXCEPT !.next = i + 1]
  ELSE LET e == NumberEnd(i + 1)
           n == NumberAt(i + 1, e)
           new == e > i + 1 /\ e <= Len(text) /\ text[e] = Close
                  /\ n >= 1 /\ ~Contains(done.found, n)
       IN [found |-> IF new THEN Append(done.found, n) ELSE done.found,
           next |-> NextPlace(i, e)]

\* The numbers in the order of the text.
Markers ==
  LET Upto[i \in 0 .. Len(text)] ==
        IF i = 0 THEN [found |-> <<>>, next |-> 1] ELSE Scanned(Upto[i - 1], i)
  IN Upto[Len(text)].found

\* sort_unstable
Sorted(s) ==
  LET order == CHOOSE p \in Bijection(DOMAIN s, DOMAIN s) :
                 \A i, j \in DOMAIN s : i < j => s[p[i]] <= s[p[j]]
  IN [i \in DOMAIN s |-> s[order[i]]]

\* Sorted, and without the numbers that name no result.
CitationRefs ==
  LET numbers == Sorted(Markers)
      Upto[k \in 0 .. Len(numbers)] ==
        IF k = 0 THEN <<>>
        ELSE IF numbers[k] <= results THEN Append(Upto[k - 1], numbers[k])
        ELSE Upto[k - 1]
  IN Upto[Len(numbers)]

AnswersInit == text \in Texts /\ results \in Sizes /\ answer = None

\* compose: without results the model is not asked; it may fail.
Compose ==
  /\ answer = None
  /\ answer' \in IF results = 0
       THEN {[status |-> "fallback", refs |-> <<>>]}
       ELSE {[status |-> "failed", refs |-> <<>>],
             [status |-> IF CitationRefs = <<>> THEN "degraded" ELSE "composed",
              refs |-> CitationRefs]}
  /\ UNCHANGED <<text, results>>

AnswersSpec == AnswersInit /\ [][Compose]_answerVars

------------------------------------------------------------------------------
(* What is asked of it *)

\* The text has the marker of n: brackets around digits that, leading zeros left out,
\* spell n.
Cites(n) ==
  \E i, e \in DOMAIN text :
    /\ i + 1 < e /\ text[i] = Open /\ text[e] = Close
    /\ \A k \in i + 1 .. e - 1 : text[k] \in Digits
    /\ NumberAt(i + 1, e) = n

\* A composed answer refers, once and in order, to exactly the results whose marker is
\* in its text, and an answer that refers to none is marked as degraded.
RefsAreCited ==
  (answer # None /\ answer.status \in {"composed", "degraded"}) =>
    /\ ToSet(answer.refs) = {n \in 1 .. results : Cites(n)}
    /\ \A i, j \in DOMAIN answer.refs : i < j => answer.refs[i] < answer.refs[j]
    /\ answer.status = "degraded" <=> answer.refs = <<>>

=============================================================================
