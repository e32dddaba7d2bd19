--------------------------- MODULE AssistantProofs ---------------------------
(***************************************************************************)
(* Proofs about the way from an intent to an answer, for every value of    *)
(* the constants.  A theorem on the behaviours of each service alone comes *)
(* first (that of the compilers is in CompileProofs), what it says of      *)
(* their composition in Assistant last.                                    *)
(***************************************************************************)
EXTENDS CompileProofs

------------------------------------------------------------------------------
(* Sorting *)

\* Of a sequence of different numbers there is a permutation that sorts it: every place
\* goes to the number of places that hold a smaller one.
LEMMA Sortable ==
  ASSUME NEW N \in Nat, NEW s \in [1 .. N -> Nat], \A i, j \in 1 .. N : s[i] = s[j] => i = j
  PROVE  \E p \in Bijection(1 .. N, 1 .. N) : \A i, j \in 1 .. N : i < j => s[p[i]] <= s[p[j]]
<1> DEFINE D == 1 .. N
           Below(i) == {j \in D : s[j] < s[i]}
           lower == [i \in D |-> Cardinality(Below(i))]
           rank == [i \in D |-> lower[i] + 1]
<1>1. IsFiniteSet(D) /\ Cardinality(D) = N
  BY FS_Interval
<1>2. ASSUME NEW i \in D PROVE IsFiniteSet(Below(i)) /\ lower[i] \in Nat /\ lower[i] < N
  <2>1. Below(i) \in SUBSET D /\ Below(i) # D
    <3>1. ~(s[i] < s[i])
      OBVIOUS
    <3>2. QED
      BY <3>1
  <2>2. IsFiniteSet(Below(i))
    BY <1>1, <2>1, FS_Subset
  <2>3. Cardinality(Below(i)) <= Cardinality(D) /\ (Cardinality(D) = Cardinality(Below(i)) => D = Below(i))
    BY <1>1, <2>1, FS_Subset
  <2>4. Cardinality(Below(i)) \in Nat
    BY <2>2, FS_CardinalityType
  <2>5. lower[i] = Cardinality(Below(i))
    OBVIOUS
  <2>6. lower[i] \in Nat /\ lower[i] <= N /\ lower[i] # N
    BY <1>1, <2>1, <2>3, <2>4, <2>5
  <2> HIDE DEF lower
  <2>7. QED
    BY <2>2, <2>6
<1>3. ASSUME NEW i \in D, NEW j \in D, s[i] < s[j] PROVE lower[i] < lower[j]
  <2>1. Below(i) \in SUBSET Below(j)
    BY <1>3
  <2>2. i \in Below(j) /\ i \notin Below(i)
    BY <1>3
  <2>3. Cardinality(Below(i)) <= Cardinality(Below(j)) /\ Cardinality(Below(i)) # Cardinality(Below(j))
    BY <1>2, <2>1, <2>2, FS_Subset
  <2>4. lower[i] <= lower[j] /\ lower[i] # lower[j] /\ lower[i] \in Nat /\ lower[j] \in Nat
    BY <1>2, <2>3
  <2> HIDE DEF lower
  <2>5. QED
    BY <2>4
<1> HIDE DEF lower
<1>4. /\ \A i \in D : rank[i] \in D
      /\ \A i, j \in D : s[i] < s[j] => rank[i] < rank[j]
  <2>1. \A i \in D : lower[i] \in Nat /\ lower[i] < N
    BY <1>2
  <2>2. \A i, j \in D : s[i] < s[j] => lower[i] < lower[j]
    BY <1>3
  <2>3. \A i \in D : rank[i] = lower[i] + 1
    OBVIOUS
  <2> HIDE DEF rank
  <2>4. ASSUME NEW i \in D PROVE rank[i] \in D
    BY <2>1, <2>3
  <2>5. ASSUME NEW i \in D, NEW j \in D, s[i] < s[j] PROVE rank[i] < rank[j]
    <3>1. lower[i] \in Nat /\ lower[j] \in Nat /\ lower[i] < lower[j]
      BY <2>1, <2>2, <2>5
    <3>2. QED
      BY <2>3, <3>1
  <2>6. QED
    BY <2>4, <2>5
<1>5. \A i, j \in D : rank[i] = rank[j] => i = j
  <2> SUFFICES ASSUME NEW i \in D, NEW j \in D, rank[i] = rank[j] PROVE i = j
    OBVIOUS
  <2> HIDE DEF rank
  <2>1. s[i] \in Nat /\ s[j] \in Nat /\ rank[i] \in Nat /\ rank[j] \in Nat
    BY <1>4
  <2>2. ~(s[i] < s[j]) /\ ~(s[j] < s[i])
    BY <1>4, <2>1
  <2>3. QED
    BY <2>1, <2>2
<1>6. \A k \in D : \E i \in D : rank[i] = k
  <2>1. rank \in [D -> D]
    BY <1>4
  <2>2. rank \in Injection(D, D)
    BY <1>5, <2>1 DEF Injection, IsInjective
  <2>3. rank \in Surjection(D, D)
    BY <1>1, <2>2, FS_Injection
  <2>4. QED
    BY <2>3 DEF Surjection
<1> DEFINE p == [k \in D |-> CHOOSE i \in D : rank[i] = k]
<1> HIDE DEF rank
<1>7. \A k \in D : p[k] \in D /\ rank[p[k]] = k
  BY <1>6
<1>8. p \in Bijection(D, D)
  <2>1. p \in [D -> D]
    BY <1>7
  <2>2. \A i, j \in D : p[i] = p[j] => i = j
    BY <1>7
  <2>3. \A i \in D : \E k \in D : p[k] = i
    <3> SUFFICES ASSUME NEW i \in D PROVE \E k \in D : p[k] = i
      OBVIOUS
    <3>1. rank[i] \in D /\ p[rank[i]] \in D /\ rank[p[rank[i]]] = rank[i]
      BY <1>4, <1>7
    <3>2. p[rank[i]] = i
      BY <1>5, <3>1
    <3>3. QED
      BY <3>1, <3>2
  <2>4. QED
    BY <2>1, <2>2, <2>3 DEF Bijection, Injection, Surjection, IsInjective
<1>9. ASSUME NEW i \in D, NEW j \in D, i < j PROVE s[p[i]] <= s[p[j]]
  <2>1. p[i] \in D /\ p[j] \in D /\ rank[p[i]] = i /\ rank[p[j]] = j
    BY <1>7
  <2>2. ~(s[p[j]] < s[p[i]])
    <3>1. ~(rank[p[j]] < rank[p[i]])
      BY <1>9, <2>1
    <3>2. QED
      BY <1>4, <2>1, <3>1
  <2>3. QED
    BY <2>1, <2>2
<1>10. QED
  BY <1>8, <1>9

------------------------------------------------------------------------------
(* Agent *)

\* The ids of the steps of pipelines.
StepIds == UNION {{p[k].id : k \in DOMAIN p} : p \in Pipelines}

\* What a run of pipeline p without interruption gives, step by step up to step m.
RunStages(f, p, m) ==
  f = [k \in 0 .. m |-> IF k = 0 THEN AG!BeforeSteps ELSE AG!AfterStep(f[k - 1], p[k])]
Stage(p) == CHOOSE f : RunStages(f, p, Len(p))

\* The stages of a run exist: the least number of steps for which they did not would
\* have a number before it.
LEMMA RunStagesExist ==
  ASSUME NEW p, NEW m \in Nat
  PROVE  \E f : RunStages(f, p, m)
<1> DEFINE bad == {n \in Nat : ~\E f : RunStages(f, p, n)}
<1>1. SUFFICES ASSUME bad # {} PROVE FALSE
  OBVIOUS
<1>2. PICK n \in bad : \A k \in bad : n <= k
  BY <1>1, Least
<1>3. CASE n = 0
  <2>1. RunStages([k \in 0 .. 0 |-> AG!BeforeSteps], p, 0)
    BY DEF RunStages
  <2>2. QED
    BY <1>3, <2>1
<1>4. CASE n # 0
  <2>1. n - 1 \in Nat /\ n - 1 \notin bad
    BY <1>2, <1>4
  <2>2. PICK f : RunStages(f, p, n - 1)
    BY <2>1
  <2> DEFINE g == [k \in 0 .. n |-> IF k = n THEN AG!AfterStep(f[n - 1], p[n]) ELSE f[k]]
  <2>3. \A k \in 0 .. n - 1 : f[k] = IF k = 0 THEN AG!BeforeSteps ELSE AG!AfterStep(f[k - 1], p[k])
    BY <2>2 DEF RunStages
  <2>4. \A k \in 0 .. n - 1 : g[k] = f[k]
    BY <2>1
  <2>5. ASSUME NEW k \in 0 .. n
        PROVE  g[k] = IF k = 0 THEN AG!BeforeSteps ELSE AG!AfterStep(g[k - 1], p[k])
    <3>1. CASE k = n
      <4>1. g[n] = AG!AfterStep(f[n - 1], p[n]) /\ g[n - 1] = f[n - 1]
        BY <2>1, <2>4
      <4>2. QED
        BY <3>1, <4>1, <1>4
    <3>2. CASE k # n /\ k # 0
      <4>1. k \in 0 .. n - 1 /\ k - 1 \in 0 .. n - 1
        BY <3>2
      <4>2. g[k] = f[k] /\ g[k - 1] = f[k - 1]
        BY <2>4, <4>1
      <4>3. f[k] = AG!AfterStep(f[k - 1], p[k])
        BY <2>3, <3>2, <4>1
      <4>4. QED
        BY <3>2, <4>2, <4>3
    <3>3. CASE k # n /\ k = 0
      <4>1. 0 \in 0 .. n - 1
        BY <2>1
      <4>2. g[0] = f[0] /\ f[0] = AG!BeforeSteps
        BY <2>3, <2>4, <4>1
      <4>3. QED
        BY <3>3, <4>2
    <3>4. QED
      BY <3>1, <3>2, <3>3
  <2>6. g = [k \in 0 .. n |-> g[k]]
    OBVIOUS
  <2> HIDE DEF g
  <2>7. g = [k \in 0 .. n |-> IF k = 0 THEN AG!BeforeSteps ELSE AG!AfterStep(g[k - 1], p[k])]
    BY <2>5, <2>6, Zenon
  <2>8. RunStages(g, p, n)
    BY <2>7 DEF RunStages
  <2>9. QED
    BY <1>2, <2>8
<1>5. QED
  BY <1>3, <1>4

\* The stages of a run, one by one.
LEMMA StageByStage ==
  ASSUME NEW p, Len(p) \in Nat
  PROVE  /\ Stage(p)[0] = AG!BeforeSteps
         /\ \A k \in 1 .. Len(p) : Stage(p)[k] = AG!AfterStep(Stage(p)[k - 1], p[k])
         /\ AG!Uninterrupted(p) = Stage(p)[Len(p)].previous
<1>1. RunStages(Stage(p), p, Len(p))
  BY RunStagesExist DEF Stage
<1>2. PICK f : f = Stage(p)
  OBVIOUS
<1>3. \A k \in 0 .. Len(p) : f[k] = IF k = 0 THEN AG!BeforeSteps ELSE AG!AfterStep(f[k - 1], p[k])
  BY <1>1, <1>2 DEF RunStages
<1>4. AG!Uninterrupted(p) = Stage(p)[Len(p)].previous
  BY DEF AG!Uninterrupted, Stage, RunStages
<1>5. QED
  BY <1>2, <1>3, <1>4

\* What a stage leaves behind for the next: what its step gave, as the last output and
\* under its id.
LEMMA StageGives ==
  ASSUME NEW p, Len(p) \in Nat, NEW k \in 1 .. Len(p)
  PROVE  Stage(p)[k].gave[p[k].id] = Stage(p)[k].previous
<1>1. Stage(p)[k] = AG!AfterStep(Stage(p)[k - 1], p[k])
  BY StageByStage
<1>2. PICK d : d = Stage(p)[k - 1]
  OBVIOUS
<1>3. AG!AfterStep(d, p[k]).gave[p[k].id] = AG!AfterStep(d, p[k]).previous
  BY DEF AG!AfterStep
<1>4. QED
  BY <1>1, <1>2, <1>3

\* A run has come to a step: its outputs are those of the stage before, and it has
\* recorded and called every step before once.
Reached(p, step, out, last, done, called) ==
  /\ step \in 1 .. Len(p) + 1
  /\ out = Stage(p)[step - 1].gave /\ last = Stage(p)[step - 1].previous
  /\ done \in Seq(StepIds) /\ Len(done) = step - 1 /\ \A k \in 1 .. step - 1 : done[k] = p[k].id
  /\ called = done

\* What was answered is the answer of the pipeline that is still the session's.
Answered(r, p) ==
  (r # None /\ r.kind = "answered") =>
    /\ r.answer = AG!Uninterrupted(p)
    /\ r.trail = [k \in DOMAIN p |-> p[k].id]

\* The inductive invariant: an intent that runs or waits has done exactly the steps
\* before the one it has come to, and nothing is answered before it ends.
AgentInv ==
  /\ calls \in Seq(StepIds) /\ AG!NothingTwice
  /\ Answered(result, pipeline)
  /\ doing \in {"rest", "plan", "run", "wait"}
  /\ doing # "rest" => result = None
  /\ doing = "plan" => calls = <<>>
  /\ doing \in {"run", "wait"} =>
       /\ pipeline \in Pipelines
       /\ Reached(pipeline, at, outputs, previous, trail, calls)
       /\ doing = "wait" => at <= Len(pipeline)

\* No step was called yet: appending its id repeats none.
LEMMA CalledOnce ==
  ASSUME AG!AgentAssumption, NEW p \in Pipelines, NEW n \in 1 .. Len(p), NEW c \in Seq(StepIds),
         Len(c) = n - 1, \A k \in 1 .. n - 1 : c[k] = p[k].id
  PROVE  /\ Append(c, p[n].id) \in Seq(StepIds) /\ Len(Append(c, p[n].id)) = n
         /\ \A k \in 1 .. n : Append(c, p[n].id)[k] = p[k].id
         /\ \A j, k \in DOMAIN Append(c, p[n].id) :
              Append(c, p[n].id)[j] = Append(c, p[n].id)[k] => j = k
<1>1. p \in Seq([id : STRING, binding : STRING]) /\ \A j, k \in DOMAIN p : p[j].id = p[k].id => j = k
  BY DEF AG!AgentAssumption
<1>2. DOMAIN p = 1 .. Len(p) /\ Len(p) \in Nat
  BY <1>1
<1>3. p[n].id \in StepIds
  BY <1>2 DEF StepIds
<1>4. PICK e : e = Append(c, p[n].id)
  OBVIOUS
<1>5. e \in Seq(StepIds) /\ Len(e) = n /\ DOMAIN e = 1 .. n
  BY <1>3, <1>4
<1>6. \A k \in 1 .. n : e[k] = p[k].id
  <2>1. ASSUME NEW k \in 1 .. n PROVE e[k] = p[k].id
    <3>1. CASE k = n
      BY <1>3, <1>4, <3>1
    <3>2. CASE k # n
      BY <1>3, <1>4, <3>2
    <3>3. QED
      BY <3>1, <3>2
  <2>2. QED
    BY <2>1
<1>7. \A j, k \in DOMAIN e : e[j] = e[k] => j = k
  BY <1>1, <1>2, <1>5, <1>6
<1>8. QED
  BY <1>4, <1>5, <1>6, <1>7

\* What fails answers nothing.
LEMMA FailedStays ==
  ASSUME NEW why, why # "answered", AG!Fails(why), AgentInv
  PROVE  doing' = "rest" /\ pipeline' = pipeline /\ Answered(result', pipeline')
<1>1. result' = [kind |-> why]
  BY DEF AG!Fails, AG!Return
<1>2. result'.kind = why
  BY <1>1
<1>3. QED
  BY <1>2 DEF AG!Fails, AG!Return, Answered

\* However often an intent was interrupted for an approval, and whoever decides when,
\* its answer and its trail are those of an uninterrupted run, and no step is called
\* twice, for any pipelines whose steps have ids of their own and any number of intents.
THEOREM InterruptedAsWhole ==
  ASSUME AG!AgentAssumption
  PROVE  AG!AgentSafety => [](AG!AnswerIsWhole /\ AG!NothingTwice)
<1>1. AG!AgentInit => AgentInv
  BY DEF AG!AgentInit, AgentInv, AG!NothingTwice, AG!IsInjective, Answered
<1>2. AgentInv /\ [AG!AgentNext]_(AG!agentVars) => AgentInv'
  <2> SUFFICES ASSUME AgentInv, [AG!AgentNext]_(AG!agentVars) PROVE AgentInv'
    OBVIOUS
  <2>0. /\ \A p \in Pipelines : Len(p) \in Nat /\ DOMAIN p = 1 .. Len(p)
        /\ \A p \in Pipelines : p \in Seq([id : STRING, binding : STRING])
        /\ \A p \in Pipelines : \A j, k \in DOMAIN p : p[j].id = p[k].id => j = k
    BY DEF AG!AgentAssumption
  <2>1. CASE UNCHANGED AG!agentVars
    BY <2>1 DEF AG!agentVars, AgentInv, AG!NothingTwice, AG!IsInjective
  <2>2. CASE AG!CallerTransition
    BY <2>2 DEF AG!CallerTransition, AgentInv, AG!NothingTwice, AG!IsInjective
  <2>3. CASE AG!Begin
    <3>1. calls' = <<>> /\ pipeline' = pipeline
      BY <2>3 DEF AG!Begin, AG!Fails
    <3>2. calls' \in Seq(StepIds) /\ AG!NothingTwice'
      BY <3>1 DEF AG!NothingTwice, AG!IsInjective
    <3>3. CASE doing' = "plan" /\ result' = None
      BY <3>1, <3>2, <3>3 DEF AgentInv, Answered
    <3>4. CASE AG!Fails("ExecutionFailed")
      <4>1. doing' = "rest" /\ Answered(result', pipeline')
        BY <3>4, FailedStays
      <4>2. QED
        BY <3>1, <3>2, <4>1 DEF AgentInv
    <3>5. QED
      BY <2>3, <3>3, <3>4 DEF AG!Begin
  <2>4. CASE AG!Plan
    <3>1. calls' = calls /\ calls = <<>> /\ result = None /\ doing = "plan"
      BY <2>4 DEF AG!Plan, AgentInv
    <3>2. calls' \in Seq(StepIds) /\ AG!NothingTwice'
      BY <3>1 DEF AG!NothingTwice, AG!IsInjective
    <3>3. ASSUME NEW p \in Pipelines,
                 pipeline' = p, doing' = "run", at' = 1, outputs' = AG!NoOutputs,
                 previous' = AG!Intent, trail' = <<>>, UNCHANGED result
          PROVE  AgentInv'
      <4>1. Stage(p)[0].gave = AG!NoOutputs /\ Stage(p)[0].previous = AG!Intent
        BY <2>0, StageByStage DEF AG!BeforeSteps
      <4>2. Reached(p, 1, outputs', previous', trail', calls')
        BY <2>0, <3>1, <3>3, <4>1 DEF Reached
      <4>3. QED
        BY <3>1, <3>2, <3>3, <4>2 DEF AgentInv, Answered
    <3>4. ASSUME NEW why \in {"NotPlanned", "PipelineCompileFailed"}, AG!Fails(why) PROVE AgentInv'
      <4>1. doing' = "rest" /\ Answered(result', pipeline')
        BY <3>4, FailedStays
      <4>2. QED
        BY <3>1, <3>2, <4>1 DEF AgentInv
    <3>5. QED
      BY <2>4, <3>3, <3>4 DEF AG!Plan
  <2>5. CASE AG!StepFails
    <3>1. doing = "run" /\ at \in 1 .. Len(pipeline) /\ pipeline \in Pipelines
      BY <2>0, <2>5 DEF AG!StepFails, AgentInv, Reached
    <3>2. doing' = "rest" /\ Answered(result', pipeline')
      BY <2>5, FailedStays DEF AG!StepFails
    <3>3. calls' = calls \/ calls' = Append(calls, pipeline[at].id)
      BY <2>5 DEF AG!StepFails, AG!Step
    <3>4. /\ calls \in Seq(StepIds) /\ Len(calls) = at - 1
          /\ \A k \in 1 .. at - 1 : calls[k] = pipeline[k].id
      BY <3>1 DEF AgentInv, Reached
    <3>5. calls' \in Seq(StepIds) /\ AG!NothingTwice'
      <4>1. CASE calls' = calls
        BY <4>1 DEF AgentInv, AG!NothingTwice, AG!IsInjective
      <4>2. CASE calls' = Append(calls, pipeline[at].id)
        BY <3>1, <3>4, <4>2, CalledOnce DEF AG!NothingTwice, AG!IsInjective
      <4>3. QED
        BY <3>3, <4>1, <4>2
    <3>6. QED
      BY <3>2, <3>5 DEF AgentInv
  <2>6. CASE AG!StepSucceeds
    <3>1. /\ doing = "run" /\ at \in 1 .. Len(pipeline) /\ pipeline \in Pipelines /\ result = None
          /\ doing' = doing /\ pipeline' = pipeline /\ result' = result /\ at' = at + 1
      BY <2>0, <2>6 DEF AG!StepSucceeds, AgentInv, Reached
    <3>2. PICK p, n : p = pipeline /\ n = at
      OBVIOUS
    <3>3. Reached(p, n, outputs, previous, trail, calls)
      BY <3>1, <3>2 DEF AgentInv
    <3>4. PICK d : d = Stage(p)[n - 1]
      OBVIOUS
    <3>5. outputs = d.gave /\ previous = d.previous
      BY <3>3, <3>4 DEF Reached
    <3>6. PICK gives : gives = <<p[n].id, AG!Input(p[n], d.previous, d.gave)>>
      OBVIOUS
    <3>7. /\ previous' = gives
          /\ outputs' = [id \in DOMAIN d.gave \cup {p[n].id} |-> IF id = p[n].id THEN gives ELSE d.gave[id]]
          /\ trail' = Append(trail, p[n].id) /\ calls' = Append(calls, p[n].id)
      BY <2>6, <3>2, <3>5, <3>6 DEF AG!StepSucceeds, AG!Step
    <3>8. Stage(p)[n] = AG!AfterStep(d, p[n])
      BY <2>0, <3>1, <3>2, <3>4, StageByStage
    <3>9. Stage(p)[n].previous = gives /\ Stage(p)[n].gave = outputs'
      BY <3>6, <3>7, <3>8 DEF AG!AfterStep
    <3>10. /\ trail \in Seq(StepIds) /\ Len(trail) = n - 1 /\ \A k \in 1 .. n - 1 : trail[k] = p[k].id
           /\ calls = trail /\ n \in 1 .. Len(p) /\ p \in Pipelines
      BY <3>1, <3>2, <3>3 DEF Reached
    <3>11. /\ trail' \in Seq(StepIds) /\ Len(trail') = n /\ \A k \in 1 .. n : trail'[k] = p[k].id
           /\ calls' = trail' /\ \A j, k \in DOMAIN calls' : calls'[j] = calls'[k] => j = k
      BY <3>7, <3>10, CalledOnce
    <3>12. Reached(p, n + 1, outputs', previous', trail', calls')
      BY <2>0, <3>7, <3>9, <3>10, <3>11 DEF Reached
    <3>13. calls' \in Seq(StepIds) /\ AG!NothingTwice'
      BY <3>11 DEF AG!NothingTwice, AG!IsInjective
    <3>14. QED
      BY <3>1, <3>2, <3>12, <3>13 DEF AgentInv, Answered
  <2>7. CASE AG!StepWantsApproval
    <3>1. /\ doing = "run" /\ at <= Len(pipeline) /\ calls' = calls
          /\ calls' \in Seq(StepIds) /\ AG!NothingTwice'
      BY <2>7 DEF AG!StepWantsApproval, AgentInv, AG!NothingTwice, AG!IsInjective
    <3>2. CASE doing' = "wait" /\ UNCHANGED <<pipeline, at, outputs, previous, trail, result>>
      BY <3>1, <3>2 DEF AgentInv
    <3>3. CASE AG!Fails("ExecutionFailed")
      <4>1. doing' = "rest" /\ Answered(result', pipeline')
        BY <3>3, FailedStays
      <4>2. QED
        BY <3>1, <4>1 DEF AgentInv
    <3>4. QED
      BY <2>7, <3>2, <3>3 DEF AG!StepWantsApproval
  <2>8. CASE AG!Decide
    BY <2>8 DEF AG!Decide, AgentInv, AG!NothingTwice, AG!IsInjective
  <2>9. CASE AG!Approved
    <3>1. /\ doing = "wait" /\ at \in 1 .. Len(pipeline) /\ pipeline \in Pipelines
          /\ doing' = "run" /\ UNCHANGED <<pipeline, outputs, trail, result, calls>>
      BY <2>0, <2>9 DEF AG!Approved, AgentInv, Reached
    <3>2. PICK p, n : p = pipeline /\ n = at
      OBVIOUS
    <3>3. Reached(p, n, outputs, previous, trail, calls)
      BY <3>1, <3>2 DEF AgentInv
    <3>4. AG!TakenUpAt(AG!Step.id) = n
      <4>1. n \in DOMAIN p /\ \A k \in DOMAIN p : p[k].id = p[n].id => k = n
        BY <2>0, <3>1, <3>2
      <4>2. AG!TakenUpAt(AG!Step.id) = CHOOSE k \in DOMAIN p : p[k].id = p[n].id
        BY <3>2 DEF AG!TakenUpAt, AG!Step
      <4>3. QED
        BY <4>1, <4>2
    <3>5. at' = n /\ previous' = AG!TakenUpWith(n)
      BY <2>9, <3>4 DEF AG!Approved
    <3>6. previous' = Stage(p)[n - 1].previous
      <4>1. CASE n = 1
        <5>1. Stage(p)[0].previous = AG!Intent
          BY <2>0, <3>1, <3>2, StageByStage DEF AG!BeforeSteps
        <5>2. QED
          BY <3>5, <4>1, <5>1 DEF AG!TakenUpWith
      <4>2. CASE n # 1
        <5>1. n - 1 \in 1 .. Len(p) /\ Len(p) \in Nat
          BY <2>0, <3>1, <3>2, <4>2
        <5>2. Stage(p)[n - 1].gave[p[n - 1].id] = Stage(p)[n - 1].previous
          BY <5>1, StageGives
        <5>3. previous' = outputs[p[n - 1].id]
          BY <3>2, <3>5, <4>2 DEF AG!TakenUpWith
        <5>4. QED
          BY <3>3, <5>2, <5>3 DEF Reached
      <4>3. QED
        BY <4>1, <4>2
    <3>7. Reached(p, n, outputs', previous', trail', calls')
      BY <3>1, <3>3, <3>6 DEF Reached
    <3>8. QED
      BY <3>1, <3>2, <3>5, <3>7 DEF AgentInv, AG!NothingTwice, AG!IsInjective
  <2>10. CASE AG!Denied \/ AG!TimesOut
    <3>1. PICK why \in {"ApprovalDenied", "ExecutionFailed"} : AG!Fails(why)
      BY <2>10 DEF AG!Denied, AG!TimesOut
    <3>2. doing' = "rest" /\ Answered(result', pipeline')
      BY <3>1, FailedStays
    <3>3. calls' = calls
      BY <2>10 DEF AG!Denied, AG!TimesOut
    <3>4. QED
      BY <3>2, <3>3 DEF AgentInv, AG!NothingTwice, AG!IsInjective
  <2>11. CASE AG!Answer
    <3>1. /\ doing = "run" /\ at > Len(pipeline) /\ pipeline \in Pipelines
          /\ doing' = "rest" /\ UNCHANGED <<pipeline, calls>>
          /\ result' = [kind |-> "answered", answer |-> previous, trail |-> trail]
      BY <2>11 DEF AG!Answer, AG!Return, AgentInv
    <3>2. PICK p, n : p = pipeline /\ n = Len(p)
      OBVIOUS
    <3>3. n \in Nat /\ DOMAIN p = 1 .. n
      BY <2>0, <3>1, <3>2
    <3>4. Reached(p, at, outputs, previous, trail, calls)
      BY <3>1, <3>2 DEF AgentInv
    <3>5. at - 1 = n
      BY <3>1, <3>2, <3>3, <3>4 DEF Reached
    <3>6. previous = AG!Uninterrupted(p)
      BY <3>2, <3>3, <3>4, <3>5, StageByStage DEF Reached
    <3>7. trail = [k \in DOMAIN p |-> p[k].id]
      <4>1. trail \in Seq(StepIds) /\ Len(trail) = n /\ \A k \in 1 .. n : trail[k] = p[k].id
        BY <3>4, <3>5 DEF Reached
      <4>2. trail = [k \in 1 .. n |-> trail[k]]
        BY <4>1
      <4>3. QED
        BY <3>3, <4>1, <4>2
    <3>8. result'.answer = previous /\ result'.trail = trail
      BY <3>1
    <3>9. Answered(result', pipeline')
      BY <3>1, <3>2, <3>6, <3>7, <3>8 DEF Answered
    <3>10. QED
      BY <3>1, <3>9 DEF AgentInv, AG!NothingTwice, AG!IsInjective
  <2>12. QED
    BY <2>1, <2>2, <2>3, <2>4, <2>5, <2>6, <2>7, <2>8, <2>9, <2>10, <2>11 DEF AG!AgentNext, AG!Runtime
<1>3. AgentInv => AG!AnswerIsWhole /\ AG!NothingTwice
  BY DEF AgentInv, Answered, AG!AnswerIsWhole
<1>4. QED
  BY <1>1, <1>2, <1>3, PTL DEF AG!AgentSafety

------------------------------------------------------------------------------
(* Answers *)

\* What the model said and was given stay what they are.
AnswersTyped == text \in Texts /\ results \in Sizes

\* A text is a sequence, and what ends it is no digit.
LEMMA TextFacts ==
  ASSUME AN!AnswersAssumption, AnswersTyped
  PROVE  /\ Len(text) \in Nat /\ DOMAIN text = 1 .. Len(text) /\ results \in Nat
         /\ AN!Close \notin AN!Digits
<1>1. text \in Seq(AN!ToSet(text)) /\ results \in Nat
  BY DEF AN!AnswersAssumption, AnswersTyped
<1>2. Len(text) \in Nat /\ DOMAIN text = 1 .. Len(text)
  BY <1>1
<1>3. AN!Close \notin AN!Digits
  <2>1. Len(AN!Close) = 1 /\ \A d : Len(<<"digit", d>>) = 2
    BY DEF AN!Close
  <2>2. ASSUME NEW d \in 0 .. 9 PROVE AN!Close # <<"digit", d>>
    BY <2>1
  <2>3. QED
    BY <2>2 DEF AN!Digits
<1>4. QED
  BY <1>1, <1>2, <1>3

\* The digits that begin at i, if any, end at e.
EndsAt(i, e) ==
  /\ e \in i .. Len(text) + 1
  /\ \A k \in i .. e - 1 : text[k] \in AN!Digits
  /\ e > Len(text) \/ text[e] \notin AN!Digits

\* They end at one place, which is the first that holds no digit.
LEMMA NumbersEnd ==
  ASSUME AN!AnswersAssumption, AnswersTyped, NEW i \in 1 .. Len(text) + 1
  PROVE  EndsAt(i, AN!NumberEnd(i)) /\ \A e : EndsAt(i, e) => e = AN!NumberEnd(i)
<1> DEFINE stops == {e \in i .. Len(text) + 1 : e > Len(text) \/ text[e] \notin AN!Digits}
<1>0. Len(text) \in Nat
  BY TextFacts
<1>1. PICK e \in stops : \A d \in stops : e <= d
  <2>1. Len(text) + 1 \in stops
    BY <1>0
  <2>2. stops \subseteq Nat /\ stops # {}
    BY <1>0, <2>1
  <2>3. QED
    BY <2>2, Least
<1>2. EndsAt(i, e)
  <2>1. ASSUME NEW k \in i .. e - 1 PROVE text[k] \in AN!Digits
    <3>1. k \in i .. Len(text) + 1 /\ ~(e <= k) /\ ~(k > Len(text))
      BY <1>0, <1>1
    <3>2. k \notin stops
      BY <1>1, <3>1
    <3>3. QED
      BY <3>1, <3>2
  <2>2. QED
    BY <1>1, <2>1 DEF EndsAt
<1>3. ASSUME NEW c, NEW d, EndsAt(i, c), EndsAt(i, d) PROVE ~(c < d)
  <2>1. SUFFICES ASSUME c < d PROVE FALSE
    OBVIOUS
  <2>2. c \in i .. d - 1 /\ c <= Len(text)
    BY <1>0, <1>3, <2>1 DEF EndsAt
  <2>3. QED
    BY <1>3, <2>2 DEF EndsAt
<1>4. \A c, d : EndsAt(i, c) /\ EndsAt(i, d) => c = d
  <2> SUFFICES ASSUME NEW c, NEW d, EndsAt(i, c), EndsAt(i, d) PROVE c = d
    OBVIOUS
  <2>1. ~(c < d) /\ ~(d < c) /\ c \in Int /\ d \in Int
    BY <1>0, <1>3 DEF EndsAt
  <2>2. QED
    BY <2>1
<1>5. EndsAt(i, AN!NumberEnd(i))
  <2>1. AN!NumberEnd(i) = CHOOSE c \in i .. Len(text) + 1 :
                            /\ \A k \in i .. c - 1 : text[k] \in AN!Digits
                            /\ c > Len(text) \/ text[c] \notin AN!Digits
    BY DEF AN!NumberEnd
  <2>2. \E c \in i .. Len(text) + 1 : /\ \A k \in i .. c - 1 : text[k] \in AN!Digits
                                      /\ c > Len(text) \/ text[c] \notin AN!Digits
    BY <1>2 DEF EndsAt
  <2>3. QED
    BY <2>1, <2>2 DEF EndsAt
<1>6. QED
  BY <1>4, <1>5

\* Digits spell a number.
LEMMA NumbersAreNat ==
  ASSUME AN!AnswersAssumption, AnswersTyped, NEW i \in 1 .. Len(text) + 1, NEW e \in i .. Len(text) + 1,
         \A k \in i .. e - 1 : text[k] \in AN!Digits
  PROVE  AN!NumberAt(i, e) \in Nat
<1> DEFINE digit(k) == text[i + k - 1][2]
           Up(f) == f = [k \in 0 .. e - i |-> IF k = 0 THEN 0 ELSE 10 * f[k - 1] + digit(k)]
           step == [k \in 1 .. e - i |-> [x \in Nat |-> 10 * x + digit(k)]]
           g == CHOOSE f : Up(f)
<1>0. Len(text) \in Nat /\ e - i \in Nat /\ i \in Nat
  BY TextFacts
<1>1. \A k \in 1 .. e - i : digit(k) \in Nat
  <2> SUFFICES ASSUME NEW k \in 1 .. e - i PROVE digit(k) \in Nat
    OBVIOUS
  <2>1. i + k - 1 \in i .. e - 1
    BY <1>0
  <2>2. PICK d \in 0 .. 9 : text[i + k - 1] = <<"digit", d>>
    BY <2>1 DEF AN!Digits
  <2>3. QED
    BY <2>2
<1> HIDE DEF digit
<1>2. \E f \in [0 .. e - i -> Nat] : Up(f)
  <2>1. step \in [1 .. e - i -> [Nat -> Nat]]
    BY <1>1
  <2>2. PICK f \in [0 .. e - i -> Nat] : FollowsFrom(f, 0, step, e - i)
    <3> HIDE DEF step
    <3>1. QED
      BY <1>0, <2>1, Recursion
  <2>3. ASSUME NEW k \in 0 .. e - i, k # 0 PROVE step[k][f[k - 1]] = 10 * f[k - 1] + digit(k)
    <3>1. k \in 1 .. e - i /\ k - 1 \in 0 .. e - i
      BY <1>0, <2>3
    <3>2. f[k - 1] \in Nat
      BY <3>1
    <3>3. QED
      BY <3>1, <3>2
  <2>4. Up(f)
    <3> HIDE DEF step
    <3>1. QED
      BY <2>2, <2>3 DEF FollowsFrom
  <2>5. QED
    BY <2>4
<1>3. Up(g)
  BY <1>2
<1>4. AN!NumberAt(i, e) = g[e - i]
  BY DEF AN!NumberAt, digit
<1> HIDE DEF g
<1>5. /\ \A k \in 0 .. e - i : k = 0 => g[k] = 0
      /\ \A k \in 0 .. e - i : k # 0 => g[k] = 10 * g[k - 1] + digit(k)
  BY <1>3
<1>6. \A k \in 0 .. e - i : k \in {n \in 0 .. e - i : g[n] \in Nat}
  <2>1. 0 \in {n \in 0 .. e - i : g[n] \in Nat}
    BY <1>0, <1>5
  <2>2. ASSUME NEW k \in 1 .. e - i, g[k - 1] \in Nat PROVE g[k] \in Nat
    <3>1. k \in 0 .. e - i /\ k # 0
      BY <1>0
    <3>2. g[k] = 10 * g[k - 1] + digit(k)
      BY <1>5, <3>1
    <3>3. QED
      BY <1>1, <2>2, <3>2
  <2>3. \A k \in 1 .. e - i : k - 1 \in {n \in 0 .. e - i : g[n] \in Nat} => k \in {n \in 0 .. e - i : g[n] \in Nat}
    BY <1>0, <2>2
  <2>4. QED
    BY <1>0, <2>1, <2>3, StepByStep
<1>7. QED
  BY <1>0, <1>4, <1>6

\* There is a marker of n at place i.
Marked(i, n) ==
  /\ text[i] = AN!Open
  /\ AN!NumberEnd(i + 1) > i + 1 /\ AN!NumberEnd(i + 1) <= Len(text)
  /\ text[AN!NumberEnd(i + 1)] = AN!Close
  /\ n = AN!NumberAt(i + 1, AN!NumberEnd(i + 1)) /\ n >= 1

\* A number is cited if it is marked somewhere.
LEMMA CitedIsMarked ==
  ASSUME AN!AnswersAssumption, AnswersTyped, NEW n \in Nat, n >= 1
  PROVE  AN!Cites(n) <=> \E i \in 1 .. Len(text) : Marked(i, n)
<1>0. Len(text) \in Nat /\ DOMAIN text = 1 .. Len(text) /\ AN!Close \notin AN!Digits
  BY TextFacts
<1>1. ASSUME NEW i \in 1 .. Len(text), Marked(i, n) PROVE AN!Cites(n)
  <2> DEFINE e == AN!NumberEnd(i + 1)
  <2>1. i + 1 \in 1 .. Len(text) + 1
    BY <1>0
  <2>2. EndsAt(i + 1, e)
    BY <2>1, NumbersEnd
  <2>3. i + 1 < e /\ e <= Len(text) /\ text[e] = AN!Close /\ text[i] = AN!Open /\ AN!NumberAt(i + 1, e) = n
    BY <1>0, <1>1, <2>2 DEF Marked, EndsAt
  <2> HIDE DEF e
  <2>4. e \in DOMAIN text /\ \A k \in i + 1 .. e - 1 : text[k] \in AN!Digits
    BY <1>0, <2>2, <2>3 DEF EndsAt
  <2>5. QED
    BY <1>0, <2>3, <2>4 DEF AN!Cites
<1>2. ASSUME AN!Cites(n) PROVE \E i \in 1 .. Len(text) : Marked(i, n)
  <2>1. PICK i \in 1 .. Len(text), e \in 1 .. Len(text) :
          /\ i + 1 < e /\ text[i] = AN!Open /\ text[e] = AN!Close
          /\ \A k \in i + 1 .. e - 1 : text[k] \in AN!Digits
          /\ AN!NumberAt(i + 1, e) = n
    BY <1>0, <1>2 DEF AN!Cites
  <2>2. i + 1 \in 1 .. Len(text) + 1 /\ EndsAt(i + 1, e)
    BY <1>0, <2>1 DEF EndsAt
  <2>3. e = AN!NumberEnd(i + 1)
    BY <2>2, NumbersEnd
  <2>4. i + 1 < e /\ e <= Len(text) /\ i + 1 \in Nat /\ e \in Nat
    BY <1>0, <2>1
  <2>5. Marked(i, n)
    BY <2>1, <2>3, <2>4 DEF Marked
  <2>6. QED
    BY <2>5
<1>3. QED
  BY <1>1, <1>2

\* What the scan knows after a place: the numbers found, and where it goes on.
Scans == [found : Seq(Nat), next : Nat]

\* One round of the scan adds the number marked at its place, unless it has it.
LEMMA ScanStep ==
  ASSUME AN!AnswersAssumption, AnswersTyped, NEW i \in 1 .. Len(text), NEW done \in Scans
  PROVE  /\ AN!Scanned(done, i) \in Scans
         /\ done.next = i =>
              /\ AN!Scanned(done, i).next = i + 1
              /\ \/ AN!Scanned(done, i).found = done.found
                    /\ \A n : Marked(i, n) => \E k \in 1 .. Len(done.found) : done.found[k] = n
                 \/ \E n \in Nat :
                      /\ Marked(i, n) /\ AN!Scanned(done, i).found = Append(done.found, n)
                      /\ \A k \in 1 .. Len(done.found) : done.found[k] # n
                      /\ \A m : Marked(i, m) => m = n
<1> DEFINE e == AN!NumberEnd(i + 1)
           n == AN!NumberAt(i + 1, e)
           new == e > i + 1 /\ e <= Len(text) /\ text[e] = AN!Close
                  /\ n >= 1 /\ ~AN!Contains(done.found, n)
           after == [found |-> IF new THEN Append(done.found, n) ELSE done.found, next |-> i + 1]
<1>0. /\ Len(text) \in Nat /\ i \in Nat /\ i + 1 \in 1 .. Len(text) + 1 /\ done.found \in Seq(Nat) /\ done.next \in Nat
      /\ EndsAt(i + 1, e)
  BY TextFacts, NumbersEnd DEF Scans
<1>1. n \in Nat
  <2>1. e \in i + 1 .. Len(text) + 1 /\ \A k \in i + 1 .. e - 1 : text[k] \in AN!Digits
    BY <1>0 DEF EndsAt
  <2> HIDE DEF e
  <2>2. QED
    BY <1>0, <2>1, NumbersAreNat
<1>2. AN!Scanned(done, i) = IF i < done.next THEN done
                            ELSE IF text[i] # AN!Open THEN [done EXCEPT !.next = i + 1] ELSE after
  BY DEF AN!Scanned, AN!NextPlace
<1>3. AN!Contains(done.found, n) <=> \E k \in 1 .. Len(done.found) : done.found[k] = n
  BY DEF AN!Contains
<1>4. \A m : Marked(i, m) <=> /\ text[i] = AN!Open /\ e > i + 1 /\ e <= Len(text) /\ text[e] = AN!Close
                              /\ m = n /\ n >= 1
  BY DEF Marked
<1> DEFINE has(m) == \E k \in 1 .. Len(done.found) : done.found[k] = m
<1>5. text[i] = AN!Open /\ new => Marked(i, n) /\ ~has(n)
  <2>1. Marked(i, n) <=> /\ text[i] = AN!Open /\ e > i + 1 /\ e <= Len(text) /\ text[e] = AN!Close /\ n >= 1
    BY <1>4
  <2> HIDE DEF e, n
  <2>2. QED
    BY <1>3, <2>1
<1>6. ~new => \A m : Marked(i, m) /\ text[i] = AN!Open => has(m)
  BY <1>3, <1>4
<1>7. \A m : Marked(i, m) => m = n /\ text[i] = AN!Open
  BY <1>4
<1>8. Append(done.found, n) \in Seq(Nat)
  BY <1>0, <1>1
<1>9. /\ after.next = i + 1 /\ after.found = (IF new THEN Append(done.found, n) ELSE done.found) /\ after \in Scans
  BY <1>0, <1>8 DEF Scans
<1>10. [done EXCEPT !.next = i + 1] \in Scans /\ [done EXCEPT !.next = i + 1].next = i + 1
       /\ [done EXCEPT !.next = i + 1].found = done.found
  BY <1>0 DEF Scans
<1> HIDE DEF after, new, n, e, has
<1>11. AN!Scanned(done, i) \in Scans
  BY <1>2, <1>9, <1>10
<1>12. ASSUME done.next = i
       PROVE  /\ AN!Scanned(done, i).next = i + 1
              /\ \/ AN!Scanned(done, i).found = done.found /\ \A m : Marked(i, m) => has(m)
                 \/ /\ Marked(i, n) /\ AN!Scanned(done, i).found = Append(done.found, n)
                    /\ ~has(n)
                    /\ \A m : Marked(i, m) => m = n
  <2>1. ~(i < done.next)
    BY <1>0, <1>12
  <2>2. CASE text[i] # AN!Open
    BY <1>2, <1>7, <1>10, <2>1, <2>2
  <2>3. CASE text[i] = AN!Open /\ new
    BY <1>2, <1>5, <1>7, <1>9, <2>1, <2>3
  <2>4. CASE text[i] = AN!Open /\ ~new
    BY <1>2, <1>6, <1>9, <2>1, <2>4
  <2>5. QED
    BY <2>2, <2>3, <2>4
<1>13. QED
  BY <1>1, <1>11, <1>12 DEF has

\* The numbers that the scan finds are those that are marked, once each.
LEMMA MarkersFound ==
  ASSUME AN!AnswersAssumption, AnswersTyped
  PROVE  /\ AN!Markers \in Seq(Nat)
         /\ \A j, k \in 1 .. Len(AN!Markers) : AN!Markers[j] = AN!Markers[k] => j = k
         /\ \A n : (\E k \in 1 .. Len(AN!Markers) : AN!Markers[k] = n) <=> \E i \in 1 .. Len(text) : Marked(i, n)
<1> DEFINE first == [found |-> <<>>, next |-> 1]
           Up(f) == f = [i \in 0 .. Len(text) |-> IF i = 0 THEN first ELSE AN!Scanned(f[i - 1], i)]
           step == [i \in 1 .. Len(text) |-> [x \in Scans |-> AN!Scanned(x, i)]]
           g == CHOOSE f : Up(f)
<1>0. Len(text) \in Nat /\ first \in Scans
  BY TextFacts DEF Scans
<1>1. \E f \in [0 .. Len(text) -> Scans] : Up(f)
  <2>1. step \in [1 .. Len(text) -> [Scans -> Scans]]
    BY ScanStep
  <2>2. PICK f \in [0 .. Len(text) -> Scans] : FollowsFrom(f, first, step, Len(text))
    <3> HIDE DEF step, first
    <3>1. QED
      BY <1>0, <2>1, Recursion
  <2>3. ASSUME NEW i \in 0 .. Len(text), i # 0 PROVE step[i][f[i - 1]] = AN!Scanned(f[i - 1], i)
    <3>1. i \in 1 .. Len(text) /\ i - 1 \in 0 .. Len(text)
      BY <1>0, <2>3
    <3>2. f[i - 1] \in Scans
      BY <3>1
    <3>3. QED
      BY <3>1, <3>2
  <2>4. Up(f)
    <3> HIDE DEF step, first
    <3>1. QED
      BY <2>2, <2>3 DEF FollowsFrom
  <2>5. QED
    BY <2>4
<1>2. Up(g)
  BY <1>1
<1>3. AN!Markers = g[Len(text)].found
  BY DEF AN!Markers
<1>4. g[0] = first /\ \A i \in 1 .. Len(text) : g[i] = AN!Scanned(g[i - 1], i)
  <2> HIDE DEF first, g
  <2>1. 0 \in 0 .. Len(text) /\ \A i \in 1 .. Len(text) : i \in 0 .. Len(text) /\ i # 0
    BY <1>0
  <2>2. QED
    BY <1>2, <2>1
<1> HIDE DEF g
<1> DEFINE Right(i) ==
             /\ g[i] \in Scans /\ g[i].next = i + 1
             /\ \A j, k \in 1 .. Len(g[i].found) : g[i].found[j] = g[i].found[k] => j = k
             /\ \A n : (\E k \in 1 .. Len(g[i].found) : g[i].found[k] = n) <=> \E j \in 1 .. i : Marked(j, n)
<1>5. Right(0)
  <2>1. g[0].found = <<>> /\ g[0].next = 1 /\ Len(g[0].found) = 0
    BY <1>4
  <2>2. QED
    BY <1>0, <1>4, <2>1
<1>6. ASSUME NEW i \in 1 .. Len(text), Right(i - 1) PROVE Right(i)
  <2> DEFINE was == g[i - 1].found
             is == g[i].found
  <2>1. g[i] = AN!Scanned(g[i - 1], i) /\ g[i - 1] \in Scans /\ g[i - 1].next = i /\ i \in Nat
    BY <1>0, <1>4, <1>6
  <2>2. g[i] \in Scans /\ g[i].next = i + 1 /\ was \in Seq(Nat) /\ is \in Seq(Nat)
    BY <2>1, ScanStep DEF Scans
  <2>3. \/ is = was /\ \A n : Marked(i, n) => \E k \in 1 .. Len(was) : was[k] = n
        \/ \E n \in Nat : /\ Marked(i, n) /\ is = Append(was, n)
                          /\ \A k \in 1 .. Len(was) : was[k] # n
                          /\ \A m : Marked(i, m) => m = n
    <3> DEFINE d == g[i - 1]
    <3>1. d \in Scans /\ d.next = i
      BY <2>1
    <3>2. \/ AN!Scanned(d, i).found = d.found
                    /\ \A n : Marked(i, n) => \E k \in 1 .. Len(d.found) : d.found[k] = n
          \/ \E n \in Nat :
               /\ Marked(i, n) /\ AN!Scanned(d, i).found = Append(d.found, n)
               /\ \A k \in 1 .. Len(d.found) : d.found[k] # n
               /\ \A m : Marked(i, m) => m = n
      <4> HIDE DEF d
      <4>1. QED
        BY <3>1, ScanStep
    <3>3. is = AN!Scanned(d, i).found /\ was = d.found
      BY <2>1
    <3> HIDE DEF d, is, was
    <3>4. QED
      BY <3>2, <3>3
  <2>4. /\ \A j, k \in 1 .. Len(was) : was[j] = was[k] => j = k
        /\ \A n : (\E k \in 1 .. Len(was) : was[k] = n) <=> \E j \in 1 .. i - 1 : Marked(j, n)
    BY <1>6
  <2>5. \A n : (\E j \in 1 .. i : Marked(j, n)) <=> Marked(i, n) \/ \E j \in 1 .. i - 1 : Marked(j, n)
    BY <2>1
  <2> HIDE DEF was, is
  <2>6. CASE is = was /\ \A n : Marked(i, n) => \E k \in 1 .. Len(was) : was[k] = n
    <3>1. /\ \A j, k \in 1 .. Len(is) : is[j] = is[k] => j = k
          /\ \A n : (\E k \in 1 .. Len(is) : is[k] = n) <=> \E j \in 1 .. i : Marked(j, n)
      BY <2>4, <2>5, <2>6
    <3>2. QED
      BY <2>2, <3>1 DEF is
  <2>7. CASE \E n \in Nat : /\ Marked(i, n) /\ is = Append(was, n)
                            /\ \A k \in 1 .. Len(was) : was[k] # n
                            /\ \A m : Marked(i, m) => m = n
    <3>1. PICK n \in Nat : /\ Marked(i, n) /\ is = Append(was, n)
                           /\ \A k \in 1 .. Len(was) : was[k] # n
                           /\ \A m : Marked(i, m) => m = n
      BY <2>7
    <3>2. /\ Len(was) \in Nat /\ Len(is) = Len(was) + 1 /\ is[Len(was) + 1] = n
          /\ \A k \in 1 .. Len(was) : is[k] = was[k]
      BY <2>2, <3>1
    <3>3. ASSUME NEW j \in 1 .. Len(is), NEW k \in 1 .. Len(is), is[j] = is[k] PROVE j = k
      <4>1. CASE j \in 1 .. Len(was) /\ k \in 1 .. Len(was)
        BY <2>4, <3>2, <3>3, <4>1
      <4>2. CASE j = Len(was) + 1 /\ k \in 1 .. Len(was)
        BY <3>1, <3>2, <3>3, <4>2
      <4>3. CASE j \in 1 .. Len(was) /\ k = Len(was) + 1
        BY <3>1, <3>2, <3>3, <4>3
      <4>4. CASE j = Len(was) + 1 /\ k = Len(was) + 1
        BY <4>4
      <4>5. QED
        BY <3>2, <4>1, <4>2, <4>3, <4>4
    <3>4. \A m : (\E k \in 1 .. Len(is) : is[k] = m) <=> m = n \/ \E k \in 1 .. Len(was) : was[k] = m
      BY <3>2
    <3>5. \A m : (\E k \in 1 .. Len(is) : is[k] = m) <=> \E j \in 1 .. i : Marked(j, m)
      BY <2>4, <2>5, <3>1, <3>4
    <3>6. QED
      BY <2>2, <3>3, <3>5 DEF is
  <2>8. QED
    BY <2>3, <2>6, <2>7
<1>7. Right(Len(text))
  <2> DEFINE T == {i \in 0 .. Len(text) : Right(i)}
  <2> HIDE DEF Right
  <2>1. 0 \in T
    BY <1>0, <1>5
  <2>2. \A i \in 1 .. Len(text) : i - 1 \in T => i \in T
    BY <1>0, <1>6
  <2> HIDE DEF T
  <2>3. \A i \in 0 .. Len(text) : i \in T
    BY <1>0, <2>1, <2>2, StepByStep
  <2>4. Len(text) \in T
    BY <1>0, <2>3
  <2>5. QED
    BY <2>4 DEF T
<1>8. QED
  BY <1>3, <1>7 DEF Scans

\* Different numbers are sorted in increasing order.
LEMMA SortedFacts ==
  ASSUME NEW s \in Seq(Nat), \A i, j \in 1 .. Len(s) : s[i] = s[j] => i = j
  PROVE  /\ AN!Sorted(s) \in Seq(Nat) /\ Len(AN!Sorted(s)) = Len(s)
         /\ \A i, j \in 1 .. Len(s) : i < j => AN!Sorted(s)[i] < AN!Sorted(s)[j]
         /\ \A n : (\E i \in 1 .. Len(s) : AN!Sorted(s)[i] = n) <=> (\E i \in 1 .. Len(s) : s[i] = n)
<1> DEFINE D == 1 .. Len(s)
           fits(q) == \A i, j \in D : i < j => s[q[i]] <= s[q[j]]
           p == CHOOSE q \in Bijection(D, D) : fits(q)
<1>1. Len(s) \in Nat /\ DOMAIN s = D /\ s \in [D -> Nat]
  OBVIOUS
<1>2. \E q \in Bijection(D, D) : fits(q)
  BY <1>1, Sortable
<1>3. p \in Bijection(D, D) /\ fits(p)
  BY <1>2
<1>4. AN!Sorted(s) = [i \in D |-> s[p[i]]]
  BY <1>1 DEF AN!Sorted, AN!Bijection, AN!Injection, AN!Surjection, AN!IsInjective, Bijection, Injection, Surjection, IsInjective
<1> HIDE DEF p
<1>5. /\ p \in [D -> D] /\ (\A i, j \in D : p[i] = p[j] => i = j) /\ (\A k \in D : \E i \in D : p[i] = k)
  BY <1>3 DEF Bijection, Injection, Surjection, IsInjective
<1>6. AN!Sorted(s) \in Seq(Nat) /\ Len(AN!Sorted(s)) = Len(s)
  <2>1. [i \in D |-> s[p[i]]] \in [1 .. Len(s) -> Nat]
    BY <1>1, <1>5
  <2>2. \A n \in Nat : \A f \in [1 .. n -> Nat] : f \in Seq(Nat) /\ Len(f) = n
    OBVIOUS
  <2>3. QED
    BY ONLY <1>1, <1>4, <2>1, <2>2
<1>7. ASSUME NEW i \in D, NEW j \in D, i < j PROVE AN!Sorted(s)[i] < AN!Sorted(s)[j]
  <2>0. i # j
    BY <1>1, <1>7
  <2>1. p[i] \in D /\ p[j] \in D /\ p[i] # p[j]
    BY <1>5, <2>0
  <2>2. s[p[i]] <= s[p[j]] /\ s[p[i]] # s[p[j]] /\ s[p[i]] \in Nat /\ s[p[j]] \in Nat
    BY <1>1, <1>3, <1>7, <2>1
  <2>3. QED
    BY <1>4, <2>2
<1>8. ASSUME NEW n PROVE (\E i \in D : AN!Sorted(s)[i] = n) <=> (\E i \in D : s[i] = n)
  <2>1. ASSUME NEW i \in D, AN!Sorted(s)[i] = n PROVE \E k \in D : s[k] = n
    BY <1>4, <1>5, <2>1
  <2>2. ASSUME NEW k \in D, s[k] = n PROVE \E i \in D : AN!Sorted(s)[i] = n
    BY <1>4, <1>5, <2>2
  <2>3. QED
    BY <2>1, <2>2
<1>9. QED
  BY <1>6, <1>7, <1>8

\* The references of an answer are the numbers marked that name a result, in order.
LEMMA RefsRight ==
  ASSUME AN!AnswersAssumption, AnswersTyped
  PROVE  /\ AN!CitationRefs \in Seq(Nat)
         /\ \A i, j \in 1 .. Len(AN!CitationRefs) : i < j => AN!CitationRefs[i] < AN!CitationRefs[j]
         /\ \A n : (\E k \in 1 .. Len(AN!CitationRefs) : AN!CitationRefs[k] = n)
                     <=> n \in 1 .. results /\ \E i \in 1 .. Len(text) : Marked(i, n)
<1> DEFINE t == AN!Sorted(AN!Markers)
           N == Len(t)
           next(x, k) == IF t[k] <= results THEN Append(x, t[k]) ELSE x
           Up(f) == f = [k \in 0 .. N |-> IF k = 0 THEN <<>> ELSE next(f[k - 1], k)]
           step == [k \in 1 .. N |-> [x \in Seq(Nat) |-> next(x, k)]]
           g == CHOOSE f : Up(f)
<1>0. /\ t \in Seq(Nat) /\ N \in Nat /\ results \in Nat /\ Len(text) \in Nat
      /\ \A i, j \in 1 .. N : i < j => t[i] < t[j]
      /\ \A n : (\E i \in 1 .. N : t[i] = n) <=> \E i \in 1 .. Len(text) : Marked(i, n)
  <2> DEFINE m == AN!Markers
  <2>1. /\ m \in Seq(Nat) /\ \A j, k \in 1 .. Len(m) : m[j] = m[k] => j = k
        /\ \A n : (\E k \in 1 .. Len(m) : m[k] = n) <=> \E i \in 1 .. Len(text) : Marked(i, n)
    BY MarkersFound
  <2> HIDE DEF m
  <2>2. /\ AN!Sorted(m) \in Seq(Nat) /\ Len(AN!Sorted(m)) = Len(m)
        /\ \A i, j \in 1 .. Len(m) : i < j => AN!Sorted(m)[i] < AN!Sorted(m)[j]
        /\ \A n : (\E i \in 1 .. Len(m) : AN!Sorted(m)[i] = n) <=> (\E i \in 1 .. Len(m) : m[i] = n)
    BY <2>1, SortedFacts
  <2>3. t = AN!Sorted(m) /\ N = Len(m) /\ Len(m) \in Nat
    BY <2>1, <2>2 DEF m
  <2> HIDE DEF t, N
  <2>4. QED
    BY <2>1, <2>2, <2>3, TextFacts
<1>1. AN!CitationRefs = g[N]
  BY DEF AN!CitationRefs
<1> HIDE DEF t, N
<1>2. \A k \in 1 .. N : t[k] \in Nat
  BY <1>0 DEF N
<1>3. \E f \in [0 .. N -> Seq(Nat)] : Up(f)
  <2>1. step \in [1 .. N -> [Seq(Nat) -> Seq(Nat)]]
    BY <1>2
  <2>2. PICK f \in [0 .. N -> Seq(Nat)] : FollowsFrom(f, <<>>, step, N)
    <3> HIDE DEF step
    <3>1. <<>> \in Seq(Nat)
      OBVIOUS
    <3>2. QED
      BY <1>0, <2>1, <3>1, Recursion
  <2>3. ASSUME NEW k \in 0 .. N, k # 0 PROVE step[k][f[k - 1]] = next(f[k - 1], k)
    <3>1. k \in 1 .. N /\ k - 1 \in 0 .. N
      BY <1>0, <2>3
    <3>2. f[k - 1] \in Seq(Nat)
      BY <3>1
    <3>3. QED
      BY <3>1, <3>2
  <2>4. Up(f)
    <3> HIDE DEF step, next
    <3>1. QED
      BY <2>2, <2>3 DEF FollowsFrom
  <2>5. QED
    BY <2>4
<1>4. Up(g)
  BY <1>3
<1> HIDE DEF g
<1>5. g[0] = <<>> /\ \A k \in 1 .. N : g[k] = next(g[k - 1], k)
  <2> HIDE DEF next
  <2>1. 0 \in 0 .. N /\ \A k \in 1 .. N : k \in 0 .. N /\ k # 0
    BY <1>0
  <2>2. QED
    BY <1>4, <2>1
<1> DEFINE Right(k) ==
             /\ g[k] \in Seq(Nat)
             /\ \A i, j \in 1 .. Len(g[k]) : i < j => g[k][i] < g[k][j]
             /\ \A n : (\E i \in 1 .. Len(g[k]) : g[k][i] = n) <=> n <= results /\ \E i \in 1 .. k : t[i] = n
<1>6. Right(0)
  <2>1. Len(g[0]) = 0 /\ g[0] \in Seq(Nat)
    BY <1>5
  <2>2. QED
    BY <2>1
<1>7. ASSUME NEW k \in 1 .. N, Right(k - 1) PROVE Right(k)
  <2> DEFINE was == g[k - 1]
             is == g[k]
  <2>1. is = (IF t[k] <= results THEN Append(was, t[k]) ELSE was) /\ t[k] \in Nat /\ k \in Nat
    BY <1>0, <1>2, <1>5
  <2>2. /\ was \in Seq(Nat) /\ Len(was) \in Nat
        /\ \A i, j \in 1 .. Len(was) : i < j => was[i] < was[j]
        /\ \A n : (\E i \in 1 .. Len(was) : was[i] = n) <=> n <= results /\ \E i \in 1 .. k - 1 : t[i] = n
    BY <1>7
  <2> HIDE DEF was, is
  <2>3. \A n : (\E i \in 1 .. k : t[i] = n) <=> n = t[k] \/ \E i \in 1 .. k - 1 : t[i] = n
    BY <2>1
  <2>4. CASE ~(t[k] <= results)
    <3>1. is = was
      BY <2>1, <2>4
    <3>2. \A n : n <= results /\ (\E i \in 1 .. k : t[i] = n) <=> n <= results /\ \E i \in 1 .. k - 1 : t[i] = n
      BY <2>3, <2>4
    <3>3. /\ is \in Seq(Nat)
          /\ \A i, j \in 1 .. Len(is) : i < j => is[i] < is[j]
          /\ \A n : (\E i \in 1 .. Len(is) : is[i] = n) <=> n <= results /\ \E i \in 1 .. k : t[i] = n
      BY <2>2, <3>1, <3>2
    <3>4. QED
      BY <3>3 DEF is
  <2>5. CASE t[k] <= results
    <3>1. is = Append(was, t[k])
      BY <2>1, <2>5
    <3>2. /\ is \in Seq(Nat) /\ Len(is) = Len(was) + 1 /\ is[Len(was) + 1] = t[k]
          /\ \A i \in 1 .. Len(was) : is[i] = was[i]
      BY <2>1, <2>2, <3>1
    <3>3. \A i \in 1 .. Len(was) : was[i] < t[k]
      <4> SUFFICES ASSUME NEW i \in 1 .. Len(was) PROVE was[i] < t[k]
        OBVIOUS
      <4>1. PICK j \in 1 .. k - 1 : t[j] = was[i]
        BY <2>2
      <4>2. j \in 1 .. N /\ j < k
        BY <1>0, <2>1, <4>1
      <4>3. t[j] < t[k]
        BY <1>0, <4>2
      <4>4. QED
        BY <4>1, <4>3
    <3>4. ASSUME NEW i \in 1 .. Len(is), NEW j \in 1 .. Len(is), i < j PROVE is[i] < is[j]
      <4>1. i \in 1 .. Len(was) /\ is[i] = was[i]
        BY <2>2, <3>2, <3>4
      <4>2. CASE j \in 1 .. Len(was)
        BY <2>2, <3>2, <3>4, <4>1, <4>2
      <4>3. CASE j = Len(was) + 1
        BY <3>2, <3>3, <4>1, <4>3
      <4>4. QED
        BY <2>2, <3>2, <4>2, <4>3
    <3>5. \A n : (\E i \in 1 .. Len(is) : is[i] = n) <=> n = t[k] \/ \E i \in 1 .. Len(was) : was[i] = n
      <4>1. PICK l \in Nat : l = Len(was)
        BY <2>2, LenProperties
      <4>2. /\ Len(is) = l + 1 /\ is[l + 1] = t[k]
            /\ \A i \in 1 .. l : is[i] = was[i]
        BY <3>2, <4>1
      <4>3. l + 1 \in 1 .. l + 1 /\ \A i \in 1 .. l + 1 : i = l + 1 \/ i \in 1 .. l
        BY ONLY <4>1
      <4>4. \A i \in 1 .. l : i \in 1 .. l + 1
        BY ONLY <4>1
      <4> HIDE DEF is, was
      <4>5. \A n : (\E i \in 1 .. l + 1 : is[i] = n) => n = t[k] \/ \E i \in 1 .. l : was[i] = n
        BY ONLY <4>2, <4>3
      <4>6. \A n : n = t[k] \/ (\E i \in 1 .. l : was[i] = n) => \E i \in 1 .. l + 1 : is[i] = n
        BY ONLY <4>2, <4>3, <4>4
      <4>7. QED
        BY ONLY <4>1, <4>2, <4>5, <4>6
    <3>6. \A n : (\E i \in 1 .. Len(is) : is[i] = n) <=> n <= results /\ \E i \in 1 .. k : t[i] = n
      BY <2>2, <2>3, <2>5, <3>5
    <3>7. QED
      BY <3>2, <3>4, <3>6 DEF is
  <2>6. QED
    BY <2>4, <2>5
<1>8. Right(N)
  <2> DEFINE T == {k \in 0 .. N : Right(k)}
  <2> HIDE DEF Right
  <2>1. 0 \in T
    BY <1>0, <1>6
  <2>2. \A k \in 1 .. N : k - 1 \in T => k \in T
    BY <1>0, <1>7
  <2> HIDE DEF T
  <2>3. \A k \in 0 .. N : k \in T
    BY <1>0, <2>1, <2>2, StepByStep
  <2>4. N \in T
    BY <1>0, <2>3
  <2>5. QED
    BY <2>4 DEF T
<1>9. ASSUME NEW n
      PROVE  n <= results /\ (\E i \in 1 .. N : t[i] = n) <=> n \in 1 .. results /\ \E i \in 1 .. Len(text) : Marked(i, n)
  <2>1. (\E i \in 1 .. N : t[i] = n) => n \in Nat
    BY <1>2
  <2>2. (\E i \in 1 .. Len(text) : Marked(i, n)) => n >= 1
    BY DEF Marked
  <2>3. QED
    BY <1>0, <2>1, <2>2
<1>10. QED
  BY <1>1, <1>8, <1>9

\* A composed answer (compose.rs) refers, once and in order, to exactly the results
\* whose marker is in its text, and one that refers to none is degraded: for every
\* text and any number of results.
THEOREM AnswersCite == ASSUME AN!AnswersAssumption PROVE AN!AnswersSpec => []AN!RefsAreCited
<1> DEFINE I == /\ AnswersTyped
                /\ answer # None /\ answer.status \in {"composed", "degraded"} =>
                     /\ answer.refs = AN!CitationRefs
                     /\ answer.status = "degraded" <=> AN!CitationRefs = <<>>
<1>1. AN!AnswersInit => I
  BY DEF AN!AnswersInit, AnswersTyped
<1>2. I /\ [AN!Compose]_(AN!answerVars) => I'
  <2> SUFFICES ASSUME I, [AN!Compose]_(AN!answerVars) PROVE I'
    OBVIOUS
  <2>1. UNCHANGED <<text, results>>
    BY DEF AN!Compose, AN!answerVars
  <2>2. AN!CitationRefs' = AN!CitationRefs
    <3>1. \A i, e : AN!NumberAt(i, e)' = AN!NumberAt(i, e)
      BY <2>1 DEF AN!NumberAt
    <3>2. \A i : AN!NumberEnd(i)' = AN!NumberEnd(i)
      BY <2>1 DEF AN!NumberEnd, AN!Digits
    <3>3. \A done, i : AN!Scanned(done, i)' = AN!Scanned(done, i)
      BY <2>1, <3>1, <3>2 DEF AN!Scanned, AN!NextPlace, AN!Contains
    <3>4. AN!Markers' = AN!Markers
      BY <2>1, <3>3 DEF AN!Markers
    <3>5. AN!Sorted(AN!Markers)' = AN!Sorted(AN!Markers)
      BY <3>4
    <3>6. QED
      BY <2>1, <3>5 DEF AN!CitationRefs
  <2>3. CASE AN!Compose
    <3>1. \/ answer' = [status |-> "fallback", refs |-> <<>>]
          \/ answer' = [status |-> "failed", refs |-> <<>>]
          \/ answer' = [status |-> IF AN!CitationRefs = <<>> THEN "degraded" ELSE "composed",
                        refs |-> AN!CitationRefs]
      BY <2>3 DEF AN!Compose
    <3> DEFINE refs == AN!CitationRefs
    <3> HIDE DEF refs
    <3>2. answer'.status \in {"composed", "degraded"} =>
            answer'.refs = refs /\ (answer'.status = "degraded" <=> refs = <<>>)
      <4>1. CASE answer' = [status |-> "fallback", refs |-> <<>>] \/ answer' = [status |-> "failed", refs |-> <<>>]
        BY <4>1
      <4>2. CASE answer' = [status |-> IF refs = <<>> THEN "degraded" ELSE "composed", refs |-> refs]
        BY <4>2
      <4>3. QED
        BY <3>1, <4>1, <4>2 DEF refs
    <3>3. QED
      BY <2>1, <2>2, <3>2 DEF AnswersTyped, refs
  <2>4. CASE UNCHANGED AN!answerVars
    BY <2>1, <2>2, <2>4 DEF AN!answerVars, AnswersTyped
  <2>5. QED
    BY <2>3, <2>4
<1>3. I => AN!RefsAreCited
  <2> SUFFICES ASSUME I, answer # None, answer.status \in {"composed", "degraded"}
               PROVE  /\ AN!ToSet(answer.refs) = {n \in 1 .. results : AN!Cites(n)}
                      /\ \A i, j \in DOMAIN answer.refs : i < j => answer.refs[i] < answer.refs[j]
                      /\ answer.status = "degraded" <=> answer.refs = <<>>
    BY DEF AN!RefsAreCited
  <2>1. /\ answer.refs \in Seq(Nat) /\ DOMAIN answer.refs = 1 .. Len(answer.refs)
        /\ answer.status = "degraded" <=> answer.refs = <<>>
        /\ \A i, j \in 1 .. Len(answer.refs) : i < j => answer.refs[i] < answer.refs[j]
        /\ \A n : (\E k \in 1 .. Len(answer.refs) : answer.refs[k] = n)
                     <=> n \in 1 .. results /\ \E i \in 1 .. Len(text) : Marked(i, n)
    <3> DEFINE refs == AN!CitationRefs
    <3>1. /\ refs \in Seq(Nat)
          /\ \A i, j \in 1 .. Len(refs) : i < j => refs[i] < refs[j]
          /\ \A n : (\E k \in 1 .. Len(refs) : refs[k] = n)
                     <=> n \in 1 .. results /\ \E i \in 1 .. Len(text) : Marked(i, n)
      BY RefsRight
    <3>2. answer.refs = refs /\ (answer.status = "degraded" <=> refs = <<>>)
      OBVIOUS
    <3> HIDE DEF refs
    <3>3. DOMAIN refs = 1 .. Len(refs)
      BY <3>1
    <3>4. QED
      BY <3>1, <3>2, <3>3
  <2>2. \A n \in 1 .. results : AN!Cites(n) <=> \E i \in 1 .. Len(text) : Marked(i, n)
    BY CitedIsMarked, TextFacts
  <2>3. AN!ToSet(answer.refs) = {n \in 1 .. results : AN!Cites(n)}
    BY <2>1, <2>2 DEF AN!ToSet
  <2>4. QED
    BY <2>1, <2>3
<1>4. QED
  BY <1>1, <1>2, <1>3, PTL DEF AN!AnswersSpec

------------------------------------------------------------------------------
(* Compaction *)

\* The messages of a session; the summary of a compaction is one too.
Message == [seq : Nat, kind : {"talk", "decision", "summary"}]

\* How many of the last messages a compaction retains.
Recent == MaxBefore \div 2

\* That is a number of messages.
LEMMA RecentMany == ASSUME CM!CompactionAssumption PROVE Recent \in Nat
BY DEF CM!CompactionAssumption, Recent

\* The messages that are no summaries are numbered in their order.
InOrder(ms) ==
  \A i, j \in DOMAIN ms :
    i < j /\ ms[i].kind # "summary" /\ ms[j].kind # "summary" => ms[i].seq < ms[j].seq

\* What is kept of the first k of the session's messages: some of them in their order,
\* all that must be retained, and the last of them as they were.
KeptUpto(r, k) ==
  /\ r \in Seq(Message) /\ InOrder(r)
  /\ \A j \in DOMAIN r : \E i \in 1 .. k : r[j] = messages[i]
  /\ \A i \in 1 .. k : CM!MustRetain(i) => \E j \in DOMAIN r : r[j] = messages[i]
  /\ \A i \in 1 .. k : i > Len(messages) - Recent =>
       Len(r) - (k - i) \in DOMAIN r /\ r[Len(r) - (k - i)] = messages[i]

\* What is kept of a message: itself behind what was kept before, or nothing.
KeptNext(r, k) == IF CM!MustRetain(k) THEN Append(r, messages[k]) ELSE r

\* A message that must be retained is kept behind those before it.
LEMMA KeptStep ==
  ASSUME CM!CompactionAssumption, messages \in Seq(Message), InOrder(messages),
         NEW k \in 1 .. Len(messages), NEW r, KeptUpto(r, k - 1)
  PROVE  KeptUpto(KeptNext(r, k), k)
<1>1. /\ Len(messages) \in Nat /\ DOMAIN messages = 1 .. Len(messages) /\ messages[k] \in Message
      /\ Recent \in Nat
  BY RecentMany
<1>2. /\ r \in Seq(Message) /\ InOrder(r) /\ Len(r) \in Nat /\ DOMAIN r = 1 .. Len(r)
      /\ \A j \in DOMAIN r : \E i \in 1 .. k - 1 : r[j] = messages[i]
      /\ \A i \in 1 .. k - 1 : CM!MustRetain(i) => \E j \in DOMAIN r : r[j] = messages[i]
      /\ \A i \in 1 .. k - 1 : i > Len(messages) - Recent =>
           Len(r) - (k - 1 - i) \in DOMAIN r /\ r[Len(r) - (k - 1 - i)] = messages[i]
  BY DEF KeptUpto
<1>3. CASE ~CM!MustRetain(k)
  <2>1. KeptNext(r, k) = r
    BY <1>3 DEF KeptNext
  <2>2. ~(k > Len(messages) - Recent)
    BY <1>3 DEF CM!MustRetain, Recent
  <2>3. \A i \in 1 .. k : i = k \/ i \in 1 .. k - 1
    BY <1>1
  <2>4. \A i \in 1 .. k : ~(i > Len(messages) - Recent)
    BY <1>1, <2>2
  <2>5. \A i \in 1 .. k : CM!MustRetain(i) => \E j \in DOMAIN r : r[j] = messages[i]
    BY <1>2, <1>3, <2>3
  <2>6. \A j \in DOMAIN r : \E i \in 1 .. k : r[j] = messages[i]
    BY <1>1, <1>2
  <2>7. QED
    BY <1>2, <2>1, <2>4, <2>5, <2>6 DEF KeptUpto
<1>4. CASE CM!MustRetain(k)
  <2>1. PICK e : e = Append(r, messages[k])
    OBVIOUS
  <2>2. /\ e \in Seq(Message) /\ Len(e) = Len(r) + 1 /\ DOMAIN e = 1 .. Len(r) + 1
        /\ e[Len(r) + 1] = messages[k] /\ \A j \in 1 .. Len(r) : e[j] = r[j]
    BY <1>1, <1>2, <2>1
  <2>3. \A j \in 1 .. Len(r) + 1 : j = Len(r) + 1 \/ j \in 1 .. Len(r)
    BY <1>2
  <2>4. \A i \in 1 .. k : i = k \/ i \in 1 .. k - 1
    BY <1>1
  <2>5. InOrder(e)
    <3>1. ASSUME NEW i \in DOMAIN e, NEW j \in DOMAIN e, i < j,
                 e[i].kind # "summary", e[j].kind # "summary"
          PROVE  e[i].seq < e[j].seq
      <4>1. i \in 1 .. Len(r) /\ e[i] = r[i]
        BY <1>2, <2>2, <3>1
      <4>2. CASE j = Len(r) + 1
        <5>1. PICK m \in 1 .. k - 1 : r[i] = messages[m]
          BY <1>2, <4>1
        <5>2. m \in DOMAIN messages /\ k \in DOMAIN messages /\ m < k
          BY <1>1
        <5>3. QED
          BY <2>2, <3>1, <4>1, <4>2, <5>1, <5>2 DEF InOrder
      <4>3. CASE j \in 1 .. Len(r)
        BY <1>2, <2>2, <3>1, <4>1, <4>3 DEF InOrder
      <4>4. QED
        BY <2>2, <2>3, <4>2, <4>3
    <3>2. QED
      BY <3>1 DEF InOrder
  <2>6. \A j \in DOMAIN e : \E i \in 1 .. k : e[j] = messages[i]
    BY <1>1, <1>2, <2>2, <2>3
  <2>7. ASSUME NEW i \in 1 .. k, CM!MustRetain(i) PROVE \E j \in DOMAIN e : e[j] = messages[i]
    <3>1. CASE i = k
      BY <1>2, <2>2, <3>1
    <3>2. CASE i \in 1 .. k - 1
      <4>1. PICK j \in DOMAIN r : r[j] = messages[i]
        BY <1>2, <2>7, <3>2
      <4>2. j \in DOMAIN e /\ e[j] = r[j]
        BY <1>2, <2>2
      <4>3. QED
        BY <4>1, <4>2
    <3>3. QED
      BY <2>4, <3>1, <3>2
  <2>8. ASSUME NEW i \in 1 .. k, i > Len(messages) - Recent
        PROVE  Len(e) - (k - i) \in DOMAIN e /\ e[Len(e) - (k - i)] = messages[i]
    <3>1. CASE i = k
      BY <1>1, <1>2, <2>2, <3>1
    <3>2. CASE i \in 1 .. k - 1
      <4>1. PICK m : m = Len(r) - (k - 1 - i)
        OBVIOUS
      <4>2. m \in 1 .. Len(r) /\ r[m] = messages[i]
        BY <1>2, <2>8, <3>2, <4>1
      <4>3. Len(e) - (k - i) = m
        BY <1>1, <1>2, <2>2, <3>2, <4>1
      <4>4. m \in DOMAIN e /\ e[m] = r[m]
        BY <1>2, <2>2, <4>2
      <4>5. QED
        BY <4>2, <4>3, <4>4
    <3>3. QED
      BY <2>4, <3>1, <3>2
  <2>9. KeptNext(r, k) = e
    BY <1>4, <2>1 DEF KeptNext
  <2>10. QED
    BY <2>2, <2>5, <2>6, <2>7, <2>8, <2>9 DEF KeptUpto
<1>5. QED
  BY <1>3, <1>4

\* Message by message, what a compaction keeps.
KeptStages(f, m) == f = [k \in 0 .. m |-> IF k = 0 THEN <<>> ELSE KeptNext(f[k - 1], k)]

\* The stages exist: the least number of messages for which they did not would have a
\* number before it.
LEMMA KeptStagesExist ==
  ASSUME NEW m \in Nat
  PROVE  \E f : KeptStages(f, m)
<1> DEFINE bad == {n \in Nat : ~\E f : KeptStages(f, n)}
<1>1. SUFFICES ASSUME bad # {} PROVE FALSE
  OBVIOUS
<1>2. PICK n \in bad : \A k \in bad : n <= k
  BY <1>1, Least
<1>3. CASE n = 0
  <2>1. KeptStages([k \in 0 .. 0 |-> <<>>], 0)
    BY DEF KeptStages
  <2>2. QED
    BY <1>3, <2>1
<1>4. CASE n # 0
  <2>1. n - 1 \in Nat /\ n - 1 \notin bad
    BY <1>2, <1>4
  <2>2. PICK f : KeptStages(f, n - 1)
    BY <2>1
  <2> DEFINE g == [k \in 0 .. n |-> IF k = n THEN KeptNext(f[n - 1], n) ELSE f[k]]
  <2>3. \A k \in 0 .. n - 1 : f[k] = IF k = 0 THEN <<>> ELSE KeptNext(f[k - 1], k)
    BY <2>2 DEF KeptStages
  <2>4. \A k \in 0 .. n - 1 : g[k] = f[k]
    BY <2>1
  <2>5. ASSUME NEW k \in 0 .. n
        PROVE  g[k] = IF k = 0 THEN <<>> ELSE KeptNext(g[k - 1], k)
    <3>1. CASE k = n
      <4>1. g[n] = KeptNext(f[n - 1], n) /\ g[n - 1] = f[n - 1]
        BY <2>1, <2>4
      <4>2. QED
        BY <3>1, <4>1, <1>4
    <3>2. CASE k # n /\ k # 0
      <4>1. k \in 0 .. n - 1 /\ k - 1 \in 0 .. n - 1
        BY <3>2
      <4>2. g[k] = f[k] /\ g[k - 1] = f[k - 1]
        BY <2>4, <4>1
      <4>3. f[k] = KeptNext(f[k - 1], k)
        BY <2>3, <3>2, <4>1
      <4>4. QED
        BY <3>2, <4>2, <4>3
    <3>3. CASE k # n /\ k = 0
      <4>1. 0 \in 0 .. n - 1
        BY <2>1
      <4>2. g[0] = f[0] /\ f[0] = <<>>
        BY <2>3, <2>4, <4>1
      <4>3. QED
        BY <3>3, <4>2
    <3>4. QED
      BY <3>1, <3>2, <3>3
  <2>6. g = [k \in 0 .. n |-> g[k]]
    OBVIOUS
  <2> HIDE DEF g
  <2>7. g = [k \in 0 .. n |-> IF k = 0 THEN <<>> ELSE KeptNext(g[k - 1], k)]
    BY <2>5, <2>6, Zenon
  <2>8. KeptStages(g, n)
    BY <2>7 DEF KeptStages
  <2>9. QED
    BY <1>2, <2>8
<1>5. QED
  BY <1>3, <1>4

\* A compaction retains what is kept of all messages.
LEMMA RetainedKept ==
  ASSUME CM!CompactionAssumption, messages \in Seq(Message), InOrder(messages)
  PROVE  KeptUpto(CM!Retained, Len(messages))
<1> DEFINE n == Len(messages)
           f == CHOOSE g : KeptStages(g, n)
<1>1. n \in Nat
  OBVIOUS
<1>2. KeptStages(f, n)
  BY <1>1, KeptStagesExist
<1>3. CM!Retained = f[n]
  BY DEF CM!Retained, KeptStages, KeptNext
<1> HIDE DEF f
<1>4. f[0] = <<>> /\ \A k \in 1 .. n : f[k] = KeptNext(f[k - 1], k)
  BY <1>1, <1>2 DEF KeptStages
<1> DEFINE bad == {k \in 0 .. n : ~KeptUpto(f[k], k)}
<1>5. bad = {}
  <2>1. SUFFICES ASSUME bad # {} PROVE FALSE
    OBVIOUS
  <2>2. bad \subseteq Nat
    OBVIOUS
  <2>3. PICK k \in bad : \A m \in bad : k <= m
    BY <2>1, <2>2, Least
  <2>4. k # 0
    <3>1. KeptUpto(<<>>, 0)
      BY DEF KeptUpto, InOrder
    <3>2. QED
      BY <1>4, <2>3, <3>1
  <2>5. k - 1 \in 0 .. n /\ k - 1 \notin bad /\ k \in 1 .. n
    BY <2>3, <2>4
  <2>6. KeptUpto(f[k - 1], k - 1)
    BY <2>5
  <2>7. KeptUpto(KeptNext(f[k - 1], k), k)
    BY <2>5, <2>6, KeptStep
  <2>8. QED
    BY <1>4, <2>3, <2>5, <2>7
<1>6. QED
  BY <1>1, <1>3, <1>5

\* The inductive invariant: beside what DecisionsKept says, no message has a number
\* that is still to come, and the recent ones are the last, each at its place.
CompactionInv ==
  /\ said \in Seq(CM!Kinds) /\ messages \in Seq(Message) /\ InOrder(messages)
  /\ \A i \in DOMAIN messages : messages[i].kind # "summary" => messages[i].seq <= Len(said)
  /\ \A n \in DOMAIN said : said[n] = "decision" =>
       \E i \in DOMAIN messages : messages[i] = [seq |-> n, kind |-> said[n]]
  /\ \A n \in DOMAIN said : n > Len(said) - Recent =>
       /\ Len(messages) - (Len(said) - n) \in DOMAIN messages
       /\ messages[Len(messages) - (Len(said) - n)] = [seq |-> n, kind |-> said[n]]

\* What is said comes last, with the next number.
LEMMA SaidKept ==
  ASSUME CM!CompactionAssumption, CompactionInv, NEW kind \in CM!Kinds, CM!Say(kind)
  PROVE  CompactionInv'
<1>1. PICK e : e = [seq |-> Len(said) + 1, kind |-> kind]
  OBVIOUS
<1>2. PICK S, M : S = Len(said) /\ M = Len(messages)
  OBVIOUS
<1>3. /\ said \in Seq(CM!Kinds) /\ messages \in Seq(Message) /\ S \in Nat /\ M \in Nat
      /\ DOMAIN said = 1 .. S /\ DOMAIN messages = 1 .. M /\ Recent \in Nat
  BY <1>2, RecentMany DEF CompactionInv
<1>4. e \in Message /\ e.seq = S + 1 /\ e.kind = kind
  BY <1>1, <1>2, <1>3 DEF Message, CM!Kinds
<1>5. /\ said' \in Seq(CM!Kinds) /\ Len(said') = S + 1 /\ DOMAIN said' = 1 .. S + 1
      /\ said'[S + 1] = kind /\ \A n \in 1 .. S : said'[n] = said[n]
  BY <1>2, <1>3 DEF CM!Say
<1>6. messages' = Append(messages, e)
  BY <1>1 DEF CM!Say
<1>7. /\ messages' \in Seq(Message) /\ Len(messages') = M + 1 /\ DOMAIN messages' = 1 .. M + 1
      /\ messages'[M + 1] = e /\ \A i \in 1 .. M : messages'[i] = messages[i]
  BY <1>2, <1>3, <1>4, <1>6
<1>8. /\ \A i \in 1 .. M + 1 : i = M + 1 \/ i \in 1 .. M
      /\ \A n \in 1 .. S + 1 : n = S + 1 \/ n \in 1 .. S
  BY <1>3
<1>9. \A i \in 1 .. M : messages[i].kind # "summary" => messages[i].seq \in Nat /\ messages[i].seq <= S
  <2>1. \A i \in 1 .. M : messages[i] \in Message
    BY <1>3
  <2>2. \A m \in Message : m.seq \in Nat
    BY DEF Message
  <2>3. \A i \in 1 .. M : messages[i].kind # "summary" => messages[i].seq <= S
    BY <1>2, <1>3 DEF CompactionInv
  <2>4. QED
    BY <2>1, <2>2, <2>3
<1>10. \A i \in DOMAIN messages' : messages'[i].kind # "summary" => messages'[i].seq <= Len(said')
  BY <1>3, <1>4, <1>5, <1>7, <1>8, <1>9
<1>11. InOrder(messages')
  <2>1. ASSUME NEW i \in 1 .. M + 1, NEW j \in 1 .. M + 1, i < j,
               messages'[i].kind # "summary", messages'[j].kind # "summary"
        PROVE  messages'[i].seq < messages'[j].seq
    <3>1. i \in 1 .. M /\ messages'[i] = messages[i]
      BY <1>3, <1>7, <2>1
    <3>2. CASE j = M + 1
      BY <1>3, <1>4, <1>7, <1>9, <2>1, <3>1, <3>2
    <3>3. CASE j \in 1 .. M
      BY <1>3, <1>7, <2>1, <3>1, <3>3 DEF CompactionInv, InOrder
    <3>4. QED
      BY <1>8, <3>2, <3>3
  <2>2. QED
    BY <1>7, <2>1 DEF InOrder
<1>12. ASSUME NEW n \in DOMAIN said', said'[n] = "decision"
       PROVE  \E i \in DOMAIN messages' : messages'[i] = [seq |-> n, kind |-> said'[n]]
  <2>1. CASE n = S + 1
    BY <1>1, <1>2, <1>3, <1>5, <1>7, <2>1
  <2>2. CASE n \in 1 .. S
    <3>1. PICK i \in 1 .. M : messages[i] = [seq |-> n, kind |-> said[n]]
      BY <1>3, <1>5, <1>12, <2>2 DEF CompactionInv
    <3>2. i \in DOMAIN messages' /\ messages'[i] = messages[i] /\ said'[n] = said[n]
      BY <1>3, <1>5, <1>7, <2>2
    <3>3. QED
      BY <3>1, <3>2
  <2>3. QED
    BY <1>5, <1>8, <2>1, <2>2
<1>13. ASSUME NEW n \in DOMAIN said', n > Len(said') - Recent
       PROVE  /\ Len(messages') - (Len(said') - n) \in DOMAIN messages'
              /\ messages'[Len(messages') - (Len(said') - n)] = [seq |-> n, kind |-> said'[n]]
  <2>1. CASE n = S + 1
    BY <1>1, <1>2, <1>3, <1>5, <1>7, <2>1
  <2>2. CASE n \in 1 .. S
    <3>1. M - (S - n) \in 1 .. M /\ messages[M - (S - n)] = [seq |-> n, kind |-> said[n]]
      BY <1>2, <1>3, <1>5, <1>13, <2>2 DEF CompactionInv
    <3>2. Len(messages') - (Len(said') - n) = M - (S - n)
      BY <1>3, <1>5, <1>7, <2>2
    <3>3. messages'[M - (S - n)] = messages[M - (S - n)] /\ said'[n] = said[n]
      BY <1>5, <1>7, <2>2, <3>1
    <3>4. M - (S - n) \in DOMAIN messages'
      BY <1>3, <1>7, <3>1
    <3>5. QED
      BY <3>1, <3>2, <3>3, <3>4
  <2>3. QED
    BY <1>5, <1>8, <2>1, <2>2
<1>14. QED
  BY <1>5, <1>7, <1>10, <1>11, <1>12, <1>13 DEF CompactionInv

\* A compaction puts a summary before what it retains.
LEMMA CompactedKept ==
  ASSUME CM!CompactionAssumption, CompactionInv, CM!Compact
  PROVE  CompactionInv'
<1>1. PICK r : r = CM!Retained
  OBVIOUS
<1>2. PICK S, M, R : S = Len(said) /\ M = Len(messages) /\ R = Len(r)
  OBVIOUS
<1>3. KeptUpto(r, M)
  BY <1>1, <1>2, RetainedKept DEF CompactionInv
<1>4. PICK s : s = [seq |-> 1, kind |-> "summary"]
  OBVIOUS
<1>5. s \in Message /\ s.kind = "summary"
  BY <1>4 DEF Message
<1>6. /\ said \in Seq(CM!Kinds) /\ messages \in Seq(Message) /\ S \in Nat /\ M \in Nat
      /\ DOMAIN said = 1 .. S /\ DOMAIN messages = 1 .. M /\ Recent \in Nat
      /\ r \in Seq(Message) /\ R \in Nat /\ DOMAIN r = 1 .. R
  BY <1>2, <1>3, RecentMany DEF CompactionInv, KeptUpto
<1>7. messages' = <<s>> \o r /\ said' = said
  BY <1>1, <1>4 DEF CM!Compact
<1>8. /\ messages' \in Seq(Message) /\ Len(messages') = R + 1 /\ DOMAIN messages' = 1 .. R + 1
      /\ messages'[1] = s /\ \A j \in 1 .. R : messages'[j + 1] = r[j]
  BY <1>2, <1>5, <1>6, <1>7
<1>9. \A i \in 1 .. R + 1 : i = 1 \/ (i - 1 \in 1 .. R /\ messages'[i] = r[i - 1])
  <2>1. ASSUME NEW i \in 1 .. R + 1, i # 1 PROVE i - 1 \in 1 .. R /\ messages'[i] = r[i - 1]
    <3>1. i - 1 \in 1 .. R /\ (i - 1) + 1 = i
      BY <1>6, <2>1
    <3>2. QED
      BY <1>8, <3>1
  <2>2. QED
    BY <2>1
<1>10. ASSUME NEW i \in DOMAIN messages', messages'[i].kind # "summary"
       PROVE  i - 1 \in 1 .. R /\ messages'[i] = r[i - 1]
  BY <1>5, <1>8, <1>9, <1>10
<1>11. ASSUME NEW i \in DOMAIN messages', messages'[i].kind # "summary"
       PROVE  messages'[i].seq <= Len(said')
  <2>1. PICK k \in 1 .. M : r[i - 1] = messages[k]
    BY <1>3, <1>6, <1>10, <1>11 DEF KeptUpto
  <2>2. QED
    BY <1>6, <1>7, <1>10, <1>11, <2>1 DEF CompactionInv
<1>12. InOrder(messages')
  <2>1. ASSUME NEW i \in DOMAIN messages', NEW j \in DOMAIN messages', i < j,
               messages'[i].kind # "summary", messages'[j].kind # "summary"
        PROVE  messages'[i].seq < messages'[j].seq
    <3>1. /\ i - 1 \in 1 .. R /\ messages'[i] = r[i - 1]
          /\ j - 1 \in 1 .. R /\ messages'[j] = r[j - 1] /\ i - 1 < j - 1
      BY <1>8, <1>10, <2>1
    <3>2. QED
      BY <1>3, <1>6, <2>1, <3>1 DEF KeptUpto, InOrder
  <2>2. QED
    BY <2>1 DEF InOrder
<1>13. ASSUME NEW n \in 1 .. S, said[n] = "decision"
       PROVE  \E i \in DOMAIN messages' : messages'[i] = [seq |-> n, kind |-> said[n]]
  <2>1. PICK k \in 1 .. M : messages[k] = [seq |-> n, kind |-> said[n]]
    BY <1>6, <1>13 DEF CompactionInv
  <2>2. messages[k].kind = "decision"
    BY <1>13, <2>1
  <2>3. PICK j \in 1 .. R : r[j] = messages[k]
    BY <1>3, <1>6, <2>2 DEF KeptUpto, CM!MustRetain
  <2>4. j + 1 \in DOMAIN messages' /\ messages'[j + 1] = r[j]
    BY <1>6, <1>8
  <2>5. QED
    BY <2>1, <2>3, <2>4
<1>14. ASSUME NEW n \in 1 .. S, n > S - Recent
       PROVE  /\ Len(messages') - (S - n) \in DOMAIN messages'
              /\ messages'[Len(messages') - (S - n)] = [seq |-> n, kind |-> said[n]]
  <2>1. PICK k : k = M - (S - n)
    OBVIOUS
  <2>2. k \in 1 .. M /\ messages[k] = [seq |-> n, kind |-> said[n]]
    BY <1>2, <1>6, <1>14, <2>1 DEF CompactionInv
  <2>3. k > M - Recent /\ M - k = S - n
    BY <1>6, <1>14, <2>1
  <2>4. R - (M - k) \in 1 .. R /\ r[R - (M - k)] = messages[k]
    BY <1>2, <1>3, <1>6, <2>2, <2>3 DEF KeptUpto
  <2>5. PICK j : j = R - (M - k)
    OBVIOUS
  <2>6. j \in 1 .. R /\ Len(messages') - (S - n) = j + 1
    BY <1>6, <1>8, <2>3, <2>4, <2>5
  <2>7. j + 1 \in DOMAIN messages' /\ messages'[j + 1] = r[j]
    BY <1>6, <1>8, <2>6
  <2>8. QED
    BY <2>2, <2>4, <2>5, <2>6, <2>7
<1>15. QED
  <2>1. Len(said') = S /\ DOMAIN said' = 1 .. S
    BY <1>2, <1>6, <1>7
  <2>2. QED
    BY <1>6, <1>7, <1>8, <1>11, <1>12, <1>13, <1>14, <2>1 DEF CompactionInv

\* However often a session is compacted, its decisions and its most recent messages
\* stay in it word for word and in their order, for any thresholds and any number of
\* messages and compactions, whether the ledger takes the record of them or not.
THEOREM DecisionsSurvive ==
  ASSUME CM!CompactionAssumption
  PROVE  CM!CompactionSpec => []CM!DecisionsKept
<1>1. CM!CompactionInit => CompactionInv
  BY DEF CM!CompactionInit, CompactionInv, InOrder
<1>2. CompactionInv /\ [CM!CompactionNext]_(CM!sessionVars) => CompactionInv'
  <2> SUFFICES ASSUME CompactionInv, [CM!CompactionNext]_(CM!sessionVars) PROVE CompactionInv'
    OBVIOUS
  <2>1. CASE UNCHANGED CM!sessionVars \/ CM!WriteCompactionToWal
    BY <2>1 DEF CM!sessionVars, CM!WriteCompactionToWal, CompactionInv, InOrder
  <2>2. ASSUME NEW kind \in CM!Kinds, CM!Say(kind) PROVE CompactionInv'
    BY <2>2, SaidKept
  <2>3. CASE CM!Compact
    BY <2>3, CompactedKept
  <2>4. QED
    BY <2>1, <2>2, <2>3 DEF CM!CompactionNext
<1>3. CompactionInv => CM!DecisionsKept
  <2>1. SUFFICES ASSUME CompactionInv PROVE CM!DecisionsKept
    OBVIOUS
  <2>2. PICK Own : Own = {i \in DOMAIN messages : messages[i].kind # "summary"}
    OBVIOUS
  <2>3. \A i, j \in Own : i < j => messages[i].seq < messages[j].seq
    BY <2>1, <2>2 DEF CompactionInv, InOrder
  <2>4. ASSUME NEW n \in DOMAIN said, said[n] = "decision" \/ n > Len(said) - Recent
        PROVE  \E i \in Own : messages[i] = [seq |-> n, kind |-> said[n]]
    <3>1. PICK i \in DOMAIN messages : messages[i] = [seq |-> n, kind |-> said[n]]
      BY <2>1, <2>4 DEF CompactionInv
    <3>2. said[n] # "summary"
      BY <2>1 DEF CompactionInv, CM!Kinds
    <3>3. messages[i].kind = said[n]
      BY <3>1
    <3>4. QED
      BY <2>2, <3>1, <3>2, <3>3
  <2>5. QED
    BY <2>2, <2>3, <2>4 DEF CM!DecisionsKept, Recent
<1>4. QED
  BY <1>1, <1>2, <1>3, PTL DEF CM!CompactionSpec

------------------------------------------------------------------------------
(* Words and edits *)

\* Sequences one after the other, and one with an element more; what the proofs use of
\* them is in the lemmas that follow.
Cat(u, v) == u \o v
Snoc(u, x) == Append(u, x)

\* They are words again, of the length that one expects.
LEMMA WordTypes ==
  ASSUME NEW S, NEW u \in Seq(S), NEW v \in Seq(S), NEW x \in S
  PROVE  /\ Cat(u, v) \in Seq(S) /\ Len(Cat(u, v)) = Len(u) + Len(v)
         /\ Snoc(u, x) \in Seq(S) /\ Len(Snoc(u, x)) = Len(u) + 1
BY ConcatProperties, AppendProperties DEF Cat, Snoc

\* A word is empty or has a last letter.
LEMMA WordCases ==
  ASSUME NEW S, NEW u \in Seq(S)
  PROVE  u = <<>> \/ \E r \in Seq(S), z \in S : u = Snoc(r, z)
BY SequenceEmptyOrAppend DEF Snoc

\* What is before the last letter, and that letter, are known.
LEMMA SnocInjective ==
  ASSUME NEW S, NEW u \in Seq(S), NEW v \in Seq(S), NEW x \in S, NEW y \in S,
         Snoc(u, x) = Snoc(v, y)
  PROVE  u = v /\ x = y
<1>1. Append(u, x) = Append(v, y)
  BY DEF Snoc
<1>2. Len(u) = Len(v)
  BY <1>1, AppendProperties
<1>3. x = y
  BY <1>1, <1>2, AppendProperties
<1>4. \A k \in 1 .. Len(u) : u[k] = v[k]
  BY <1>1, <1>2, AppendProperties
<1>5. QED
  BY <1>2, <1>3, <1>4, SeqEqual

\* No word with a letter is empty.
LEMMA SnocIsSome ==
  ASSUME NEW S, NEW u \in Seq(S), NEW x \in S
  PROVE  Snoc(u, x) # <<>>
BY AppendProperties DEF Snoc

\* The last letter of the second is the last of both.
LEMMA CatSnoc ==
  ASSUME NEW S, NEW u \in Seq(S), NEW v \in Seq(S), NEW x \in S
  PROVE  Cat(u, Snoc(v, x)) = Snoc(Cat(u, v), x)
<1>1. <<x>> \in Seq(S)
  OBVIOUS
<1>2. u \o (v \o <<x>>) = (u \o v) \o <<x>> /\ u \o v \in Seq(S)
  BY <1>1, ConcatAssociative, ConcatProperties
<1>3. Append(v, x) = v \o <<x>> /\ Append(u \o v, x) = (u \o v) \o <<x>>
  BY <1>2, AppendIsConcat
<1>4. QED
  BY <1>2, <1>3 DEF Cat, Snoc

\* Nothing after it.
LEMMA CatEmpty ==
  ASSUME NEW S, NEW u \in Seq(S)
  PROVE  Cat(u, <<>>) = u /\ <<>> \in Seq(S) /\ Len(<<>>) = 0
BY ConcatEmptySeq DEF Cat

\* One edit at most: a letter fewer, a letter more, or another letter.
Fewer(S, u, v) == \E p, q \in Seq(S), x \in S : u = Cat(Snoc(p, x), q) /\ v = Cat(p, q)
More(S, u, v) == \E p, q \in Seq(S), x \in S : u = Cat(p, q) /\ v = Cat(Snoc(p, x), q)
Other(S, u, v) ==
  \E p, q \in Seq(S), x, y \in S : u = Cat(Snoc(p, x), q) /\ v = Cat(Snoc(p, y), q)
Edit(S, u, v) == u = v \/ Fewer(S, u, v) \/ More(S, u, v) \/ Other(S, u, v)

\* Edits at the end of a word.
LEMMA EditsAtEnd ==
  ASSUME NEW S, NEW u \in Seq(S), NEW x \in S, NEW y \in S
  PROVE  Edit(S, Snoc(u, x), u) /\ Edit(S, u, Snoc(u, x)) /\ Edit(S, Snoc(u, x), Snoc(u, y))
<1>1. /\ Cat(Snoc(u, x), <<>>) = Snoc(u, x) /\ Cat(Snoc(u, y), <<>>) = Snoc(u, y)
      /\ Cat(u, <<>>) = u /\ <<>> \in Seq(S)
  BY WordTypes, CatEmpty
<1>2. QED
  BY ONLY <1>1, u \in Seq(S), x \in S, y \in S, Zenon DEF Edit, Fewer, More, Other

\* The same letter after both changes nothing.
LEMMA EditBefore ==
  ASSUME NEW S, NEW u \in Seq(S), NEW v \in Seq(S), NEW z \in S, Edit(S, u, v)
  PROVE  Edit(S, Snoc(u, z), Snoc(v, z))
<1>1. ASSUME NEW p \in Seq(S), NEW q \in Seq(S), NEW x \in S
      PROVE  /\ Snoc(q, z) \in Seq(S)
             /\ Snoc(Cat(p, q), z) = Cat(p, Snoc(q, z))
             /\ Snoc(Cat(Snoc(p, x), q), z) = Cat(Snoc(p, x), Snoc(q, z))
  <2>1. Snoc(q, z) \in Seq(S) /\ Snoc(p, x) \in Seq(S)
    BY WordTypes
  <2>2. QED
    BY <2>1, CatSnoc
<1>2. CASE u = v
  BY <1>2 DEF Edit
<1>3. CASE Fewer(S, u, v)
  <2>1. PICK p \in Seq(S), q \in Seq(S), x \in S : u = Cat(Snoc(p, x), q) /\ v = Cat(p, q)
    BY <1>3 DEF Fewer
  <2>2. Fewer(S, Snoc(u, z), Snoc(v, z))
    BY <2>1, <1>1 DEF Fewer
  <2>3. QED
    BY <2>2 DEF Edit
<1>4. CASE More(S, u, v)
  <2>1. PICK p \in Seq(S), q \in Seq(S), x \in S : u = Cat(p, q) /\ v = Cat(Snoc(p, x), q)
    BY <1>4 DEF More
  <2>2. More(S, Snoc(u, z), Snoc(v, z))
    BY <2>1, <1>1 DEF More
  <2>3. QED
    BY <2>2 DEF Edit
<1>5. CASE Other(S, u, v)
  <2>1. PICK p \in Seq(S), q \in Seq(S), x \in S, y \in S :
          u = Cat(Snoc(p, x), q) /\ v = Cat(Snoc(p, y), q)
    BY <1>5 DEF Other
  <2>2. /\ Snoc(q, z) \in Seq(S)
        /\ Snoc(u, z) = Cat(Snoc(p, x), Snoc(q, z)) /\ Snoc(v, z) = Cat(Snoc(p, y), Snoc(q, z))
    BY <2>1, <1>1
  <2>3. Other(S, Snoc(u, z), Snoc(v, z))
    BY <2>2 DEF Other
  <2>4. QED
    BY <2>3 DEF Edit
<1>6. QED
  BY <1>2, <1>3, <1>4, <1>5 DEF Edit

\* Where the last letter of two words, one after the other, is.
LEMMA LastOfCat ==
  ASSUME NEW S, NEW u \in Seq(S), NEW q \in Seq(S), NEW v \in Seq(S), NEW y \in S,
         Snoc(v, y) = Cat(u, q)
  PROVE  \/ q = <<>> /\ u = Snoc(v, y)
         \/ \E r \in Seq(S) : q = Snoc(r, y) /\ v = Cat(u, r)
<1>1. CASE q = <<>>
  BY <1>1, CatEmpty
<1>2. CASE \E r \in Seq(S), z \in S : q = Snoc(r, z)
  <2>1. PICK r \in Seq(S), z \in S : q = Snoc(r, z)
    BY <1>2
  <2>2. Snoc(v, y) = Snoc(Cat(u, r), z) /\ Cat(u, r) \in Seq(S)
    BY <2>1, CatSnoc, WordTypes
  <2>3. y = z /\ v = Cat(u, r)
    BY <2>2, SnocInjective
  <2>4. QED
    BY <2>1, <2>3
<1>3. QED
  BY <1>1, <1>2, WordCases

\* What an edit that ends in a letter does: it is before that letter, or is that letter.
LEMMA EditSplit ==
  ASSUME NEW S, NEW w \in Seq(S), NEW v \in Seq(S), NEW y \in S, Edit(S, w, Snoc(v, y))
  PROVE  \/ \E r \in Seq(S) : w = Snoc(r, y) /\ Edit(S, r, v)
         \/ \E z \in S : w = Snoc(v, z)
         \/ w = v
         \/ \E z \in S : w = Snoc(Snoc(v, y), z)
<1>2. CASE w = Snoc(v, y)
  BY <1>2
<1>3. CASE Fewer(S, w, Snoc(v, y))
  <2>1. PICK p \in Seq(S), q \in Seq(S), x \in S :
          w = Cat(Snoc(p, x), q) /\ Snoc(v, y) = Cat(p, q)
    BY <1>3 DEF Fewer
  <2>2. Snoc(p, x) \in Seq(S) /\ p \in Seq(S)
    BY WordTypes
  <2>3. CASE q = <<>> /\ p = Snoc(v, y)
    <3>1. w = Snoc(p, x)
      BY <2>1, <2>2, <2>3, CatEmpty
    <3>2. QED
      BY <3>1, <2>3, SnocInjective
  <2>4. CASE \E r \in Seq(S) : q = Snoc(r, y) /\ v = Cat(p, r)
    <3>1. PICK r \in Seq(S) : q = Snoc(r, y) /\ v = Cat(p, r)
      BY <2>4
    <3>2. w = Snoc(Cat(Snoc(p, x), r), y) /\ Cat(Snoc(p, x), r) \in Seq(S)
      BY <2>1, <2>2, <3>1, CatSnoc, WordTypes
    <3>3. Fewer(S, Cat(Snoc(p, x), r), v)
      BY <3>1 DEF Fewer
    <3>4. QED
      BY <3>2, <3>3 DEF Edit
  <2>5. QED
    BY <2>1, <2>2, <2>3, <2>4, LastOfCat
<1>4. CASE More(S, w, Snoc(v, y))
  <2>1. PICK p \in Seq(S), q \in Seq(S), x \in S :
          w = Cat(p, q) /\ Snoc(v, y) = Cat(Snoc(p, x), q)
    BY <1>4 DEF More
  <2>2. p \in Seq(S) /\ Snoc(p, x) \in Seq(S)
    BY WordTypes
  <2>3. CASE q = <<>> /\ Snoc(p, x) = Snoc(v, y)
    <3>1. w = p
      BY <2>1, <2>2, <2>3, CatEmpty
    <3>2. QED
      BY <3>1, <2>3, SnocInjective
  <2>4. CASE \E r \in Seq(S) : q = Snoc(r, y) /\ v = Cat(Snoc(p, x), r)
    <3>1. PICK r \in Seq(S) : q = Snoc(r, y) /\ v = Cat(Snoc(p, x), r)
      BY <2>4
    <3>2. w = Snoc(Cat(p, r), y) /\ Cat(p, r) \in Seq(S)
      BY <2>1, <2>2, <3>1, CatSnoc, WordTypes
    <3>3. More(S, Cat(p, r), v)
      BY <3>1 DEF More
    <3>4. QED
      BY <3>2, <3>3 DEF Edit
  <2>5. QED
    BY <2>1, <2>2, <2>3, <2>4, LastOfCat
<1>5. CASE Other(S, w, Snoc(v, y))
  <2>1. PICK p \in Seq(S), q \in Seq(S), x \in S, z \in S :
          w = Cat(Snoc(p, x), q) /\ Snoc(v, y) = Cat(Snoc(p, z), q)
    BY <1>5 DEF Other
  <2>2. Snoc(p, x) \in Seq(S) /\ Snoc(p, z) \in Seq(S)
    BY WordTypes
  <2>3. CASE q = <<>> /\ Snoc(p, z) = Snoc(v, y)
    <3>1. w = Snoc(p, x)
      BY <2>1, <2>2, <2>3, CatEmpty
    <3>2. QED
      BY <3>1, <2>3, SnocInjective
  <2>4. CASE \E r \in Seq(S) : q = Snoc(r, y) /\ v = Cat(Snoc(p, z), r)
    <3>1. PICK r \in Seq(S) : q = Snoc(r, y) /\ v = Cat(Snoc(p, z), r)
      BY <2>4
    <3>2. w = Snoc(Cat(Snoc(p, x), r), y) /\ Cat(Snoc(p, x), r) \in Seq(S)
      BY <2>1, <2>2, <3>1, CatSnoc, WordTypes
    <3>3. Other(S, Cat(Snoc(p, x), r), v)
      BY <3>1 DEF Other
    <3>4. QED
      BY <3>2, <3>3 DEF Edit
  <2>5. QED
    BY <2>1, <2>2, <2>3, <2>4, LastOfCat
<1>6. QED
  BY <1>2, <1>3, <1>4, <1>5 DEF Edit

\* An edit changes the length by one at most.
LEMMA EditLength ==
  ASSUME NEW S, NEW u \in Seq(S), NEW v \in Seq(S), Edit(S, u, v)
  PROVE  Len(u) <= Len(v) + 1 /\ Len(v) <= Len(u) + 1
<1>1. ASSUME NEW p \in Seq(S), NEW q \in Seq(S), NEW x \in S
      PROVE  /\ Len(p) \in Nat /\ Len(q) \in Nat
             /\ Len(Cat(p, q)) = Len(p) + Len(q)
             /\ Len(Cat(Snoc(p, x), q)) = Len(p) + 1 + Len(q)
  <2>1. Snoc(p, x) \in Seq(S) /\ Len(Snoc(p, x)) = Len(p) + 1
    BY WordTypes
  <2>2. Len(p) \in Nat /\ Len(q) \in Nat
    BY LenProperties
  <2>3. Len(Cat(p, q)) = Len(p) + Len(q)
    BY WordTypes
  <2>4. Len(Cat(Snoc(p, x), q)) = Len(Snoc(p, x)) + Len(q)
    <3>1. PICK r \in Seq(S) : r = Snoc(p, x)
      BY <2>1
    <3>2. Len(Cat(r, q)) = Len(r) + Len(q)
      BY WordTypes
    <3>3. QED
      BY <3>1, <3>2
  <2>5. QED
    BY ONLY <2>1, <2>2, <2>3, <2>4
<1>2. CASE u = v
  BY <1>2, LenProperties
<1>3. CASE Fewer(S, u, v)
  <2>1. PICK p \in Seq(S), q \in Seq(S), x \in S : u = Cat(Snoc(p, x), q) /\ v = Cat(p, q)
    BY <1>3 DEF Fewer
  <2>2. Len(p) \in Nat /\ Len(q) \in Nat /\ Len(u) = Len(p) + 1 + Len(q) /\ Len(v) = Len(p) + Len(q)
    BY <2>1, <1>1
  <2>3. QED
    BY ONLY <2>2
<1>4. CASE More(S, u, v)
  <2>1. PICK p \in Seq(S), q \in Seq(S), x \in S : u = Cat(p, q) /\ v = Cat(Snoc(p, x), q)
    BY <1>4 DEF More
  <2>2. Len(p) \in Nat /\ Len(q) \in Nat /\ Len(u) = Len(p) + Len(q) /\ Len(v) = Len(p) + 1 + Len(q)
    BY <2>1, <1>1
  <2>3. QED
    BY ONLY <2>2
<1>5. CASE Other(S, u, v)
  <2>1. PICK p \in Seq(S), q \in Seq(S), x \in S, y \in S : u = Cat(Snoc(p, x), q) /\ v = Cat(Snoc(p, y), q)
    BY <1>5 DEF Other
  <2>2. Len(p) \in Nat /\ Len(q) \in Nat /\ Len(u) = Len(p) + 1 + Len(q) /\ Len(v) = Len(p) + 1 + Len(q)
    BY <2>1, <1>1
  <2>3. QED
    BY ONLY <2>2
<1>6. QED
  BY <1>2, <1>3, <1>4, <1>5 DEF Edit

------------------------------------------------------------------------------
(* So many edits *)

\* A way of k edits from one word to another.
IsWay(S, k, f) == f \in [0 .. k -> Seq(S)] /\ \A i \in 1 .. k : Edit(S, f[i - 1], f[i])
Near(S, k, u, v) == \E f : IsWay(S, k, f) /\ f[0] = u /\ f[k] = v

\* No edit.
LEMMA NearZero ==
  ASSUME NEW S, NEW u \in Seq(S), NEW v \in Seq(S)
  PROVE  Near(S, 0, u, v) <=> u = v
<1>1. IsWay(S, 0, [i \in 0 .. 0 |-> u]) /\ [i \in 0 .. 0 |-> u][0] = u
  BY DEF IsWay
<1>2. QED
  BY <1>1 DEF Near

\* The last edit.
LEMMA NearLast ==
  ASSUME NEW S, NEW k \in Nat, NEW u \in Seq(S), NEW v \in Seq(S)
  PROVE  Near(S, k + 1, u, v) <=> \E w \in Seq(S) : Near(S, k, u, w) /\ Edit(S, w, v)
<1>1. ASSUME Near(S, k + 1, u, v) PROVE \E w \in Seq(S) : Near(S, k, u, w) /\ Edit(S, w, v)
  <2>1. PICK f : IsWay(S, k + 1, f) /\ f[0] = u /\ f[k + 1] = v
    BY <1>1 DEF Near
  <2> DEFINE g == [i \in 0 .. k |-> f[i]]
  <2>2. /\ f \in [0 .. k + 1 -> Seq(S)]
        /\ \A i \in 1 .. k + 1 : Edit(S, f[i - 1], f[i])
    BY <2>1 DEF IsWay
  <2>3. g \in [0 .. k -> Seq(S)] /\ g[0] = f[0] /\ g[k] = f[k] /\ f[k] \in Seq(S)
    BY <2>2
  <2>4. ASSUME NEW i \in 1 .. k PROVE Edit(S, g[i - 1], g[i])
    <3>1. i \in 1 .. k + 1 /\ g[i] = f[i] /\ g[i - 1] = f[i - 1]
      OBVIOUS
    <3>2. QED
      BY <2>2, <3>1
  <2>5. Edit(S, f[k], f[k + 1])
    <3>1. k + 1 \in 1 .. k + 1 /\ (k + 1) - 1 = k
      OBVIOUS
    <3>2. QED
      BY <2>2, <3>1
  <2>6. IsWay(S, k, g)
    BY <2>3, <2>4 DEF IsWay
  <2> HIDE DEF g
  <2>7. Near(S, k, u, f[k])
    BY <2>1, <2>3, <2>6 DEF Near
  <2>8. QED
    BY <2>1, <2>3, <2>5, <2>7
<1>2. ASSUME NEW w \in Seq(S), Near(S, k, u, w), Edit(S, w, v) PROVE Near(S, k + 1, u, v)
  <2>1. PICK f : IsWay(S, k, f) /\ f[0] = u /\ f[k] = w
    BY <1>2 DEF Near
  <2> DEFINE g == [i \in 0 .. k + 1 |-> IF i = k + 1 THEN v ELSE f[i]]
  <2>2. f \in [0 .. k -> Seq(S)] /\ \A i \in 1 .. k : Edit(S, f[i - 1], f[i])
    BY <2>1 DEF IsWay
  <2>3. g[0] = f[0] /\ g[k] = f[k] /\ g[k + 1] = v
    OBVIOUS
  <2>4. g \in [0 .. k + 1 -> Seq(S)]
    <3>1. \A i \in 0 .. k + 1 : i # k + 1 => i \in 0 .. k
      OBVIOUS
    <3>2. QED
      BY <2>2, <3>1
  <2>5. ASSUME NEW i \in 1 .. k + 1 PROVE Edit(S, g[i - 1], g[i])
    <3>1. CASE i = k + 1
      <4>1. i - 1 = k
        BY <3>1
      <4>2. QED
        BY <1>2, <2>1, <2>3, <3>1, <4>1
    <3>2. CASE i # k + 1
      <4>1. i \in 1 .. k /\ g[i] = f[i] /\ g[i - 1] = f[i - 1]
        BY <3>2
      <4>2. QED
        BY <2>2, <4>1
    <3>3. QED
      BY <3>1, <3>2
  <2>6. IsWay(S, k + 1, g)
    BY <2>4, <2>5 DEF IsWay
  <2> HIDE DEF g
  <2>7. QED
    BY <2>1, <2>3, <2>6 DEF Near
<1>3. QED
  BY <1>1, <1>2

\* The first edit.
LEMMA NearFirst ==
  ASSUME NEW S, NEW k \in Nat, NEW u \in Seq(S), NEW w \in Seq(S), NEW v \in Seq(S),
         Edit(S, u, w), Near(S, k, w, v)
  PROVE  Near(S, k + 1, u, v)
<1>1. PICK f : IsWay(S, k, f) /\ f[0] = w /\ f[k] = v
  BY DEF Near
<1> DEFINE g == [i \in 0 .. k + 1 |-> IF i = 0 THEN u ELSE f[i - 1]]
<1>2. f \in [0 .. k -> Seq(S)] /\ \A i \in 1 .. k : Edit(S, f[i - 1], f[i])
  BY <1>1 DEF IsWay
<1>3. g[0] = u /\ g[1] = f[0] /\ g[k + 1] = f[k]
  <2>1. 1 \in 0 .. k + 1 /\ k + 1 \in 0 .. k + 1 /\ k + 1 # 0 /\ (k + 1) - 1 = k /\ 1 - 1 = 0
    OBVIOUS
  <2>2. QED
    BY <2>1
<1>4. g \in [0 .. k + 1 -> Seq(S)]
  <2>1. \A i \in 0 .. k + 1 : i # 0 => i - 1 \in 0 .. k
    OBVIOUS
  <2>2. QED
    BY <1>2, <2>1
<1>5. ASSUME NEW i \in 1 .. k + 1 PROVE Edit(S, g[i - 1], g[i])
  <2>1. CASE i = 1
    BY <1>1, <1>3, <2>1
  <2>2. CASE i # 1
    <3>1. i - 1 \in 1 .. k /\ g[i] = f[i - 1] /\ g[i - 1] = f[(i - 1) - 1]
      BY <2>2
    <3>2. QED
      BY <1>2, <3>1
  <2>3. QED
    BY <2>1, <2>2
<1>6. IsWay(S, k + 1, g)
  BY <1>4, <1>5 DEF IsWay
<1> HIDE DEF g
<1>7. QED
  BY <1>1, <1>3, <1>6 DEF Near

\* One edit more does no harm.
LEMMA NearMore ==
  ASSUME NEW S, NEW k \in Nat, NEW u \in Seq(S), NEW v \in Seq(S), Near(S, k, u, v)
  PROVE  Near(S, k + 1, u, v)
BY NearLast DEF Edit

\* The same letter after both changes nothing.
LEMMA NearBefore ==
  ASSUME NEW S, NEW k \in Nat, NEW u \in Seq(S), NEW v \in Seq(S), NEW z \in S,
         Near(S, k, u, v)
  PROVE  Near(S, k, Snoc(u, z), Snoc(v, z))
<1>1. PICK f : IsWay(S, k, f) /\ f[0] = u /\ f[k] = v
  BY DEF Near
<1> DEFINE g == [i \in 0 .. k |-> Snoc(f[i], z)]
<1>2. f \in [0 .. k -> Seq(S)] /\ \A i \in 1 .. k : Edit(S, f[i - 1], f[i])
  BY <1>1 DEF IsWay
<1>3. g \in [0 .. k -> Seq(S)] /\ g[0] = Snoc(u, z) /\ g[k] = Snoc(v, z)
  BY <1>1, <1>2, WordTypes
<1>4. ASSUME NEW i \in 1 .. k PROVE Edit(S, g[i - 1], g[i])
  <2>1. f[i - 1] \in Seq(S) /\ f[i] \in Seq(S) /\ g[i - 1] = Snoc(f[i - 1], z) /\ g[i] = Snoc(f[i], z)
    BY <1>2
  <2>2. QED
    BY <1>2, <2>1, EditBefore
<1>5. IsWay(S, k, g)
  BY <1>3, <1>4 DEF IsWay
<1> HIDE DEF g
<1>6. QED
  BY <1>3, <1>5 DEF Near

\* So many edits change the length by no more.
LEMMA NearLength ==
  ASSUME NEW S, NEW m \in Nat, NEW u \in Seq(S)
  PROVE  \A k \in 0 .. m : \A v \in Seq(S) :
           Near(S, k, u, v) => Len(u) <= Len(v) + k /\ Len(v) <= Len(u) + k
<1> DEFINE T == {k \in 0 .. m : \A v \in Seq(S) :
                   Near(S, k, u, v) => Len(u) <= Len(v) + k /\ Len(v) <= Len(u) + k}
<1>1. 0 \in T
  <2>1. ASSUME NEW v \in Seq(S), Near(S, 0, u, v) PROVE Len(u) <= Len(v) + 0 /\ Len(v) <= Len(u) + 0
    <3>1. u = v /\ Len(u) \in Nat
      BY <2>1, NearZero, LenProperties
    <3>2. QED
      BY <3>1
  <2>2. QED
    BY <2>1
<1>2. ASSUME NEW k \in 1 .. m, k - 1 \in T PROVE k \in T
  <2>1. ASSUME NEW v \in Seq(S), Near(S, k, u, v) PROVE Len(u) <= Len(v) + k /\ Len(v) <= Len(u) + k
    <3>1. k - 1 \in Nat /\ (k - 1) + 1 = k
      OBVIOUS
    <3>2. PICK w \in Seq(S) : Near(S, k - 1, u, w) /\ Edit(S, w, v)
      BY <2>1, <3>1, NearLast
    <3>3. Len(u) <= Len(w) + (k - 1) /\ Len(w) <= Len(u) + (k - 1)
      BY <1>2, <3>2
    <3>4. Len(w) <= Len(v) + 1 /\ Len(v) <= Len(w) + 1
      BY <3>2, EditLength
    <3>5. Len(u) \in Nat /\ Len(v) \in Nat /\ Len(w) \in Nat
      BY LenProperties
    <3>6. QED
      BY ONLY <3>1, <3>3, <3>4, <3>5, k \in 1 .. m, m \in Nat
  <2>2. QED
    BY <2>1
<1>3. \A k \in 0 .. m : k \in T
  <2> HIDE DEF T
  <2>1. QED
    BY <1>1, <1>2, StepByStep
<1>4. QED
  BY <1>3

\* A word of k letters takes k edits from nothing and to nothing.
LEMMA NearNothing ==
  ASSUME NEW S, NEW m \in Nat
  PROVE  \A k \in 0 .. m : \A v \in Seq(S) :
           Len(v) <= k => Near(S, k, <<>>, v) /\ Near(S, k, v, <<>>)
<1> DEFINE T == {k \in 0 .. m : \A v \in Seq(S) :
                   Len(v) <= k => Near(S, k, <<>>, v) /\ Near(S, k, v, <<>>)}
<1>0. <<>> \in Seq(S)
  OBVIOUS
<1>1. 0 \in T
  <2>1. ASSUME NEW v \in Seq(S), Len(v) <= 0 PROVE Near(S, 0, <<>>, v) /\ Near(S, 0, v, <<>>)
    <3>1. v = <<>>
      BY <2>1, EmptySeq, LenProperties
    <3>2. QED
      BY <3>1, <1>0, NearZero
  <2>2. QED
    BY <2>1
<1>2. ASSUME NEW k \in 1 .. m, k - 1 \in T PROVE k \in T
  <2>0. k - 1 \in Nat /\ (k - 1) + 1 = k
    OBVIOUS
  <2>1. ASSUME NEW v \in Seq(S), Len(v) <= k PROVE Near(S, k, <<>>, v) /\ Near(S, k, v, <<>>)
    <3>1. CASE v = <<>>
      <4>1. Len(v) <= k - 1
        BY <3>1, <2>0
      <4>2. Near(S, k - 1, <<>>, v) /\ Near(S, k - 1, v, <<>>)
        BY <4>1, <1>2
      <4>3. QED
        BY <4>2, <2>0, <1>0, NearMore
    <3>2. CASE \E r \in Seq(S), z \in S : v = Snoc(r, z)
      <4>1. PICK r \in Seq(S), z \in S : v = Snoc(r, z)
        BY <3>2
      <4>2. Len(r) <= k - 1
        <5>1. Len(v) = Len(r) + 1 /\ Len(r) \in Nat
          BY <4>1, WordTypes, LenProperties
        <5>2. QED
          BY ONLY <5>1, <2>1, k \in 1 .. m, m \in Nat
      <4>3. Near(S, k - 1, <<>>, r) /\ Near(S, k - 1, r, <<>>)
        BY <4>2, <1>2
      <4>4. Edit(S, r, v) /\ Edit(S, v, r)
        BY <4>1, EditsAtEnd
      <4>5. Near(S, (k - 1) + 1, <<>>, v)
        BY <4>3, <4>4, <2>0, <1>0, NearLast
      <4>6. Near(S, (k - 1) + 1, v, <<>>)
        BY <4>3, <4>4, <2>0, <1>0, NearFirst
      <4>7. QED
        BY <4>5, <4>6, <2>0
    <3>3. QED
      BY <3>1, <3>2, WordCases
  <2>2. QED
    BY <2>1
<1>3. \A k \in 0 .. m : k \in T
  <2> HIDE DEF T
  <2>1. QED
    BY <1>1, <1>2, StepByStep
<1>4. QED
  BY <1>3

\* What the last letters of two words have to do with the edits between them.
Ends(S, k, u, x, v, y) ==
  \/ k > 0 /\ Near(S, k - 1, u, Snoc(v, y))
  \/ k > 0 /\ Near(S, k - 1, Snoc(u, x), v)
  \/ x = y /\ Near(S, k, u, v)
  \/ k > 0 /\ Near(S, k - 1, u, v)

\* From one word to another in k edits: a letter is dropped, or added, or kept, or replaced.
LEMMA NearEnds ==
  ASSUME NEW S, NEW m \in Nat, NEW u \in Seq(S), NEW x \in S
  PROVE  \A k \in 0 .. m : \A v \in Seq(S) : \A y \in S :
           Near(S, k, Snoc(u, x), Snoc(v, y)) => Ends(S, k, u, x, v, y)
<1> DEFINE T == {k \in 0 .. m : \A v \in Seq(S) : \A y \in S :
                   Near(S, k, Snoc(u, x), Snoc(v, y)) => Ends(S, k, u, x, v, y)}
<1>0. \A w \in Seq(S) : \A z \in S : Snoc(w, z) \in Seq(S)
  BY WordTypes
<1>1. 0 \in T
  <2>1. ASSUME NEW v \in Seq(S), NEW y \in S, Near(S, 0, Snoc(u, x), Snoc(v, y))
        PROVE  Ends(S, 0, u, x, v, y)
    <3>1. Snoc(u, x) = Snoc(v, y)
      BY <2>1, <1>0, NearZero
    <3>2. u = v /\ x = y
      BY <3>1, SnocInjective
    <3>3. QED
      BY <3>2, NearZero DEF Ends
  <2>2. QED
    BY <2>1
<1>2. ASSUME NEW k \in 1 .. m, k - 1 \in T PROVE k \in T
  <2>0. k - 1 \in Nat /\ (k - 1) + 1 = k /\ k > 0 /\ k \in Nat
    OBVIOUS
  <2>1. \A v \in Seq(S) : \A y \in S :
          Near(S, k - 1, Snoc(u, x), Snoc(v, y)) => Ends(S, k - 1, u, x, v, y)
    BY <1>2
  <2>2. \A a, b \in Seq(S) : Near(S, k - 1, a, b) => Near(S, k, a, b)
    BY <2>0, NearMore
  <2>3. \A a, b \in Seq(S) : k - 1 > 0 /\ Near(S, (k - 1) - 1, a, b) => Near(S, k - 1, a, b)
    <3>1. ASSUME k - 1 > 0, NEW a \in Seq(S), NEW b \in Seq(S), Near(S, (k - 1) - 1, a, b)
          PROVE  Near(S, k - 1, a, b)
      <4>1. (k - 1) - 1 \in Nat /\ ((k - 1) - 1) + 1 = k - 1
        BY <3>1, <2>0
      <4>2. QED
        BY <3>1, <4>1, NearMore
    <3>2. QED
      BY <3>1
  <2>4. \A a, b, c \in Seq(S) :
          k - 1 > 0 /\ Near(S, (k - 1) - 1, a, b) /\ Edit(S, b, c) => Near(S, k - 1, a, c)
    <3>1. ASSUME k - 1 > 0, NEW a \in Seq(S), NEW b \in Seq(S), NEW c \in Seq(S),
                 Near(S, (k - 1) - 1, a, b), Edit(S, b, c)
          PROVE  Near(S, k - 1, a, c)
      <4>1. (k - 1) - 1 \in Nat /\ ((k - 1) - 1) + 1 = k - 1
        BY <3>1, <2>0
      <4>2. QED
        BY <3>1, <4>1, NearLast
    <3>2. QED
      BY <3>1
  <2>5. \A a, b, c \in Seq(S) : Near(S, k - 1, a, b) /\ Edit(S, b, c) => Near(S, k, a, c)
    BY <2>0, NearLast
  <2>6. ASSUME NEW v \in Seq(S), NEW y \in S, Near(S, k, Snoc(u, x), Snoc(v, y))
        PROVE  Ends(S, k, u, x, v, y)
    <3>0. Snoc(u, x) \in Seq(S) /\ Snoc(v, y) \in Seq(S)
      BY <1>0
    <3>1. PICK w \in Seq(S) : Near(S, k - 1, Snoc(u, x), w) /\ Edit(S, w, Snoc(v, y))
      <4>1. PICK a \in Seq(S), b \in Seq(S) : a = Snoc(u, x) /\ b = Snoc(v, y)
        BY <3>0
      <4>2. Near(S, (k - 1) + 1, a, b)
        BY <2>0, <2>6, <4>1
      <4>3. \E w \in Seq(S) : Near(S, k - 1, a, w) /\ Edit(S, w, b)
        BY <2>0, <4>2, NearLast
      <4>4. QED
        BY <4>1, <4>3
    <3>2. CASE \E r \in Seq(S) : w = Snoc(r, y) /\ Edit(S, r, v)
      <4>1. PICK r \in Seq(S) : w = Snoc(r, y) /\ Edit(S, r, v)
        BY <3>2
      <4>2. Ends(S, k - 1, u, x, r, y)
        BY <2>1, <3>1, <4>1
      <4>3. Edit(S, Snoc(r, y), Snoc(v, y)) /\ Snoc(r, y) \in Seq(S)
        BY <4>1, <1>0, EditBefore
      <4>4. CASE k - 1 > 0 /\ Near(S, (k - 1) - 1, u, Snoc(r, y))
        BY <2>0, <2>4, <3>0, <4>3, <4>4 DEF Ends
      <4>5. CASE k - 1 > 0 /\ Near(S, (k - 1) - 1, Snoc(u, x), r)
        BY <2>0, <2>4, <3>0, <4>1, <4>5 DEF Ends
      <4>6. CASE x = y /\ Near(S, k - 1, u, r)
        BY <2>5, <4>1, <4>6 DEF Ends
      <4>7. CASE k - 1 > 0 /\ Near(S, (k - 1) - 1, u, r)
        BY <2>0, <2>4, <4>1, <4>7 DEF Ends
      <4>8. QED
        BY <4>2, <4>4, <4>5, <4>6, <4>7 DEF Ends
    <3>3. CASE \E z \in S : w = Snoc(v, z)
      <4>1. PICK z \in S : w = Snoc(v, z)
        BY <3>3
      <4>2. Ends(S, k - 1, u, x, v, z)
        BY <2>1, <3>1, <4>1
      <4>3. Edit(S, Snoc(v, z), Snoc(v, y)) /\ Snoc(v, z) \in Seq(S)
        BY <1>0, EditsAtEnd
      <4>4. CASE k - 1 > 0 /\ Near(S, (k - 1) - 1, u, Snoc(v, z))
        BY <2>0, <2>4, <3>0, <4>3, <4>4 DEF Ends
      <4>5. CASE k - 1 > 0 /\ Near(S, (k - 1) - 1, Snoc(u, x), v)
        BY <2>0, <2>3, <3>0, <4>5 DEF Ends
      <4>6. CASE Near(S, k - 1, u, v)
        BY <2>0, <4>6 DEF Ends
      <4>7. CASE k - 1 > 0 /\ Near(S, (k - 1) - 1, u, v)
        BY <2>0, <2>3, <4>7 DEF Ends
      <4>8. QED
        BY <4>2, <4>4, <4>5, <4>6, <4>7 DEF Ends
    <3>4. CASE w = v
      BY <2>0, <3>1, <3>4 DEF Ends
    <3>5. CASE \E z \in S : w = Snoc(Snoc(v, y), z)
      <4>1. PICK z \in S : w = Snoc(Snoc(v, y), z)
        BY <3>5
      <4>2. Ends(S, k - 1, u, x, Snoc(v, y), z)
        BY <2>1, <3>0, <3>1, <4>1
      <4>3. Edit(S, Snoc(Snoc(v, y), z), Snoc(v, y)) /\ Snoc(Snoc(v, y), z) \in Seq(S)
        BY <3>0, <1>0, EditsAtEnd
      <4>4. CASE k - 1 > 0 /\ Near(S, (k - 1) - 1, u, Snoc(Snoc(v, y), z))
        BY <2>0, <2>4, <3>0, <4>3, <4>4 DEF Ends
      <4>5. CASE k - 1 > 0 /\ Near(S, (k - 1) - 1, Snoc(u, x), Snoc(v, y))
        <5>1. Near(S, k - 1, Snoc(u, x), Snoc(v, y))
          BY <2>3, <3>0, <4>5
        <5>2. Ends(S, k - 1, u, x, v, y)
          BY <2>1, <5>1
        <5>3. QED
          BY <2>0, <2>2, <2>3, <3>0, <5>2 DEF Ends
      <4>6. CASE Near(S, k - 1, u, Snoc(v, y))
        BY <2>0, <4>6 DEF Ends
      <4>7. CASE k - 1 > 0 /\ Near(S, (k - 1) - 1, u, Snoc(v, y))
        BY <2>0, <2>3, <3>0, <4>7 DEF Ends
      <4>8. QED
        BY <4>2, <4>4, <4>5, <4>6, <4>7 DEF Ends
    <3>6. QED
      BY <3>1, <3>2, <3>3, <3>4, <3>5, EditSplit
  <2>7. QED
    BY <2>6
<1>3. \A k \in 0 .. m : k \in T
  <2> HIDE DEF T
  <2>1. QED
    BY <1>1, <1>2, StepByStep
<1>4. QED
  BY <1>3

\* And the other way round.
LEMMA EndsNear ==
  ASSUME NEW S, NEW k \in Nat, NEW u \in Seq(S), NEW x \in S, NEW v \in Seq(S), NEW y \in S,
         Ends(S, k, u, x, v, y)
  PROVE  Near(S, k, Snoc(u, x), Snoc(v, y))
<1>0. Snoc(u, x) \in Seq(S) /\ Snoc(v, y) \in Seq(S) /\ Snoc(u, y) \in Seq(S)
  BY WordTypes
<1>1. k > 0 => k - 1 \in Nat /\ (k - 1) + 1 = k
  OBVIOUS
<1>2. Edit(S, Snoc(u, x), u) /\ Edit(S, v, Snoc(v, y)) /\ Edit(S, Snoc(u, x), Snoc(u, y))
  BY EditsAtEnd
<1>3. PICK ux \in Seq(S), vy \in Seq(S), uy \in Seq(S) :
        ux = Snoc(u, x) /\ vy = Snoc(v, y) /\ uy = Snoc(u, y)
  BY <1>0
<1>4. CASE k > 0 /\ Near(S, k - 1, u, Snoc(v, y))
  <2>1. Near(S, (k - 1) + 1, ux, vy)
    BY <1>1, <1>2, <1>3, <1>4, NearFirst
  <2>2. QED
    BY <1>1, <1>3, <1>4, <2>1
<1>5. CASE k > 0 /\ Near(S, k - 1, Snoc(u, x), v)
  <2>1. Near(S, (k - 1) + 1, ux, vy)
    BY <1>1, <1>2, <1>3, <1>5, NearLast
  <2>2. QED
    BY <1>1, <1>3, <1>5, <2>1
<1>6. CASE x = y /\ Near(S, k, u, v)
  BY <1>6, NearBefore
<1>7. CASE k > 0 /\ Near(S, k - 1, u, v)
  <2>0. Near(S, k - 1, Snoc(u, y), Snoc(v, y))
    BY <1>1, <1>7, NearBefore
  <2>1. Near(S, (k - 1) + 1, ux, vy)
    BY <1>1, <1>2, <1>3, <1>7, <2>0, NearFirst
  <2>2. QED
    BY <1>1, <1>3, <1>7, <2>1
<1>8. QED
  BY <1>4, <1>5, <1>6, <1>7 DEF Ends

------------------------------------------------------------------------------
(* The table of distances *)

\* The first i letters of a word.
Prefix(a, i) == SubSeq(a, 1, i)

\* A prefix has one letter more than the one before it.
LEMMA Prefixes ==
  ASSUME NEW S, NEW a \in Seq(S), NEW i \in 0 .. Len(a)
  PROVE  /\ Prefix(a, i) \in Seq(S) /\ Len(Prefix(a, i)) = i
         /\ i = 0 => Prefix(a, i) = <<>>
         /\ i = Len(a) => Prefix(a, i) = a
         /\ i # 0 => a[i] \in S /\ Prefix(a, i) = Snoc(Prefix(a, i - 1), a[i])
<1>0. Len(a) \in Nat /\ a \in [1 .. Len(a) -> S]
  BY LenProperties
<1>1. Prefix(a, i) \in Seq(S) /\ Len(Prefix(a, i)) = i /\ \A k \in 1 .. i : Prefix(a, i)[k] = a[k]
  BY <1>0, SubSeqProperties DEF Prefix
<1>2. i = 0 => Prefix(a, i) = <<>>
  BY <1>1, EmptySeq
<1>3. i = Len(a) => Prefix(a, i) = a
  BY SubSeqFull DEF Prefix
<1>4. ASSUME i # 0 PROVE a[i] \in S /\ Prefix(a, i) = Snoc(Prefix(a, i - 1), a[i])
  <2>1. i \in 1 .. Len(a) /\ i - 1 \in 0 .. Len(a) /\ a[i] \in S
    BY <1>0, <1>4
  <2>2. /\ Prefix(a, i - 1) \in Seq(S) /\ Len(Prefix(a, i - 1)) = i - 1
        /\ \A k \in 1 .. i - 1 : Prefix(a, i - 1)[k] = a[k]
    BY <1>0, <2>1, SubSeqProperties DEF Prefix
  <2>3. PICK s \in Seq(S) : s = Prefix(a, i - 1)
    BY <2>2
  <2>4. PICK t \in Seq(S) : t = Snoc(s, a[i])
    BY <2>1, WordTypes
  <2>5. /\ Len(t) = (i - 1) + 1 /\ t[i] = a[i]
        /\ \A k \in 1 .. i - 1 : t[k] = a[k]
    BY <2>1, <2>2, <2>3, <2>4, AppendProperties DEF Snoc
  <2>6. Len(t) = i /\ \A k \in 1 .. i : t[k] = a[k]
    BY <2>1, <2>5
  <2>7. t = Prefix(a, i)
    BY <1>1, <2>6, SeqEqual
  <2>8. QED
    BY <2>1, <2>3, <2>4, <2>7
<1>5. QED
  BY <1>1, <1>2, <1>3, <1>4

\* What a row has in it, after the row before it.
IsRow(row, prev, i, a, b) ==
  \A j \in 0 .. Len(b) :
    row[j] = IF j = 0 THEN i
             ELSE DI!Smallest(DI!Smallest(prev[j] + 1, row[j - 1] + 1),
                              prev[j - 1] + (IF a[i] = b[j] THEN 0 ELSE 1))

\* The table of the rows of a and b.
IsTable(d, a, b) ==
  /\ d \in [0 .. Len(a) -> [0 .. Len(b) -> Nat]]
  /\ \A j \in 0 .. Len(b) : d[0][j] = j
  /\ \A i \in 1 .. Len(a) : IsRow(d[i], d[i - 1], i, a, b)

\* Entry i, j of the table is the least number of edits between two prefixes.
Exact(S, d, a, b, i, j) == \A k \in Nat : d[i][j] <= k <=> Near(S, k, Prefix(a, i), Prefix(b, j))

\* At the edges of the table.
LEMMA ExactAtEdge ==
  ASSUME NEW S, NEW a \in Seq(S), NEW b \in Seq(S), NEW d, IsTable(d, a, b),
         NEW i \in 0 .. Len(a), NEW j \in 0 .. Len(b), i = 0 \/ j = 0
  PROVE  Exact(S, d, a, b, i, j)
<1>0. Len(a) \in Nat /\ Len(b) \in Nat /\ i \in Nat /\ j \in Nat /\ <<>> \in Seq(S) /\ Len(<<>>) = 0
  BY LenProperties
<1>1. d[i][j] = i + j
  <2>1. CASE i = 0
    BY <1>0, <2>1 DEF IsTable
  <2>2. CASE i # 0
    <3>1. i \in 1 .. Len(a) /\ j = 0
      BY <1>0, <2>2
    <3>2. QED
      BY <1>0, <3>1 DEF IsTable, IsRow
  <2>3. QED
    BY <2>1, <2>2
<1>2. /\ Prefix(a, i) \in Seq(S) /\ Len(Prefix(a, i)) = i /\ (i = 0 => Prefix(a, i) = <<>>)
      /\ Prefix(b, j) \in Seq(S) /\ Len(Prefix(b, j)) = j /\ (j = 0 => Prefix(b, j) = <<>>)
  BY Prefixes
<1>3. ASSUME NEW k \in Nat PROVE i + j <= k <=> Near(S, k, Prefix(a, i), Prefix(b, j))
  <2>1. Near(S, k, Prefix(a, i), Prefix(b, j)) => i <= j + k /\ j <= i + k
    <3>1. \A v \in Seq(S) : Near(S, k, Prefix(a, i), v) =>
            Len(Prefix(a, i)) <= Len(v) + k /\ Len(v) <= Len(Prefix(a, i)) + k
      <4>1. k \in 0 .. k
        OBVIOUS
      <4>2. QED
        BY <1>2, <4>1, NearLength
    <3>2. QED
      BY <1>2, <3>1
  <2>2. \A v \in Seq(S) : Len(v) <= k => Near(S, k, <<>>, v) /\ Near(S, k, v, <<>>)
    <3>1. k \in 0 .. k
      OBVIOUS
    <3>2. QED
      BY <3>1, NearNothing
  <2>3. CASE i = 0
    BY <1>0, <1>2, <2>1, <2>2, <2>3
  <2>4. CASE j = 0
    BY <1>0, <1>2, <2>1, <2>2, <2>4
  <2>5. QED
    BY <2>3, <2>4
<1>4. QED
  BY <1>1, <1>3 DEF Exact

\* Within the table, an entry is exact if its neighbours are.
LEMMA ExactWithin ==
  ASSUME NEW S, NEW a \in Seq(S), NEW b \in Seq(S), NEW d, IsTable(d, a, b),
         NEW i \in 1 .. Len(a), NEW j \in 1 .. Len(b),
         Exact(S, d, a, b, i - 1, j), Exact(S, d, a, b, i, j - 1), Exact(S, d, a, b, i - 1, j - 1)
  PROVE  Exact(S, d, a, b, i, j)
<1>0. /\ Len(a) \in Nat /\ Len(b) \in Nat
      /\ i \in 0 .. Len(a) /\ i - 1 \in 0 .. Len(a) /\ i # 0
      /\ j \in 0 .. Len(b) /\ j - 1 \in 0 .. Len(b) /\ j # 0
  BY LenProperties
<1> DEFINE u == Prefix(a, i - 1)
           v == Prefix(b, j - 1)
           x == a[i]
           y == b[j]
<1>1. /\ u \in Seq(S) /\ x \in S /\ Prefix(a, i) = Snoc(u, x)
      /\ v \in Seq(S) /\ y \in S /\ Prefix(b, j) = Snoc(v, y)
  BY <1>0, Prefixes
<1>2. d[i] \in [0 .. Len(b) -> Nat] /\ d[i - 1] \in [0 .. Len(b) -> Nat]
  BY <1>0 DEF IsTable
<1>3. d[i][j] = DI!Smallest(DI!Smallest(d[i - 1][j] + 1, d[i][j - 1] + 1),
                            d[i - 1][j - 1] + (IF x = y THEN 0 ELSE 1))
  BY <1>0 DEF IsTable, IsRow
<1>4. PICK above \in Nat, left \in Nat, across \in Nat :
        above = d[i - 1][j] /\ left = d[i][j - 1] /\ across = d[i - 1][j - 1]
  BY <1>0, <1>2
<1>5. /\ \A k \in Nat : above <= k <=> Near(S, k, u, Snoc(v, y))
      /\ \A k \in Nat : left <= k <=> Near(S, k, Snoc(u, x), v)
      /\ \A k \in Nat : across <= k <=> Near(S, k, u, v)
  BY <1>1, <1>4 DEF Exact
<1>6. ASSUME NEW k \in Nat PROVE d[i][j] <= k <=> Ends(S, k, u, x, v, y)
  <2>1. PICK n \in Nat : n = d[i][j]
    BY <1>0, <1>2
  <2>2. n <= k <=> above + 1 <= k \/ left + 1 <= k \/ (x = y /\ across <= k) \/ across + 1 <= k
    <3>1. CASE x = y
      <4>1. n = DI!Smallest(DI!Smallest(above + 1, left + 1), across + 0)
        BY <1>3, <1>4, <2>1, <3>1
      <4>2. QED
        BY ONLY <3>1, <4>1, n \in Nat, k \in Nat, above \in Nat, left \in Nat, across \in Nat
           DEF DI!Smallest
    <3>2. CASE x # y
      <4>1. n = DI!Smallest(DI!Smallest(above + 1, left + 1), across + 1)
        BY <1>3, <1>4, <2>1, <3>2
      <4>2. QED
        BY ONLY <3>2, <4>1, n \in Nat, k \in Nat, above \in Nat, left \in Nat, across \in Nat
           DEF DI!Smallest
    <3>3. QED
      BY <3>1, <3>2
  <2>3. k > 0 => k - 1 \in Nat
    OBVIOUS
  <2>4. /\ above + 1 <= k <=> k > 0 /\ Near(S, k - 1, u, Snoc(v, y))
        /\ left + 1 <= k <=> k > 0 /\ Near(S, k - 1, Snoc(u, x), v)
        /\ across + 1 <= k <=> k > 0 /\ Near(S, k - 1, u, v)
        /\ across <= k <=> Near(S, k, u, v)
    <3>1. \A m \in Nat : m + 1 <= k <=> k > 0 /\ m <= k - 1
      OBVIOUS
    <3>2. QED
      BY <1>5, <2>3, <3>1
  <2>5. QED
    BY <2>1, <2>2, <2>4 DEF Ends
<1>7. ASSUME NEW k \in Nat PROVE Ends(S, k, u, x, v, y) <=> Near(S, k, Snoc(u, x), Snoc(v, y))
  <2>1. k \in 0 .. k
    OBVIOUS
  <2>2. Near(S, k, Snoc(u, x), Snoc(v, y)) => Ends(S, k, u, x, v, y)
    BY <1>1, <2>1, NearEnds
  <2>3. Ends(S, k, u, x, v, y) => Near(S, k, Snoc(u, x), Snoc(v, y))
    BY <1>1, EndsNear
  <2>4. QED
    BY <2>2, <2>3
<1> HIDE DEF u, v, x, y
<1>8. QED
  BY <1>1, <1>6, <1>7 DEF Exact

\* Every entry of the table is exact.
LEMMA TableIsExact ==
  ASSUME NEW S, NEW a \in Seq(S), NEW b \in Seq(S), NEW d, IsTable(d, a, b)
  PROVE  \A i \in 0 .. Len(a) : \A j \in 0 .. Len(b) : Exact(S, d, a, b, i, j)
<1> DEFINE T == {i \in 0 .. Len(a) : \A j \in 0 .. Len(b) : Exact(S, d, a, b, i, j)}
<1>0. Len(a) \in Nat /\ Len(b) \in Nat /\ 0 \in 0 .. Len(a) /\ 0 \in 0 .. Len(b)
  BY LenProperties
<1>1. 0 \in T
  BY <1>0, ExactAtEdge
<1>2. ASSUME NEW i \in 1 .. Len(a), i - 1 \in T PROVE i \in T
  <2> DEFINE U == {j \in 0 .. Len(b) : Exact(S, d, a, b, i, j)}
  <2>0. i \in 0 .. Len(a)
    BY <1>0
  <2>1. 0 \in U
    BY <1>0, <2>0, ExactAtEdge
  <2>2. ASSUME NEW j \in 1 .. Len(b), j - 1 \in U PROVE j \in U
    <3>1. j \in 0 .. Len(b) /\ j - 1 \in 0 .. Len(b)
      BY <1>0
    <3>2. Exact(S, d, a, b, i - 1, j) /\ Exact(S, d, a, b, i, j - 1) /\ Exact(S, d, a, b, i - 1, j - 1)
      BY <1>2, <2>2, <3>1
    <3>3. Exact(S, d, a, b, i, j)
      BY <3>2, ExactWithin
    <3>4. QED
      BY <3>1, <3>3
  <2>3. \A j \in 0 .. Len(b) : j \in U
    <3> HIDE DEF U
    <3>1. QED
      BY <1>0, <2>1, <2>2, StepByStep
  <2>4. QED
    BY <2>0, <2>3
<1>3. \A i \in 0 .. Len(a) : i \in T
  <2> HIDE DEF T
  <2>1. QED
    BY <1>0, <1>1, <1>2, StepByStep
<1>4. QED
  BY <1>3

\* A row begins with its number and is made entry after entry.
LEMMA RowIs ==
  ASSUME NEW S, NEW a \in Seq(S), NEW b \in Seq(S), NEW i \in Nat,
         NEW prev \in [0 .. Len(b) -> Nat]
  PROVE  /\ DI!Row(prev, i, a, b) \in [0 .. Len(b) -> Nat]
         /\ IsRow(DI!Row(prev, i, a, b), prev, i, a, b)
<1>0. PICK m \in Nat : m = Len(b)
  BY LenProperties
<1> DEFINE cost(j) == IF a[i] = b[j] THEN 0 ELSE 1
           next(j, n) == DI!Smallest(DI!Smallest(prev[j] + 1, n + 1), prev[j - 1] + cost(j))
           Up(f) == f = [j \in 0 .. m |-> IF j = 0 THEN i ELSE next(j, f[j - 1])]
           step == [j \in 1 .. m |-> [n \in Nat |-> next(j, n)]]
           g == CHOOSE f : Up(f)
<1>1. \A j \in 1 .. m : \A n \in Nat : next(j, n) \in Nat
  <2>1. ASSUME NEW j \in 1 .. m, NEW n \in Nat PROVE next(j, n) \in Nat
    <3>1. prev[j] \in Nat /\ prev[j - 1] \in Nat
      BY <1>0
    <3>2. QED
      BY <3>1 DEF DI!Smallest
  <2>2. QED
    BY <2>1
<1>2. \E f \in [0 .. m -> Nat] : Up(f)
  <2> HIDE DEF next
  <2>1. step \in [1 .. m -> [Nat -> Nat]]
    BY <1>1
  <2>2. PICK f \in [0 .. m -> Nat] : FollowsFrom(f, i, step, m)
    <3> HIDE DEF step
    <3>1. QED
      BY <1>0, <2>1, Recursion
  <2>3. ASSUME NEW j \in 0 .. m, j # 0 PROVE step[j][f[j - 1]] = next(j, f[j - 1])
    <3>1. j \in 1 .. m /\ j - 1 \in 0 .. m
      BY <1>0, <2>3
    <3>2. f[j - 1] \in Nat
      BY <3>1
    <3>3. QED
      BY <3>1, <3>2
  <2>4. Up(f)
    <3> HIDE DEF step
    <3>1. QED
      BY <2>2, <2>3 DEF FollowsFrom
  <2>5. QED
    BY <2>4
<1>3. Up(g)
  BY <1>2
<1>4. DI!Row(prev, i, a, b) = g
  BY <1>0 DEF DI!Row
<1> HIDE DEF g
<1>5. /\ g = [j \in 0 .. m |-> g[j]]
      /\ \A j \in 0 .. m : g[j] = IF j = 0 THEN i ELSE next(j, g[j - 1])
  <2> HIDE DEF next
  <2>1. QED
    BY <1>3
<1>6. \A j \in 0 .. m : j \in {n \in 0 .. m : g[n] \in Nat}
  <2> DEFINE T == {n \in 0 .. m : g[n] \in Nat}
  <2>1. 0 \in T
    BY <1>0, <1>5
  <2>2. ASSUME NEW j \in 1 .. m, j - 1 \in T PROVE j \in T
    <3>1. j \in 0 .. m /\ j # 0 /\ g[j - 1] \in Nat
      BY <1>0, <2>2
    <3>2. g[j] = next(j, g[j - 1])
      BY <1>5, <3>1
    <3>3. g[j] \in Nat
      BY <1>1, <3>1, <3>2
    <3>4. QED
      BY <3>1, <3>3
  <2> HIDE DEF T
  <2>3. \A j \in 0 .. m : j \in T
    BY <1>0, <2>1, <2>2, StepByStep
  <2>4. QED
    BY <2>3 DEF T
<1>7. g \in [0 .. m -> Nat]
  BY <1>5, <1>6
<1>8. QED
  BY <1>0, <1>4, <1>5, <1>7 DEF IsRow

\* The rows as they are made one after the other.
TableUp(f, a, b) ==
  f = [i \in 0 .. Len(a) |-> IF i = 0 THEN [j \in 0 .. Len(b) |-> j] ELSE DI!Row(f[i - 1], i, a, b)]
TableOf(a, b) == CHOOSE f : TableUp(f, a, b)

\* They are the table.
LEMMA TableIs ==
  ASSUME NEW S, NEW a \in Seq(S), NEW b \in Seq(S)
  PROVE  IsTable(TableOf(a, b), a, b)
<1>0. PICK m \in Nat : m = Len(a)
  BY LenProperties
<1> DEFINE Rows == [0 .. Len(b) -> Nat]
           first == [j \in 0 .. Len(b) |-> j]
           step == [i \in 1 .. m |-> [row \in Rows |-> DI!Row(row, i, a, b)]]
           d == TableOf(a, b)
<1>1. first \in Rows
  BY LenProperties
<1>2. \A i \in 1 .. m : \A row \in Rows : DI!Row(row, i, a, b) \in Rows /\ IsRow(DI!Row(row, i, a, b), row, i, a, b)
  <2>1. ASSUME NEW i \in 1 .. m, NEW row \in Rows
        PROVE  DI!Row(row, i, a, b) \in Rows /\ IsRow(DI!Row(row, i, a, b), row, i, a, b)
    <3>1. i \in Nat
      OBVIOUS
    <3>2. QED
      BY <3>1, RowIs
  <2>2. QED
    BY <2>1
<1>3. \E f \in [0 .. m -> Rows] : TableUp(f, a, b)
  <2>1. step \in [1 .. m -> [Rows -> Rows]]
    <3> HIDE DEF Rows
    <3>1. QED
      BY <1>2
  <2>2. PICK f \in [0 .. m -> Rows] : FollowsFrom(f, first, step, m)
    <3> HIDE DEF step, Rows, first
    <3>1. QED
      BY <1>0, <1>1, <2>1, Recursion
  <2>3. ASSUME NEW i \in 0 .. m, i # 0 PROVE step[i][f[i - 1]] = DI!Row(f[i - 1], i, a, b)
    <3> HIDE DEF Rows
    <3>1. i \in 1 .. m /\ i - 1 \in 0 .. m
      BY <1>0, <2>3
    <3>2. f[i - 1] \in Rows
      BY <3>1
    <3>3. QED
      BY <3>1, <3>2
  <2>4. f = [i \in 0 .. m |-> IF i = 0 THEN first ELSE DI!Row(f[i - 1], i, a, b)]
    <3> HIDE DEF step, first
    <3>1. QED
      BY <2>2, <2>3 DEF FollowsFrom
  <2>5. TableUp(f, a, b)
    BY <1>0, <2>4 DEF TableUp
  <2>6. QED
    BY <2>5
<1>4. TableUp(d, a, b)
  BY <1>3 DEF TableOf
<1> HIDE DEF d
<1>5. /\ d = [i \in 0 .. m |-> d[i]]
      /\ \A i \in 0 .. m : d[i] = IF i = 0 THEN first ELSE DI!Row(d[i - 1], i, a, b)
  <2>1. d = [i \in 0 .. m |-> IF i = 0 THEN first ELSE DI!Row(d[i - 1], i, a, b)]
    BY <1>0, <1>4 DEF TableUp
  <2> HIDE DEF first
  <2>2. QED
    BY <2>1
<1>6. \A i \in 0 .. m : d[i] \in Rows
  <2> HIDE DEF Rows, first
  <2> DEFINE T == {n \in 0 .. m : d[n] \in Rows}
  <2>1. 0 \in T
    BY <1>0, <1>1, <1>5
  <2>2. ASSUME NEW i \in 1 .. m, i - 1 \in T PROVE i \in T
    <3>1. i \in 0 .. m /\ i # 0 /\ d[i - 1] \in Rows
      BY <1>0, <2>2
    <3>2. QED
      BY <1>2, <1>5, <3>1
  <2>3. \A i \in 0 .. m : i \in T
    <3> HIDE DEF T
    <3>1. QED
      BY <1>0, <2>1, <2>2, StepByStep
  <2>4. QED
    BY <2>3
<1>7. d \in [0 .. m -> Rows]
  <2> HIDE DEF Rows
  <2>1. QED
    BY <1>5, <1>6
<1>8. \A j \in 0 .. Len(b) : d[0][j] = j
  <2>1. d[0] = first
    BY <1>0, <1>5
  <2>2. QED
    BY <2>1
<1>9. ASSUME NEW i \in 1 .. m PROVE IsRow(d[i], d[i - 1], i, a, b)
  <2> HIDE DEF Rows, first
  <2>1. i \in 0 .. m /\ i # 0 /\ i - 1 \in 0 .. m
    BY <1>0
  <2>2. QED
    BY <1>2, <1>5, <1>6, <2>1
<1>10. IsTable(d, a, b)
  BY <1>0, <1>7, <1>8, <1>9 DEF IsTable
<1>11. QED
  BY <1>10 DEF d

\* After a hopeless row all rows are.
LEMMA HopelessStays ==
  ASSUME Distance \in Nat, NEW S, NEW a \in Seq(S), NEW b \in Seq(S), NEW d, IsTable(d, a, b),
         NEW i \in 1 .. Len(a), DI!Hopeless(d[i - 1])
  PROVE  DI!Hopeless(d[i])
<1>0. PICK m \in Nat : m = Len(b)
  BY LenProperties
<1>1. i \in 0 .. Len(a) /\ i - 1 \in 0 .. Len(a)
  BY LenProperties
<1>2. PICK row \in [0 .. m -> Nat], prev \in [0 .. m -> Nat] : row = d[i] /\ prev = d[i - 1]
  BY <1>0, <1>1 DEF IsTable
<1>3. IsRow(row, prev, i, a, b) /\ \A j \in 0 .. m : prev[j] > Distance
  BY <1>2 DEF IsTable, DI!Hopeless
<1> DEFINE T == {j \in 0 .. m : row[j] > Distance}
<1>4. 0 \in T
  <2>1. prev[0] = i - 1
    <3>1. CASE i = 1
      BY <1>0, <1>2, <3>1 DEF IsTable
    <3>2. CASE i # 1
      <4>1. i - 1 \in 1 .. Len(a)
        BY <1>1, <3>2
      <4>2. IsRow(d[i - 1], d[(i - 1) - 1], i - 1, a, b) /\ 0 \in 0 .. Len(b)
        BY <1>0, <4>1 DEF IsTable
      <4>3. QED
        BY <1>2, <4>2 DEF IsRow
    <3>3. QED
      BY <3>1, <3>2
  <2>2. row[0] = i
    BY <1>0, <1>3 DEF IsRow
  <2>3. i - 1 > Distance
    BY <1>0, <1>3, <2>1
  <2>4. QED
    BY <2>2, <2>3
<1>5. ASSUME NEW j \in 1 .. m, j - 1 \in T PROVE j \in T
  <2>0. j \in 0 .. m /\ j - 1 \in 0 .. m /\ j # 0
    BY <1>0
  <2> DEFINE cost == IF a[i] = b[j] THEN 0 ELSE 1
  <2>1. cost \in 0 .. 1
    OBVIOUS
  <2>2. row[j] = DI!Smallest(DI!Smallest(prev[j] + 1, row[j - 1] + 1), prev[j - 1] + cost)
    BY <1>0, <1>3, <2>0 DEF IsRow
  <2>3. /\ prev[j] \in Nat /\ row[j - 1] \in Nat /\ prev[j - 1] \in Nat
        /\ prev[j] > Distance /\ row[j - 1] > Distance /\ prev[j - 1] > Distance
    BY <1>3, <1>5, <2>0
  <2> HIDE DEF cost
  <2>4. PICK above \in Nat, left \in Nat, across \in Nat, c \in 0 .. 1 :
          above = prev[j] /\ left = row[j - 1] /\ across = prev[j - 1] /\ c = cost
    BY <2>1, <2>3
  <2>5. row[j] = DI!Smallest(DI!Smallest(above + 1, left + 1), across + c)
    BY <2>2, <2>4
  <2>6. above > Distance /\ left > Distance /\ across > Distance
    BY <2>3, <2>4
  <2>7. row[j] > Distance
    BY <2>5, <2>6 DEF DI!Smallest
  <2>8. QED
    BY <2>0, <2>7
<1>6. \A j \in 0 .. m : j \in T
  <2> HIDE DEF T
  <2>1. QED
    BY <1>4, <1>5, StepByStep
<1>7. QED
  BY <1>2, <1>6 DEF DI!Hopeless

\* levenshtein_within says whether so many edits lead from one word to the other.
LEMMA LevenshteinRight ==
  ASSUME Distance \in Nat, NEW S, NEW a \in Seq(S), NEW b \in Seq(S)
  PROVE  DI!LevenshteinWithin(a, b) <=> Near(S, Distance, a, b)
<1>0. PICK d : d = TableOf(a, b)
  OBVIOUS
<1>1. DI!LevenshteinWithin(a, b) <=>
        /\ ~(Len(a) > Len(b) + Distance \/ Len(b) > Len(a) + Distance)
        /\ \A i \in 1 .. Len(a) : ~DI!Hopeless(d[i])
        /\ d[Len(a)][Len(b)] <= Distance
  BY <1>0 DEF DI!LevenshteinWithin, TableOf, TableUp
<1>2. IsTable(d, a, b)
  BY <1>0, TableIs
<1>3. Len(a) \in Nat /\ Len(b) \in Nat /\ Len(a) \in 0 .. Len(a) /\ Len(b) \in 0 .. Len(b)
  BY LenProperties
<1>4. d[Len(a)][Len(b)] <= Distance <=> Near(S, Distance, a, b)
  <2>1. Exact(S, d, a, b, Len(a), Len(b))
    BY <1>2, <1>3, TableIsExact
  <2>2. Prefix(a, Len(a)) = a /\ Prefix(b, Len(b)) = b
    BY <1>3, Prefixes
  <2>3. QED
    BY <2>1, <2>2 DEF Exact
<1>5. Near(S, Distance, a, b) => ~(Len(a) > Len(b) + Distance \/ Len(b) > Len(a) + Distance)
  <2>1. Distance \in 0 .. Distance
    OBVIOUS
  <2>2. Near(S, Distance, a, b) => Len(a) <= Len(b) + Distance /\ Len(b) <= Len(a) + Distance
    BY <2>1, NearLength
  <2>3. QED
    BY <1>3, <2>2
<1>6. ASSUME NEW i \in 1 .. Len(a), DI!Hopeless(d[i]) PROVE ~(d[Len(a)][Len(b)] <= Distance)
  <2> DEFINE T == {n \in 0 .. Len(a) - i : DI!Hopeless(d[i + n])}
  <2>0. Len(a) - i \in Nat
    BY <1>3
  <2>1. 0 \in T
    BY <1>6, <2>0
  <2>2. ASSUME NEW n \in 1 .. Len(a) - i, n - 1 \in T PROVE n \in T
    <3>1. i + n \in 1 .. Len(a) /\ (i + n) - 1 = i + (n - 1) /\ n \in 0 .. Len(a) - i
      BY <1>3
    <3>2. DI!Hopeless(d[(i + n) - 1])
      BY <2>2, <3>1
    <3>3. DI!Hopeless(d[i + n])
      BY <1>2, <3>1, <3>2, HopelessStays
    <3>4. QED
      BY <3>1, <3>3
  <2>3. Len(a) - i \in T
    <3> HIDE DEF T
    <3>1. \A n \in 0 .. Len(a) - i : n \in T
      BY <2>0, <2>1, <2>2, StepByStep
    <3>2. QED
      BY <2>0, <3>1
  <2>4. DI!Hopeless(d[Len(a)])
    <3>1. i + (Len(a) - i) = Len(a)
      BY <1>3
    <3>2. QED
      BY <2>3, <3>1
  <2>5. d[Len(a)] \in [0 .. Len(b) -> Nat]
    BY <1>2, <1>3 DEF IsTable
  <2>6. QED
    BY <1>3, <2>4, <2>5 DEF DI!Hopeless
<1>7. QED
  BY <1>1, <1>4, <1>5, <1>6

\* The letters of a word after the first i.
Rest(w, i) == SubSeq(w, i + 1, Len(w))

\* The rest has the letters that are left.
LEMMA RestLetters ==
  ASSUME NEW S, NEW w \in Seq(S), NEW i \in 0 .. Len(w)
  PROVE  /\ Rest(w, i) \in Seq(S) /\ Len(Rest(w, i)) = Len(w) - i
         /\ \A k \in 1 .. Len(w) - i : Rest(w, i)[k] = w[i + k]
<1>1. PICK n \in Nat : n = Len(w) /\ w \in [1 .. n -> S]
  BY LenProperties
<1>2. \A k \in i + 1 .. n : w[k] \in S
  BY <1>1
<1>3. i + 1 \in Int /\ n \in Int
  BY <1>1
<1>4. /\ SubSeq(w, i + 1, n) \in Seq(S)
      /\ Len(SubSeq(w, i + 1, n)) = IF i + 1 <= n THEN n - (i + 1) + 1 ELSE 0
      /\ \A k \in 1 .. n - (i + 1) + 1 : SubSeq(w, i + 1, n)[k] = w[(i + 1) + k - 1]
  BY <1>2, <1>3, SubSeqProperties
<1>0. i \in 0 .. n /\ i \in Nat
  BY <1>1
<1>5. n - (i + 1) + 1 = n - i /\ (i + 1 <= n \/ n - i = 0) /\ \A k \in Int : (i + 1) + k - 1 = i + k
  BY <1>0
<1>6. /\ Len(SubSeq(w, i + 1, n)) = n - i
      /\ \A k \in 1 .. n - i : SubSeq(w, i + 1, n)[k] = w[i + k]
  <2>1. Len(SubSeq(w, i + 1, n)) = n - i
    BY <1>0, <1>4
  <2>2. ASSUME NEW k \in 1 .. n - i PROVE SubSeq(w, i + 1, n)[k] = w[i + k]
    <3>1. k \in 1 .. n - (i + 1) + 1 /\ (i + 1) + k - 1 = i + k
      BY <1>0
    <3>2. SubSeq(w, i + 1, n)[k] = w[(i + 1) + k - 1]
      BY <1>4, <3>1
    <3>3. QED
      BY <3>1, <3>2
  <2>3. QED
    BY <2>1, <2>2
<1>7. QED
  BY <1>1, <1>4, <1>6 DEF Rest

\* A word is the first i letters and the rest.
LEMMA SplitAt ==
  ASSUME NEW S, NEW w \in Seq(S), NEW i \in 0 .. Len(w)
  PROVE  Rest(w, i) \in Seq(S) /\ Len(Rest(w, i)) = Len(w) - i /\ w = Cat(Prefix(w, i), Rest(w, i))
<1>0. Len(w) \in Nat /\ w \in [1 .. Len(w) -> S]
  BY LenProperties
<1>1. /\ Rest(w, i) \in Seq(S) /\ Len(Rest(w, i)) = Len(w) - i
      /\ \A k \in 1 .. Len(w) - i : Rest(w, i)[k] = w[i + k]
  BY RestLetters
<1>2. Prefix(w, i) \in Seq(S) /\ Len(Prefix(w, i)) = i /\ \A k \in 1 .. i : Prefix(w, i)[k] = w[k]
  BY <1>0, SubSeqProperties DEF Prefix
<1>3. PICK p \in Seq(S), q \in Seq(S) : p = Prefix(w, i) /\ q = Rest(w, i)
  BY <1>1, <1>2
<1>4. /\ p \o q \in Seq(S) /\ Len(p \o q) = i + (Len(w) - i)
      /\ \A k \in 1 .. Len(p) + Len(q) : (p \o q)[k] = IF k <= Len(p) THEN p[k] ELSE q[k - Len(p)]
  BY <1>1, <1>2, <1>3, ConcatProperties
<1>5. Len(p) = i /\ Len(q) = Len(w) - i /\ Len(p \o q) = Len(w)
  <2>1. Len(p) = i /\ Len(q) = Len(w) - i
    BY <1>1, <1>2, <1>3
  <2>2. \A n, m \in Nat : m + (n - m) = n
    OBVIOUS
  <2>3. Len(p \o q) = Len(w)
    BY ONLY <1>0, <1>4, <2>2, i \in 0 .. Len(w)
  <2>4. QED
    BY <2>1, <2>3
<1>6. \A k \in 1 .. Len(w) : (p \o q)[k] = w[k]
  <2>1. ASSUME NEW k \in 1 .. Len(w) PROVE (p \o q)[k] = w[k]
    <3>0. k \in 1 .. Len(p) + Len(q)
      BY <1>0, <1>5
    <3>1. CASE k <= i
      <4>1. k \in 1 .. i
        BY <3>1
      <4>2. QED
        BY <1>2, <1>3, <1>4, <1>5, <3>0, <3>1, <4>1
    <3>2. CASE ~(k <= i)
      <4>1. k - i \in 1 .. Len(w) - i /\ i + (k - i) = k
        BY <1>0, <3>2
      <4>2. q[k - i] = w[k]
        BY <1>1, <1>3, <4>1
      <4>3. QED
        BY <1>4, <1>5, <3>0, <3>2, <4>2
    <3>3. QED
      BY <3>1, <3>2
  <2>2. QED
    BY <2>1
<1>7. p \o q = w
  BY <1>4, <1>5, <1>6, SeqEqual
<1>8. QED
  BY <1>1, <1>3, <1>7 DEF Cat

\* Two words, one after the other, are apart where the first ends.
LEMMA SplitBack ==
  ASSUME NEW S, NEW p \in Seq(S), NEW q \in Seq(S)
  PROVE  /\ Len(p) \in 0 .. Len(Cat(p, q))
         /\ Prefix(Cat(p, q), Len(p)) = p /\ Rest(Cat(p, q), Len(p)) = q
<1>1. Len(p) \in Nat /\ Len(q) \in Nat /\ Len(Cat(p, q)) = Len(p) + Len(q)
  BY LenProperties, WordTypes
<1>2. SubSeq(p \o q, 1, Len(p)) = p
  BY SubSeqOfConcat1, SubSeqFull, <1>1
<1>3. SubSeq(p \o q, Len(p) + 1, Len(p) + Len(q)) = q
  BY SubSeqOfConcat2, SubSeqFull, <1>1
<1>4. QED
  BY <1>1, <1>2, <1>3 DEF Prefix, Rest, Cat

\* A word around its letter at place i.
LEMMA AroundPlace ==
  ASSUME NEW S, NEW w \in Seq(S), NEW i \in 1 .. Len(w)
  PROVE  /\ Prefix(w, i - 1) \in Seq(S) /\ Rest(w, i) \in Seq(S) /\ w[i] \in S
         /\ w = Cat(Snoc(Prefix(w, i - 1), w[i]), Rest(w, i))
<1>1. i \in 0 .. Len(w) /\ i - 1 \in 0 .. Len(w) /\ i # 0
  BY LenProperties
<1>2. QED
  BY <1>1, SplitAt, Prefixes

\* And the place from the words around it.
LEMMA PlaceOf ==
  ASSUME NEW S, NEW p \in Seq(S), NEW q \in Seq(S), NEW x \in S, NEW w \in Seq(S),
         w = Cat(Snoc(p, x), q)
  PROVE  /\ Len(p) + 1 \in 1 .. Len(w)
         /\ p = Prefix(w, (Len(p) + 1) - 1) /\ x = w[Len(p) + 1] /\ q = Rest(w, Len(p) + 1)
<1>1. PICK r \in Seq(S) : r = Snoc(p, x) /\ Len(r) = Len(p) + 1
  BY WordTypes
<1>2. Len(r) \in 0 .. Len(w) /\ Prefix(w, Len(r)) = r /\ Rest(w, Len(r)) = q
  BY <1>1, SplitBack
<1>3. Len(p) \in Nat /\ Len(w) \in Nat
  BY LenProperties
<1>4. Len(p) + 1 \in 1 .. Len(w) /\ Len(p) + 1 \in 0 .. Len(w) /\ Len(p) + 1 # 0
      /\ (Len(p) + 1) - 1 \in 0 .. Len(w)
  BY <1>1, <1>2, <1>3
<1>5. w[Len(p) + 1] \in S /\ r = Snoc(Prefix(w, (Len(p) + 1) - 1), w[Len(p) + 1])
  BY <1>1, <1>2, <1>4, Prefixes
<1>6. Prefix(w, (Len(p) + 1) - 1) \in Seq(S)
  BY <1>4, Prefixes
<1>7. p = Prefix(w, (Len(p) + 1) - 1) /\ x = w[Len(p) + 1]
  <2>1. PICK before \in Seq(S), letter \in S :
          before = Prefix(w, (Len(p) + 1) - 1) /\ letter = w[Len(p) + 1]
    BY <1>5, <1>6
  <2>2. Snoc(p, x) = Snoc(before, letter)
    BY <1>1, <1>5, <2>1
  <2>3. \A v \in Seq(S) : \A y \in S : Snoc(p, x) = Snoc(v, y) => p = v /\ x = y
    BY SnocInjective
  <2>4. p = before /\ x = letter
    BY <2>2, <2>3
  <2>5. QED
    BY <2>1, <2>4
<1>8. QED
  BY <1>1, <1>2, <1>4, <1>7

\* One letter put in the place of another.
LEMMA PutAtPlace ==
  ASSUME NEW S, NEW w \in Seq(S), NEW i \in 1 .. Len(w), NEW y \in S
  PROVE  [w EXCEPT ![i] = y] = Cat(Snoc(Prefix(w, i - 1), y), Rest(w, i))
<1>0. Len(w) \in Nat /\ w \in [1 .. Len(w) -> S] /\ i \in 0 .. Len(w) /\ i - 1 \in 0 .. Len(w)
  BY LenProperties
<1>1. PICK p \in Seq(S), q \in Seq(S) : p = Prefix(w, i - 1) /\ q = Rest(w, i)
  BY <1>0, SplitAt, Prefixes
<1>2. /\ Len(p) = i - 1 /\ Len(q) = Len(w) - i
      /\ \A k \in 1 .. i - 1 : p[k] = w[k]
      /\ \A k \in 1 .. Len(w) - i : q[k] = w[i + k]
  <2>1. Len(q) = Len(w) - i /\ \A k \in 1 .. Len(w) - i : q[k] = w[i + k]
    BY <1>0, <1>1, RestLetters
  <2>2. Len(p) = i - 1 /\ \A k \in 1 .. i - 1 : p[k] = w[k]
    BY <1>0, <1>1, SubSeqProperties DEF Prefix
  <2>3. QED
    BY <2>1, <2>2
<1>3. PICK r \in Seq(S) : r = Append(p, y)
  BY AppendProperties
<1>4. Len(r) = i /\ r[i] = y /\ \A k \in 1 .. i - 1 : r[k] = w[k]
  BY <1>2, <1>3, AppendProperties
<1>5. PICK s \in Seq(S) : s = r \o q
  BY ConcatProperties
<1>6. /\ Len(s) = i + (Len(w) - i)
      /\ \A k \in 1 .. i + (Len(w) - i) : s[k] = IF k <= i THEN r[k] ELSE q[k - i]
  <2>1. /\ Len(s) = Len(r) + Len(q)
        /\ \A k \in 1 .. Len(r) + Len(q) : s[k] = IF k <= Len(r) THEN r[k] ELSE q[k - Len(r)]
    BY <1>5, ConcatProperties
  <2>2. QED
    BY <1>2, <1>4, <2>1
<1>7. PICK t \in Seq(S) : t = [w EXCEPT ![i] = y] /\ Len(t) = Len(w)
  <2>1. [w EXCEPT ![i] = y] \in Seq(S) /\ Len([w EXCEPT ![i] = y]) = Len(w)
    BY ExceptSeq
  <2>2. QED
    BY <2>1
<1>8. \A k \in 1 .. Len(w) : t[k] = IF k = i THEN y ELSE w[k]
  BY <1>0, <1>7
<1>9. \A k \in 1 .. Len(w) : s[k] = t[k]
  <2>1. ASSUME NEW k \in 1 .. Len(w) PROVE s[k] = t[k]
    <3>0. s[k] = IF k <= i THEN r[k] ELSE q[k - i]
      BY <1>0, <1>6
    <3>1. CASE k = i
      BY <1>4, <1>8, <3>0, <3>1
    <3>2. CASE k < i
      <4>1. k \in 1 .. i - 1
        BY <3>2
      <4>2. QED
        BY <1>4, <1>8, <3>0, <3>2, <4>1
    <3>3. CASE k > i
      <4>1. k - i \in 1 .. Len(w) - i /\ i + (k - i) = k /\ ~(k <= i)
        BY <1>0, <3>3
      <4>2. q[k - i] = w[k]
        BY <1>2, <4>1
      <4>3. QED
        BY <1>8, <3>0, <3>3, <4>1, <4>2
    <3>4. QED
      BY <3>1, <3>2, <3>3
  <2>2. QED
    BY <2>1
<1>10. Len(s) = Len(w)
  BY <1>0, <1>6
<1>11. s = t
  BY <1>7, <1>9, <1>10, SeqEqual
<1>12. QED
  BY <1>1, <1>3, <1>5, <1>7, <1>11 DEF Cat, Snoc

\* The words one edit away are those that Edited has.
LEMMA EditedIs ==
  ASSUME NEW w \in Seq(DI!Letters)
  PROVE  DI!Edited(w) = {v \in Seq(DI!Letters) : Edit(DI!Letters, w, v)}
<1> DEFINE S == DI!Letters
<1>0. /\ DOMAIN w = 1 .. Len(w) /\ Len(w) \in Nat
      /\ \A i \in 1 .. Len(w) + 1 : i - 1 \in 0 .. Len(w) /\ (i - 1) + 1 = i
  BY LenProperties
<1>1. DI!Edited(w) =
        {w} \cup {DI!RemoveAt(w, i) : i \in DOMAIN w}
            \cup {DI!ReplaceAt(w, i, x) : i \in DOMAIN w, x \in S}
            \cup {DI!InsertAt(w, i, x) : i \in 1 .. Len(w) + 1, x \in S}
  BY DEF DI!Edited
<1> HIDE DEF S
<1>2. \A v : v \in {DI!ReplaceAt(w, i, x) : i \in DOMAIN w, x \in S} <=>
              \E i \in DOMAIN w : \E x \in S : v = DI!ReplaceAt(w, i, x)
  OBVIOUS
<1>3. \A i \in 1 .. Len(w) : DI!RemoveAt(w, i) = Cat(Prefix(w, i - 1), Rest(w, i))
  BY DEF DI!RemoveAt, Cat, Prefix, Rest
<1>4. \A i \in 1 .. Len(w) + 1 : \A x \in S :
        DI!InsertAt(w, i, x) = Cat(Cat(Prefix(w, i - 1), <<x>>), Rest(w, i - 1))
  BY <1>0 DEF DI!InsertAt, Cat, Prefix, Rest
<1>5. \A i \in 1 .. Len(w) : \A x \in S :
        DI!ReplaceAt(w, i, x) = [w EXCEPT ![i] = x]
  BY <1>0 DEF DI!ReplaceAt
<1>6. \A i \in 0 .. Len(w) : Prefix(w, i) \in Seq(S) /\ Rest(w, i) \in Seq(S)
  BY SplitAt, Prefixes DEF S
<1>7. ASSUME NEW p \in Seq(S), NEW x \in S PROVE Cat(p, <<x>>) = Snoc(p, x)
  BY AppendIsConcat DEF Cat, Snoc
<1>8. ASSUME NEW i \in 1 .. Len(w)
      PROVE  DI!RemoveAt(w, i) \in Seq(S) /\ Edit(S, w, DI!RemoveAt(w, i))
  <2>1. PICK p \in Seq(S), q \in Seq(S), x \in S :
          p = Prefix(w, i - 1) /\ q = Rest(w, i) /\ x = w[i] /\ w = Cat(Snoc(p, x), q)
    BY AroundPlace DEF S
  <2>2. DI!RemoveAt(w, i) = Cat(p, q) /\ Cat(p, q) \in Seq(S)
    BY <1>3, <2>1, WordTypes
  <2>3. Fewer(S, w, Cat(p, q))
    BY <2>1 DEF Fewer
  <2>4. QED
    BY <2>2, <2>3 DEF Edit
<1>9. ASSUME NEW i \in 1 .. Len(w), NEW y \in S
      PROVE  DI!ReplaceAt(w, i, y) \in Seq(S) /\ Edit(S, w, DI!ReplaceAt(w, i, y))
  <2>1. PICK p \in Seq(S), q \in Seq(S), x \in S :
          p = Prefix(w, i - 1) /\ q = Rest(w, i) /\ x = w[i] /\ w = Cat(Snoc(p, x), q)
    BY AroundPlace DEF S
  <2>2. DI!ReplaceAt(w, i, y) = Cat(Snoc(p, y), q)
    <3>1. [w EXCEPT ![i] = y] = Cat(Snoc(p, y), q)
      BY <2>1, PutAtPlace DEF S
    <3>2. QED
      BY <1>5, <3>1
  <2>3. PICK r \in Seq(S) : r = Snoc(p, y)
    BY WordTypes
  <2>4. Cat(r, q) \in Seq(S)
    BY WordTypes
  <2>5. Other(S, w, Cat(Snoc(p, y), q))
    BY <2>1 DEF Other
  <2>6. QED
    BY <2>2, <2>3, <2>4, <2>5 DEF Edit
<1>10. ASSUME NEW i \in 1 .. Len(w) + 1, NEW x \in S
       PROVE  DI!InsertAt(w, i, x) \in Seq(S) /\ Edit(S, w, DI!InsertAt(w, i, x))
  <2>1. PICK p \in Seq(S), q \in Seq(S) :
          p = Prefix(w, i - 1) /\ q = Rest(w, i - 1) /\ w = Cat(p, q)
    BY <1>0, <1>6, SplitAt DEF S
  <2>2. DI!InsertAt(w, i, x) = Cat(Snoc(p, x), q)
    BY <1>4, <1>7, <2>1
  <2>3. PICK r \in Seq(S) : r = Snoc(p, x)
    BY WordTypes
  <2>4. Cat(r, q) \in Seq(S)
    BY WordTypes
  <2>5. More(S, w, Cat(Snoc(p, x), q))
    BY <2>1 DEF More
  <2>6. QED
    BY <2>2, <2>3, <2>4, <2>5 DEF Edit
<1>11. ASSUME NEW v \in DI!Edited(w) PROVE v \in Seq(S) /\ Edit(S, w, v)
  <2>1. CASE v = w
    BY <2>1 DEF Edit, S
  <2>2. CASE \E i \in DOMAIN w : v = DI!RemoveAt(w, i)
    BY <1>0, <1>8, <2>2
  <2>3. CASE \E i \in DOMAIN w : \E x \in S : v = DI!ReplaceAt(w, i, x)
    BY <1>0, <1>9, <2>3
  <2>4. CASE \E i \in 1 .. Len(w) + 1 : \E x \in S : v = DI!InsertAt(w, i, x)
    BY <1>10, <2>4
  <2>5. QED
    BY <1>1, <2>1, <2>2, <2>3, <2>4
<1>12. ASSUME NEW v \in Seq(S), Edit(S, w, v) PROVE v \in DI!Edited(w)
  <2>1. CASE w = v
    BY <1>1, <2>1
  <2>2. CASE Fewer(S, w, v)
    <3>1. PICK p \in Seq(S), q \in Seq(S), x \in S : w = Cat(Snoc(p, x), q) /\ v = Cat(p, q)
      BY <2>2 DEF Fewer
    <3>2. PICK i \in 1 .. Len(w) : p = Prefix(w, i - 1) /\ q = Rest(w, i)
      BY <3>1, PlaceOf DEF S
    <3>3. v = DI!RemoveAt(w, i)
      BY <1>3, <3>1, <3>2
    <3>4. QED
      BY <1>0, <1>1, <3>3
  <2>3. CASE Other(S, w, v)
    <3>1. PICK p \in Seq(S), q \in Seq(S), x \in S, y \in S :
            w = Cat(Snoc(p, x), q) /\ v = Cat(Snoc(p, y), q)
      BY <2>3 DEF Other
    <3>2. PICK i \in 1 .. Len(w) : p = Prefix(w, i - 1) /\ q = Rest(w, i)
      BY <3>1, PlaceOf DEF S
    <3>3. [w EXCEPT ![i] = y] = Cat(Snoc(Prefix(w, i - 1), y), Rest(w, i))
      BY PutAtPlace DEF S
    <3>4. v = DI!ReplaceAt(w, i, y)
      BY <1>5, <3>1, <3>2, <3>3
    <3>5. QED
      BY <1>0, <1>1, <3>4
  <2>4. CASE More(S, w, v)
    <3>1. PICK p \in Seq(S), q \in Seq(S), x \in S : w = Cat(p, q) /\ v = Cat(Snoc(p, x), q)
      BY <2>4 DEF More
    <3>2. Len(p) \in 0 .. Len(w) /\ p = Prefix(w, Len(p)) /\ q = Rest(w, Len(p))
      BY <3>1, SplitBack
    <3>3. PICK i \in 1 .. Len(w) + 1 : p = Prefix(w, i - 1) /\ q = Rest(w, i - 1)
      <4>1. Len(p) + 1 \in 1 .. Len(w) + 1 /\ (Len(p) + 1) - 1 = Len(p)
        BY <1>0, <3>2
      <4>2. QED
        BY <3>2, <4>1
    <3>4. v = DI!InsertAt(w, i, x)
      BY <1>4, <1>7, <3>1, <3>3
    <3>5. QED
      BY <1>1, <3>4
  <2>5. QED
    BY <1>12, <2>1, <2>2, <2>3, <2>4 DEF Edit
<1>13. QED
  <2>1. \A v : v \in DI!Edited(w) <=> v \in Seq(S) /\ Edit(S, w, v)
    BY <1>11, <1>12
  <2>2. QED
    BY <2>1 DEF S

\* The words so many edits away, as MatchIsClosest makes them.
EditedUp(f) ==
  f = [n \in 0 .. Distance |-> IF n = 0 THEN {intent} ELSE UNION {DI!Edited(w) : w \in f[n - 1]}]
EditedWords == CHOOSE f : EditedUp(f)

\* They are the words that so many edits lead to.
LEMMA EditedWordsAre ==
  ASSUME Distance \in Nat, intent \in Seq(DI!Letters)
  PROVE  EditedWords[Distance] = {v \in Seq(DI!Letters) : Near(DI!Letters, Distance, intent, v)}
<1> DEFINE S == DI!Letters
           After(W) == UNION {DI!Edited(w) : w \in W}
           step == [n \in 1 .. Distance |-> [W \in SUBSET Seq(S) |-> After(W)]]
<1>0. intent \in Seq(S)
  OBVIOUS
<1> HIDE DEF S
<1>1. \A W \in SUBSET Seq(S) : After(W) = {v \in Seq(S) : \E w \in W : Edit(S, w, v)}
  <2>1. \A w \in Seq(S) : DI!Edited(w) = {v \in Seq(S) : Edit(S, w, v)}
    BY EditedIs DEF S
  <2>2. QED
    BY <2>1
<1>2. \E f \in [0 .. Distance -> SUBSET Seq(S)] : EditedUp(f)
  <2>1. step \in [1 .. Distance -> [SUBSET Seq(S) -> SUBSET Seq(S)]]
    <3>1. \A W \in SUBSET Seq(S) : After(W) \in SUBSET Seq(S)
      BY <1>1
    <3> HIDE DEF After
    <3>2. QED
      BY <3>1
  <2>2. PICK f \in [0 .. Distance -> SUBSET Seq(S)] : FollowsFrom(f, {intent}, step, Distance)
    <3>1. {intent} \in SUBSET Seq(S)
      BY <1>0
    <3> HIDE DEF step
    <3>2. QED
      BY <2>1, <3>1, Recursion
  <2>3. ASSUME NEW n \in 0 .. Distance, n # 0 PROVE step[n][f[n - 1]] = After(f[n - 1])
    <3>1. n \in 1 .. Distance /\ n - 1 \in 0 .. Distance
      BY <2>3
    <3>2. f[n - 1] \in SUBSET Seq(S)
      BY <3>1
    <3> HIDE DEF After
    <3>3. QED
      BY <3>1, <3>2
  <2>4. f = [n \in 0 .. Distance |-> IF n = 0 THEN {intent} ELSE After(f[n - 1])]
    <3> HIDE DEF step, After
    <3>1. QED
      BY <2>2, <2>3 DEF FollowsFrom
  <2>5. QED
    BY <2>4 DEF EditedUp
<1>3. EditedUp(EditedWords)
  BY <1>2 DEF EditedWords
<1>4. PICK g : g = EditedWords
  OBVIOUS
<1>5. \A n \in 0 .. Distance : g[n] = IF n = 0 THEN {intent} ELSE After(g[n - 1])
  <2>1. g = [n \in 0 .. Distance |-> IF n = 0 THEN {intent} ELSE After(g[n - 1])]
    BY <1>3, <1>4 DEF EditedUp
  <2> HIDE DEF After
  <2>2. QED
    BY <2>1
<1> DEFINE At(n) == {v \in Seq(S) : Near(S, n, intent, v)}
           T == {n \in 0 .. Distance : g[n] = At(n)}
<1>6. 0 \in T
  <2>0. 0 \in 0 .. Distance
    OBVIOUS
  <2>1. g[0] = {intent}
    <3> HIDE DEF After
    <3>1. QED
      BY <1>5, <2>0
  <2>2. \A v \in Seq(S) : Near(S, 0, intent, v) <=> intent = v
    BY <1>0, NearZero
  <2>3. g[0] = At(0)
    BY <1>0, <2>1, <2>2
  <2>4. QED
    BY <2>0, <2>3
<1>7. ASSUME NEW n \in 1 .. Distance, n - 1 \in T PROVE n \in T
  <2>0. n \in 0 .. Distance /\ n # 0 /\ n - 1 \in Nat /\ (n - 1) + 1 = n
    OBVIOUS
  <2>1. g[n] = After(g[n - 1]) /\ g[n - 1] = At(n - 1)
    <3> HIDE DEF After, At
    <3>1. QED
      BY <1>5, <1>7, <2>0
  <2>2. \A v \in Seq(S) :
          Near(S, n, intent, v) <=> \E w \in Seq(S) : Near(S, n - 1, intent, w) /\ Edit(S, w, v)
    <3>1. \A v \in Seq(S) :
            Near(S, (n - 1) + 1, intent, v)
              <=> \E w \in Seq(S) : Near(S, n - 1, intent, w) /\ Edit(S, w, v)
      BY <1>0, <2>0, NearLast
    <3>2. QED
      BY <2>0, <3>1
  <2>3. After(At(n - 1)) = {v \in Seq(S) : \E w \in At(n - 1) : Edit(S, w, v)}
    <3>1. At(n - 1) \in SUBSET Seq(S)
      OBVIOUS
    <3> HIDE DEF At, After
    <3>2. QED
      BY <1>1, <3>1
  <2>4. {v \in Seq(S) : \E w \in At(n - 1) : Edit(S, w, v)} = At(n)
    BY <2>2
  <2>5. g[n] = At(n)
    <3> HIDE DEF At, After
    <3>1. QED
      BY <2>1, <2>3, <2>4
  <2>6. QED
    BY <2>0, <2>5
<1>8. Distance \in T
  <2> HIDE DEF T
  <2>1. \A n \in 0 .. Distance : n \in T
    BY <1>6, <1>7, StepByStep
  <2>2. QED
    BY <2>1
<1>9. QED
  BY <1>4, <1>8 DEF S

------------------------------------------------------------------------------
(* Rendering *)

\* What String::replace puts in the place of a letter.
Instead(x, marker, by) == IF x = marker THEN by ELSE <<x>>

\* The old as it is replaced letter after letter.
Replacing(f, S, old, marker, by) ==
  /\ f \in [0 .. Len(old) -> Seq(S)]
  /\ f[0] = <<>>
  /\ \A n \in 1 .. Len(old) : f[n] = Cat(f[n - 1], Instead(old[n], marker, by))
  /\ DI!Replaced(old, marker, by) = f[Len(old)]

\* Every old is replaced so.
LEMMA ReplacedSteps ==
  ASSUME NEW S, NEW old \in Seq(S), NEW marker, NEW by \in Seq(S)
  PROVE  \E f : Replacing(f, S, old, marker, by)
<1>0. PICK m \in Nat : m = Len(old) /\ old \in [1 .. m -> S]
  BY LenProperties
<1> DEFINE part(n) == Instead(old[n], marker, by)
           Up(f) == f = [n \in 0 .. m |-> IF n = 0 THEN <<>> ELSE Cat(f[n - 1], part(n))]
           step == [n \in 1 .. m |-> [u \in Seq(S) |-> Cat(u, part(n))]]
           g == CHOOSE f : Up(f)
<1>1. \A n \in 1 .. m : part(n) \in Seq(S)
  BY <1>0 DEF Instead
<1>2. \A n \in 1 .. m : \A u \in Seq(S) : Cat(u, part(n)) \in Seq(S)
  <2>1. ASSUME NEW n \in 1 .. m, NEW u \in Seq(S) PROVE Cat(u, part(n)) \in Seq(S)
    <3>1. PICK v \in Seq(S) : v = part(n)
      BY <1>1
    <3>2. Cat(u, v) \in Seq(S)
      BY ConcatProperties DEF Cat
    <3>3. QED
      BY <3>1, <3>2
  <2> HIDE DEF part
  <2>2. QED
    BY <2>1
<1>3. \E f \in [0 .. m -> Seq(S)] : Up(f)
  <2> HIDE DEF part
  <2>1. step \in [1 .. m -> [Seq(S) -> Seq(S)]]
    BY <1>2
  <2>2. PICK f \in [0 .. m -> Seq(S)] : FollowsFrom(f, <<>>, step, m)
    <3>1. <<>> \in Seq(S)
      OBVIOUS
    <3> HIDE DEF step
    <3>2. QED
      BY <1>0, <2>1, <3>1, Recursion
  <2>3. ASSUME NEW n \in 0 .. m, n # 0 PROVE step[n][f[n - 1]] = Cat(f[n - 1], part(n))
    <3>1. n \in 1 .. m /\ n - 1 \in 0 .. m
      BY <1>0, <2>3
    <3>2. f[n - 1] \in Seq(S)
      BY <3>1
    <3>3. QED
      BY <3>1, <3>2
  <2>4. Up(f)
    <3> HIDE DEF step
    <3>1. QED
      BY <2>2, <2>3 DEF FollowsFrom
  <2>5. QED
    BY <2>4
<1>4. Up(g)
  BY <1>3
<1>5. DI!Replaced(old, marker, by) = g[m]
  BY <1>0 DEF DI!Replaced, Cat, Instead
<1> HIDE DEF g
<1>6. /\ g = [n \in 0 .. m |-> g[n]]
      /\ \A n \in 0 .. m : g[n] = IF n = 0 THEN <<>> ELSE Cat(g[n - 1], part(n))
  <2> HIDE DEF part
  <2>1. QED
    BY <1>4
<1>7. \A n \in 0 .. m : g[n] \in Seq(S)
  <2> HIDE DEF part
  <2> DEFINE T == {n \in 0 .. m : g[n] \in Seq(S)}
  <2>1. 0 \in T
    BY <1>0, <1>6
  <2>2. ASSUME NEW n \in 1 .. m, n - 1 \in T PROVE n \in T
    <3>1. n \in 0 .. m /\ n # 0 /\ g[n - 1] \in Seq(S)
      BY <1>0, <2>2
    <3>2. QED
      BY <1>2, <1>6, <3>1
  <2>3. \A n \in 0 .. m : n \in T
    <3> HIDE DEF T
    <3>1. QED
      BY <1>0, <2>1, <2>2, StepByStep
  <2>4. QED
    BY <2>3
<1>8. g \in [0 .. m -> Seq(S)]
  BY <1>6, <1>7
<1>9. Replacing(g, S, old, marker, by)
  <2>1. g[0] = <<>>
    <3> HIDE DEF part
    <3>1. QED
      BY <1>0, <1>6
  <2>2. \A n \in 1 .. m : g[n] = Cat(g[n - 1], part(n))
    <3>1. \A n \in 1 .. m : n \in 0 .. m /\ n # 0
      BY <1>0
    <3> HIDE DEF part
    <3>2. QED
      BY <1>6, <3>1
  <2>3. QED
    BY <1>0, <1>5, <1>8, <2>1, <2>2 DEF Replacing
<1>10. QED
  BY <1>9

\* What is replaced has the letters of both.
LEMMA ReplacedTypes ==
  ASSUME NEW S, NEW old \in Seq(S), NEW marker, NEW by \in Seq(S)
  PROVE  DI!Replaced(old, marker, by) \in Seq(S)
<1>1. PICK f : Replacing(f, S, old, marker, by)
  BY ReplacedSteps
<1>2. Len(old) \in 0 .. Len(old)
  BY LenProperties
<1>3. QED
  BY <1>1, <1>2 DEF Replacing

\* With a letter in its place, the text stays as it is elsewhere.
LEMMA ReplacedByLetter ==
  ASSUME NEW S, NEW old \in Seq(S), NEW marker, NEW z \in S
  PROVE  /\ DI!Replaced(old, marker, <<z>>) \in Seq(S)
         /\ Len(DI!Replaced(old, marker, <<z>>)) = Len(old)
         /\ \A i \in 1 .. Len(old) :
              DI!Replaced(old, marker, <<z>>)[i] = IF old[i] = marker THEN z ELSE old[i]
<1>0. PICK m \in Nat : m = Len(old) /\ old \in [1 .. m -> S]
  BY LenProperties
<1>1. PICK f : Replacing(f, S, old, marker, <<z>>)
  <2>1. <<z>> \in Seq(S)
    OBVIOUS
  <2>2. QED
    BY <2>1, ReplacedSteps
<1> DEFINE letter(i) == IF old[i] = marker THEN z ELSE old[i]
<1>2. /\ f \in [0 .. m -> Seq(S)] /\ f[0] = <<>>
      /\ \A n \in 1 .. m : f[n] = Cat(f[n - 1], Instead(old[n], marker, <<z>>))
      /\ DI!Replaced(old, marker, <<z>>) = f[m]
  BY <1>0, <1>1 DEF Replacing
<1>3. \A n \in 1 .. m : letter(n) \in S /\ Instead(old[n], marker, <<z>>) = <<letter(n)>>
  BY <1>0 DEF Instead
<1> HIDE DEF letter
<1>4. \A n \in 1 .. m : f[n] = Snoc(f[n - 1], letter(n)) /\ f[n - 1] \in Seq(S)
  <2>1. ASSUME NEW n \in 1 .. m PROVE f[n] = Snoc(f[n - 1], letter(n)) /\ f[n - 1] \in Seq(S)
    <3>1. f[n] = Cat(f[n - 1], <<letter(n)>>) /\ f[n - 1] \in Seq(S) /\ letter(n) \in S
      <4>1. n \in 0 .. m /\ n - 1 \in 0 .. m
        OBVIOUS
      <4>2. QED
        BY <1>2, <1>3, <4>1
    <3>2. QED
      BY <3>1, AppendIsConcat DEF Cat, Snoc
  <2>2. QED
    BY <2>1
<1> DEFINE T == {n \in 0 .. m : Len(f[n]) = n /\ \A i \in 1 .. n : f[n][i] = letter(i)}
<1>5. 0 \in T
  BY <1>2
<1>6. ASSUME NEW n \in 1 .. m, n - 1 \in T PROVE n \in T
  <2>1. PICK u \in Seq(S), x \in S : u = f[n - 1] /\ x = letter(n) /\ f[n] = Snoc(u, x)
    BY <1>3, <1>4
  <2>2. Len(u) = n - 1 /\ \A i \in 1 .. n - 1 : u[i] = letter(i)
    BY <1>6, <2>1
  <2>3. /\ Len(Snoc(u, x)) = Len(u) + 1 /\ Snoc(u, x)[Len(u) + 1] = x
        /\ \A i \in 1 .. Len(u) : Snoc(u, x)[i] = u[i]
    BY AppendProperties DEF Snoc
  <2>4. Len(f[n]) = n /\ f[n][n] = letter(n) /\ \A i \in 1 .. n - 1 : f[n][i] = letter(i)
    BY <2>1, <2>2, <2>3
  <2>5. \A i \in 1 .. n : i = n \/ i \in 1 .. n - 1
    OBVIOUS
  <2>6. QED
    BY <2>4, <2>5
<1>7. \A n \in 0 .. m : n \in T
  <2> HIDE DEF T
  <2>1. QED
    BY <1>0, <1>5, <1>6, StepByStep
<1>8. f[m] \in Seq(S) /\ Len(f[m]) = m /\ \A i \in 1 .. m : f[m][i] = letter(i)
  BY <1>0, <1>2, <1>7
<1>9. QED
  BY <1>0, <1>2, <1>8 DEF letter

\* What escaping makes of a letter.
Escape(x) ==
  IF x \in {<<n>> : n \in {"intent", "memory", "wiki", "summary"}} THEN <<"escaped", x>> ELSE x

\* The hole is the only letter that is a hole when escaped.
LEMMA HoleStays == \A x : Escape(x) = DI!Hole <=> x = DI!Hole
<1>1. DI!Hole \notin {<<n>> : n \in {"intent", "memory", "wiki", "summary"}}
  BY DEF DI!Hole
<1>2. \A x : <<"escaped", x>> # DI!Hole
  BY DEF DI!Hole
<1>3. QED
  BY <1>1, <1>2 DEF Escape

\* A word escaped is as long, and every letter of it escaped.
LEMMA EscapedLetters ==
  ASSUME NEW S, NEW E, \A x \in S : Escape(x) \in E, NEW u \in Seq(S)
  PROVE  /\ DI!Escaped(u) \in Seq(E) /\ Len(DI!Escaped(u)) = Len(u)
         /\ \A i \in 1 .. Len(u) : DI!Escaped(u)[i] = Escape(u[i])
<1>0. PICK m \in Nat : m = Len(u) /\ u \in [1 .. m -> S]
  BY LenProperties
<1>1. DI!Escaped(u) = [i \in 1 .. m |-> Escape(u[i])]
  BY <1>0 DEF DI!Escaped, Escape
<1>2. [i \in 1 .. m |-> Escape(u[i])] \in [1 .. m -> E]
  BY <1>0
<1>3. \A f \in [1 .. m -> E] : f \in Seq(E) /\ Len(f) = m
  BY <1>0
<1>4. QED
  BY <1>0, <1>1, <1>2, <1>3

\* A word of one letter escaped has that letter escaped.
LEMMA EscapedOne == \A x : DI!Escaped(<<x>>) = <<Escape(x)>>
<1> SUFFICES ASSUME NEW x PROVE DI!Escaped(<<x>>) = <<Escape(x)>>
  OBVIOUS
<1>1. PICK S : S = {x}
  OBVIOUS
<1> DEFINE E == {Escape(x)}
<1>2. x \in S /\ \A y \in S : Escape(y) \in E
  BY <1>1
<1> HIDE DEF E
<1>3. PICK w : w = <<x>>
  OBVIOUS
<1>4. w \in Seq(S) /\ Len(w) = 1 /\ w[1] = x
  BY <1>2, <1>3
<1>5. /\ DI!Escaped(w) \in Seq(E) /\ Len(DI!Escaped(w)) = Len(w)
      /\ \A i \in 1 .. Len(w) : DI!Escaped(w)[i] = Escape(w[i])
  BY <1>2, <1>4, EscapedLetters
<1>6. PICK v \in Seq(E) : v = DI!Escaped(w) /\ Len(v) = 1 /\ v[1] = Escape(x)
  BY <1>4, <1>5
<1>7. v = <<Escape(x)>>
  BY <1>6 DEF E
<1>8. QED
  BY <1>3, <1>6, <1>7

\* Words are escaped one by one.
LEMMA EscapedCat ==
  ASSUME NEW S, NEW E, \A x \in S : Escape(x) \in E, NEW u \in Seq(S), NEW v \in Seq(S)
  PROVE  DI!Escaped(Cat(u, v)) = Cat(DI!Escaped(u), DI!Escaped(v))
<1>1. PICK w \in Seq(S) : w = Cat(u, v)
  BY ConcatProperties DEF Cat
<1>2. /\ Len(w) = Len(u) + Len(v) /\ Len(u) \in Nat /\ Len(v) \in Nat
      /\ \A i \in 1 .. Len(u) + Len(v) : w[i] = IF i <= Len(u) THEN u[i] ELSE v[i - Len(u)]
  BY <1>1, ConcatProperties, LenProperties DEF Cat
<1>3. PICK a \in Seq(E), b \in Seq(E), c \in Seq(E) :
        a = DI!Escaped(u) /\ b = DI!Escaped(v) /\ c = DI!Escaped(w)
  BY EscapedLetters
<1>4. /\ Len(a) = Len(u) /\ \A i \in 1 .. Len(u) : a[i] = Escape(u[i])
      /\ Len(b) = Len(v) /\ \A i \in 1 .. Len(v) : b[i] = Escape(v[i])
      /\ Len(c) = Len(w) /\ \A i \in 1 .. Len(w) : c[i] = Escape(w[i])
  BY <1>3, EscapedLetters
<1>5. PICK d \in Seq(E) : d = Cat(a, b)
  BY ConcatProperties DEF Cat
<1>6. /\ Len(d) = Len(a) + Len(b)
      /\ \A i \in 1 .. Len(a) + Len(b) : d[i] = IF i <= Len(a) THEN a[i] ELSE b[i - Len(a)]
  BY <1>5, ConcatProperties DEF Cat
<1>7. ASSUME NEW i \in 1 .. Len(c) PROVE c[i] = d[i]
  <2>0. i \in 1 .. Len(u) + Len(v) /\ i \in 1 .. Len(w)
    BY <1>2, <1>4
  <2>1. c[i] = Escape(w[i]) /\ d[i] = IF i <= Len(u) THEN a[i] ELSE b[i - Len(u)]
    BY <1>4, <1>6, <2>0
  <2>2. CASE i <= Len(u)
    <3>1. i \in 1 .. Len(u)
      BY <1>2, <2>0, <2>2
    <3>2. QED
      BY <1>2, <1>4, <2>0, <2>1, <2>2, <3>1
  <2>3. CASE ~(i <= Len(u))
    <3>1. i - Len(u) \in 1 .. Len(v)
      BY <1>2, <2>0, <2>3
    <3>2. QED
      BY <1>2, <1>4, <2>0, <2>1, <2>3, <3>1
  <2>4. QED
    BY <2>2, <2>3
<1>8. Len(c) = Len(d)
  BY <1>2, <1>4, <1>6
<1>9. c = d
  BY <1>7, <1>8, SeqEqual
<1>10. QED
  BY <1>1, <1>3, <1>5, <1>9

\* Replaced and then escaped is escaped, with a hole where the marker was, and the hole
\* filled with what is escaped itself.
LEMMA EscapedThroughHole ==
  ASSUME NEW S, NEW old \in Seq(S), DI!Hole \notin S,
         NEW marker, NEW M, NEW by \in Seq(M), S \subseteq M, DI!Hole \in M
  PROVE  DI!Escaped(DI!Replaced(old, marker, by))
           = DI!Replaced(DI!Escaped(DI!Replaced(old, marker, <<DI!Hole>>)), DI!Hole, DI!Escaped(by))
<1> DEFINE E == M \cup {<<"escaped", x>> : x \in M}
<1>0. PICK m \in Nat : m = Len(old) /\ old \in [1 .. m -> S]
  BY LenProperties
<1>1. \A x \in M : Escape(x) \in E
  BY DEF Escape
<1> HIDE DEF E
<1>2. old \in Seq(M)
  BY SeqMonotonic
<1>3. PICK f : Replacing(f, M, old, marker, by)
  BY <1>2, ReplacedSteps
<1>4. PICK g \in Seq(M) : /\ g = DI!Replaced(old, marker, <<DI!Hole>>) /\ Len(g) = m
                          /\ \A i \in 1 .. m : g[i] = IF old[i] = marker THEN DI!Hole ELSE old[i]
  BY <1>0, <1>2, ReplacedByLetter
<1>5. PICK t \in Seq(E) : /\ t = DI!Escaped(g) /\ Len(t) = m
                          /\ \A i \in 1 .. m : t[i] = Escape(g[i])
  <2>1. /\ DI!Escaped(g) \in Seq(E) /\ Len(DI!Escaped(g)) = Len(g)
        /\ \A i \in 1 .. Len(g) : DI!Escaped(g)[i] = Escape(g[i])
    BY <1>1, EscapedLetters
  <2>2. QED
    BY <1>4, <2>1
<1>6. DI!Escaped(by) \in Seq(E)
  BY <1>1, EscapedLetters
<1>7. PICK h : Replacing(h, E, t, DI!Hole, DI!Escaped(by))
  BY <1>6, ReplacedSteps
<1>8. /\ f \in [0 .. m -> Seq(M)] /\ f[0] = <<>>
      /\ \A n \in 1 .. m : f[n] = Cat(f[n - 1], Instead(old[n], marker, by))
      /\ DI!Replaced(old, marker, by) = f[m]
  BY <1>0, <1>3 DEF Replacing
<1>9. /\ h \in [0 .. m -> Seq(E)] /\ h[0] = <<>>
      /\ \A n \in 1 .. m : h[n] = Cat(h[n - 1], Instead(t[n], DI!Hole, DI!Escaped(by)))
      /\ DI!Replaced(t, DI!Hole, DI!Escaped(by)) = h[m]
  BY <1>5, <1>7 DEF Replacing
<1>10. ASSUME NEW n \in 1 .. m
       PROVE  DI!Escaped(Instead(old[n], marker, by)) = Instead(t[n], DI!Hole, DI!Escaped(by))
  <2>1. CASE old[n] = marker
    <3>1. t[n] = DI!Hole
      BY <1>4, <1>5, <2>1, HoleStays
    <3>2. QED
      BY <2>1, <3>1 DEF Instead
  <2>2. CASE old[n] # marker
    <3>1. t[n] = Escape(old[n]) /\ old[n] \in S
      BY <1>0, <1>4, <1>5, <2>2
    <3>2. t[n] # DI!Hole
      BY <3>1, HoleStays
    <3>3. DI!Escaped(<<old[n]>>) = <<Escape(old[n])>>
      BY EscapedOne
    <3>4. QED
      BY <2>2, <3>1, <3>2, <3>3 DEF Instead
  <2>3. QED
    BY <2>1, <2>2
<1> DEFINE T == {n \in 0 .. m : DI!Escaped(f[n]) = h[n]}
<1>11. 0 \in T
  <2>1. DI!Escaped(<<>>) = <<>>
    BY DEF DI!Escaped
  <2>2. QED
    BY <1>8, <1>9, <2>1
<1>12. ASSUME NEW n \in 1 .. m, n - 1 \in T PROVE n \in T
  <2>0. n \in 0 .. m /\ n - 1 \in 0 .. m
    OBVIOUS
  <2>1. PICK u \in Seq(M), v \in Seq(M) :
          u = f[n - 1] /\ v = Instead(old[n], marker, by) /\ f[n] = Cat(u, v)
    <3>1. Instead(old[n], marker, by) \in Seq(M)
      BY <1>0 DEF Instead
    <3>2. QED
      BY <1>8, <2>0, <3>1
  <2>2. DI!Escaped(f[n]) = Cat(DI!Escaped(u), DI!Escaped(v))
    BY <1>1, <2>1, EscapedCat
  <2>3. DI!Escaped(u) = h[n - 1] /\ DI!Escaped(v) = Instead(t[n], DI!Hole, DI!Escaped(by))
    BY <1>10, <1>12, <2>1
  <2>4. DI!Escaped(f[n]) = h[n]
    BY <1>9, <2>2, <2>3
  <2>5. QED
    BY <2>0, <2>4
<1>13. m \in T
  <2> HIDE DEF T
  <2>1. \A n \in 0 .. m : n \in T
    BY <1>11, <1>12, StepByStep
  <2>2. QED
    BY <2>1
<1>14. DI!Escaped(f[m]) = h[m]
  BY <1>13
<1>15. QED
  BY <1>4, <1>5, <1>8, <1>9, <1>14

\* Templates with memory, wiki and summary filled in have no hole.
LEMMA FilledPlain ==
  ASSUME NEW old \in DI!PlainTexts,
         NEW ctx \in [{<<"memory">>, <<"wiki">>, <<"summary">>} -> DI!PlainTexts]
  PROVE  DI!Filled(old, ctx) \in DI!PlainTexts
<1> DEFINE S == Seq(STRING) \ {DI!Hole}
<1>0. DI!PlainTexts = Seq(S)
  BY DEF DI!PlainTexts
<1>1. PICK a \in Seq(S), b \in Seq(S), c \in Seq(S) :
        a = ctx[<<"memory">>] /\ b = ctx[<<"wiki">>] /\ c = ctx[<<"summary">>]
  BY <1>0
<1> HIDE DEF S
<1>2. PICK t \in Seq(S) : t = DI!Replaced(old, <<"memory">>, a)
  BY <1>0, ReplacedTypes
<1>3. PICK u \in Seq(S) : u = DI!Replaced(t, <<"wiki">>, b)
  BY ReplacedTypes
<1>4. DI!Replaced(u, <<"summary">>, c) \in Seq(S)
  BY ReplacedTypes
<1>5. DI!Filled(old, ctx) = DI!Replaced(u, <<"summary">>, c)
  BY <1>1, <1>2, <1>3 DEF DI!Filled
<1>6. QED
  BY <1>0, <1>4, <1>5

\* Whatever is said, it is escaped and put where the template wants it.
LEMMA RenderedThroughHole ==
  ASSUME NEW old \in DI!PlainTexts,
         NEW ctx \in [{<<"memory">>, <<"wiki">>, <<"summary">>} -> DI!PlainTexts],
         NEW words \in Seq(Seq(STRING))
  PROVE  DI!Render(old, words, ctx)
           = DI!Replaced(DI!Render(old, <<DI!Hole>>, ctx), DI!Hole, DI!Escaped(words))
<1>1. PICK t \in DI!PlainTexts : t = DI!Filled(old, ctx)
  BY FilledPlain
<1> DEFINE S == Seq(STRING) \ {DI!Hole}
           M == Seq(STRING) \cup {DI!Hole}
<1>2. t \in Seq(S) /\ DI!Hole \notin S /\ S \subseteq M
  BY DEF DI!PlainTexts
<1>3. DI!Hole \in M
  OBVIOUS
<1> HIDE DEF S, M
<1>4. DI!Escaped(DI!Replaced(t, DI!IntentMarker, words))
        = DI!Replaced(DI!Escaped(DI!Replaced(t, DI!IntentMarker, <<DI!Hole>>)), DI!Hole, DI!Escaped(words))
  <2>1. words \in Seq(M)
    <3>1. \A T, U : T \subseteq U => Seq(T) \subseteq Seq(U)
      OBVIOUS
    <3>2. QED
      BY <3>1 DEF M
  <2>2. QED
    BY <1>2, <1>3, <2>1, EscapedThroughHole
<1>5. QED
  BY <1>1, <1>4 DEF DI!Render

\* The words of a state, the skills it has, and what was dispatched in it.
DispatchInv ==
  /\ offered \in Seq(DI!Skill) /\ skills \subseteq DI!Skill
  /\ intent \in Seq(Seq(STRING))
  /\ context \in [{<<"memory">>, <<"wiki">>, <<"summary">>} -> DI!PlainTexts]
  /\ (outcome # None /\ outcome.kind = "dispatched") =>
       /\ outcome.skill \in DI!Skill /\ outcome.skill.needs \subseteq Granted
       /\ outcome.text = DI!Render(outcome.skill.template, intent, context)

\* A match is as close as the edits say.
LEMMA MatchesAreNear ==
  ASSUME Distance \in Nat, DispatchInv, NEW s \in skills, NEW p \in s.patterns
  PROVE  DI!LevenshteinWithin(intent, p) <=> p \in EditedWords[Distance]
<1> DEFINE S == DI!Letters
<1>1. s.patterns \subseteq Seq(Seq(STRING))
  BY DEF DispatchInv, DI!Skill
<1>2. \A q : q \in Seq(Seq(STRING)) /\ DI!ToSet(q) \subseteq S => q \in Seq(S)
  <2>1. ASSUME NEW q \in Seq(Seq(STRING)), DI!ToSet(q) \subseteq S PROVE q \in Seq(S)
    <3>1. Len(q) \in Nat /\ DOMAIN q = 1 .. Len(q) /\ q = [i \in 1 .. Len(q) |-> q[i]]
      BY LenProperties
    <3>2. \A i \in 1 .. Len(q) : q[i] \in S
      BY <2>1, <3>1 DEF DI!ToSet
    <3> HIDE DEF S
    <3>3. q \in [1 .. Len(q) -> S]
      BY <3>1, <3>2
    <3>4. QED
      BY <3>1, <3>3
  <2>2. QED
    BY <2>1
<1>3. DI!ToSet(p) \subseteq S /\ DI!ToSet(intent) \subseteq S
  <2>1. \A x \in DI!ToSet(p) : x \in UNION {DI!ToSet(q) : q \in s.patterns}
    BY Zenon
  <2>2. \A x \in UNION {DI!ToSet(q) : q \in s.patterns} :
          x \in UNION {UNION {DI!ToSet(q) : q \in t.patterns} : t \in skills}
    BY Zenon
  <2>3. DI!ToSet(p) \subseteq DI!Letters
    BY <2>1, <2>2, Zenon DEF DI!Letters
  <2>4. DI!ToSet(intent) \subseteq DI!Letters
    BY Zenon DEF DI!Letters
  <2>5. QED
    BY <2>3, <2>4, Zenon
<1>4. p \in Seq(S) /\ intent \in Seq(S)
  BY <1>1, <1>2, <1>3 DEF DispatchInv
<1>5. DI!LevenshteinWithin(intent, p) <=> Near(S, Distance, intent, p)
  <2> HIDE DEF S
  <2>1. QED
    BY <1>4, LevenshteinRight
<1>6. EditedWords[Distance] = {v \in Seq(S) : Near(S, Distance, intent, v)}
  BY <1>4, EditedWordsAre
<1>7. QED
  <2> HIDE DEF S
  <2>1. QED
    BY <1>4, <1>5, <1>6

\* Skills are matched by distance, dispatched to those who may use them, and their templates
\* rendered without a look into what was said.
THEOREM DispatchIsSafe ==
  ASSUME DI!DispatchAssumption
  PROVE  DI!DispatchSpec => [](DI!MatchIsClosest /\ DI!IntentIsOpaque)
<1>1. DI!DispatchInit => DispatchInv
  BY DEF DI!DispatchInit, DispatchInv, DI!DispatchAssumption
<1>2. DispatchInv /\ [DI!DispatchNext]_(DI!dispatchVars) => DispatchInv'
  <2> SUFFICES ASSUME DispatchInv, [DI!DispatchNext]_(DI!dispatchVars) PROVE DispatchInv'
    OBVIOUS
  <2>1. CASE UNCHANGED DI!dispatchVars
    BY <2>1 DEF DI!dispatchVars, DispatchInv
  <2>2. CASE DI!Register
    <3>1. offered \in Seq(DI!Skill) /\ offered # <<>> /\ offered' = Tail(offered)
      BY <2>2 DEF DI!Register, DispatchInv
    <3>2. Tail(offered) \in Seq(DI!Skill) /\ Head(offered) \in DI!Skill
      BY <3>1, HeadTailProperties
    <3>3. skills' \subseteq DI!Skill
      BY <2>2, <3>2 DEF DI!Register, DispatchInv
    <3>4. QED
      BY <2>2, <3>1, <3>2, <3>3 DEF DI!Register, DispatchInv
  <2>3. CASE DI!DispatchIntent
    <3>1. /\ UNCHANGED <<offered, skills, intent, context>>
          /\ \/ outcome' = DI!Refused("NoMatchingSkill", None)
             \/ \E s \in DI!BestMatches(intent) :
                  outcome' = IF DI!Admitted(s) THEN DI!RenderPipeline(s)
                             ELSE DI!Refused("SkillNotAllowed", s)
      BY <2>3, Zenon DEF DI!DispatchIntent
    <3>2. \A why, s : why # "dispatched" => DI!Refused(why, s).kind # "dispatched"
      BY DEF DI!Refused
    <3>3. (outcome' # None /\ outcome'.kind = "dispatched") =>
            /\ outcome'.skill \in DI!Skill /\ outcome'.skill.needs \subseteq Granted
            /\ outcome'.text = DI!Render(outcome'.skill.template, intent, context)
      <4>1. CASE outcome' = DI!Refused("NoMatchingSkill", None)
        BY <3>2, <4>1
      <4>2. ASSUME NEW s \in DI!BestMatches(intent),
                   outcome' = IF DI!Admitted(s) THEN DI!RenderPipeline(s)
                              ELSE DI!Refused("SkillNotAllowed", s)
            PROVE  (outcome' # None /\ outcome'.kind = "dispatched") =>
                     /\ outcome'.skill \in DI!Skill /\ outcome'.skill.needs \subseteq Granted
                     /\ outcome'.text = DI!Render(outcome'.skill.template, intent, context)
        <5>1. s \in DI!Skill
          BY DEF DI!BestMatches, DispatchInv
        <5>2. CASE ~DI!Admitted(s)
          BY <3>2, <4>2, <5>2
        <5>3. CASE DI!Admitted(s) /\ ~(s.commands \subseteq Commands)
          BY <3>2, <4>2, <5>3 DEF DI!RenderPipeline
        <5>4. CASE DI!Admitted(s) /\ s.commands \subseteq Commands
          <6>1. outcome' = [kind |-> "dispatched", skill |-> s,
                            text |-> DI!Render(s.template, intent, context)]
            BY <4>2, <5>4 DEF DI!RenderPipeline
          <6>2. outcome'.skill = s /\ outcome'.text = DI!Render(s.template, intent, context)
            BY <6>1
          <6>3. s.needs \subseteq Granted
            BY <5>4 DEF DI!Admitted
          <6>4. QED
            BY <5>1, <6>2, <6>3
        <5>5. QED
          BY <5>2, <5>3, <5>4
      <4>3. QED
        BY <3>1, <4>1, <4>2
    <3>4. QED
      BY <3>1, <3>3 DEF DispatchInv
  <2>4. QED
    BY <2>1, <2>2, <2>3 DEF DI!DispatchNext
<1>3. DispatchInv => DI!MatchIsClosest
  <2> SUFFICES ASSUME DispatchInv PROVE DI!MatchIsClosest
    OBVIOUS
  <2>1. \A s \in skills : \A p \in s.patterns :
          DI!LevenshteinWithin(intent, p) <=> p \in EditedWords[Distance]
    BY MatchesAreNear DEF DI!DispatchAssumption
  <2>2. (outcome # None /\ outcome.kind = "dispatched") => outcome.skill.needs \subseteq Granted
    BY DEF DispatchInv
  <2>3. QED
    BY <2>1, <2>2 DEF DI!MatchIsClosest, EditedWords, EditedUp
<1>4. DispatchInv => DI!IntentIsOpaque
  <2> SUFFICES ASSUME DispatchInv, outcome # None, outcome.kind = "dispatched"
               PROVE  outcome.text = DI!Replaced(DI!Render(outcome.skill.template, <<DI!Hole>>, context),
                                                 DI!Hole, DI!Escaped(intent))
    BY DEF DI!IntentIsOpaque
  <2>1. /\ outcome.text = DI!Render(outcome.skill.template, intent, context)
        /\ outcome.skill.template \in DI!PlainTexts
    BY DEF DispatchInv, DI!Skill
  <2>2. QED
    BY <2>1, RenderedThroughHole DEF DispatchInv
<1>5. QED
  BY <1>1, <1>2, <1>3, <1>4, PTL DEF DI!DispatchSpec

------------------------------------------------------------------------------
(* The composition *)

\* A behaviour of the composition is one of a single service.
LEMMA OneService == [Next]_vars => scene' = scene
BY DEF Next, vars, Dispatching, Compiling, Executing, Composing, Compacting

\* An interrupted intent is answered as a whole one, wherever intents are executed.
THEOREM AssistantAnswersWhole == Spec => []AnswerIsWhole
<1>1. Init /\ scene = "agent" => AG!AgentInit
  BY DEF Init
<1>2. scene = "agent" /\ [Next]_vars => [AG!AgentNext]_(AG!agentVars)
  BY DEF Next, vars, Dispatching, Compiling, Executing, Composing, Compacting, agentVars, AG!agentVars
<1>3. [Next]_vars => (scene = "agent" <=> (scene = "agent")')
  BY OneService
<1>4. AG!AgentSafety => [](AG!AnswerIsWhole /\ AG!NothingTwice)
  BY InterruptedAsWhole, AssistantAssumption DEF AssistantAssumption
<1>5. Safety => []AnswerIsWhole
  BY <1>1, <1>2, <1>3, <1>4, PTL DEF Safety, AG!AgentSafety, AnswerIsWhole
<1>6. QED
  BY <1>5, PTL DEF Spec

\* Decisions survive, wherever sessions are compacted.
THEOREM AssistantKeepsDecisions == Spec => []DecisionsKept
<1>1. Init /\ scene = "session" => CM!CompactionInit
  BY DEF Init
<1>2. scene = "session" /\ [Next]_vars => [CM!CompactionNext]_(CM!sessionVars)
  BY DEF Next, vars, Dispatching, Compiling, Executing, Composing, Compacting, sessionVars, CM!sessionVars
<1>3. [Next]_vars => (scene = "session" <=> (scene = "session")')
  BY OneService
<1>4. CM!CompactionSpec => []CM!DecisionsKept
  BY DecisionsSurvive, AssistantAssumption DEF AssistantAssumption
<1>5. Safety => []DecisionsKept
  BY <1>1, <1>2, <1>3, <1>4, PTL DEF Safety, CM!CompactionSpec, DecisionsKept
<1>6. QED
  BY <1>5, PTL DEF Spec

\* What AnswersCite says, of the composition.
THEOREM AssistantCites == Spec => []RefsAreCited
<1>1. Init /\ scene = "answer" => AN!AnswersInit
  BY DEF Init
<1>2. scene = "answer" /\ [Next]_vars => [AN!Compose]_(AN!answerVars)
  BY DEF Next, vars, Dispatching, Compiling, Executing, Composing, Compacting, answerVars, AN!answerVars
<1>3. [Next]_vars => (scene = "answer" <=> (scene = "answer")')
  BY OneService
<1>4. AN!AnswersSpec => []AN!RefsAreCited
  BY AnswersCite, AssistantAssumption DEF AssistantAssumption
<1>5. Safety => []RefsAreCited
  BY <1>1, <1>2, <1>3, <1>4, PTL DEF Safety, AN!AnswersSpec, RefsAreCited
<1>6. QED
  BY <1>5, PTL DEF Spec

\* What DispatchIsSafe says, of the composition.
THEOREM AssistantDispatches == Spec => []DispatchHolds
<1>1. Init /\ scene = "dispatch" => DI!DispatchInit
  BY DEF Init
<1>2. scene = "dispatch" /\ [Next]_vars => [DI!DispatchNext]_(DI!dispatchVars)
  BY DEF Next, vars, Dispatching, Compiling, Executing, Composing, Compacting, dispatchVars, DI!dispatchVars
<1>3. [Next]_vars => (scene = "dispatch" <=> (scene = "dispatch")')
  BY DEF Next, vars, Dispatching, Compiling, Executing, Composing, Compacting
<1>4. DI!DispatchSpec => [](DI!MatchIsClosest /\ DI!IntentIsOpaque)
  BY DispatchIsSafe, AssistantAssumption DEF AssistantAssumption
<1>5. Safety => []DispatchHolds
  BY <1>1, <1>2, <1>3, <1>4, PTL DEF Safety, DI!DispatchSpec, DispatchHolds
<1>6. QED
  BY <1>5, PTL DEF Spec

\* What CompileIsRight says, of the composition.
THEOREM AssistantCompiles == Spec => []CompiledRight
<1>1. Init /\ scene = "compile" => CO!CompileInit
  BY DEF Init
<1>2. scene = "compile" /\ [Next]_vars => [CO!CompileGraph]_(CO!compileVars)
  BY DEF Next, vars, Dispatching, Compiling, Executing, Composing, Compacting, compileVars, CO!compileVars
<1>3. [Next]_vars => (scene = "compile" <=> (scene = "compile")')
  BY DEF Next, vars, Dispatching, Compiling, Executing, Composing, Compacting
<1>4. CO!CompileSpec => [](CO!CyclesAreFound /\ CO!StepsFollowEdges /\ CO!ChainFits)
  BY CompileIsRight, AssistantAssumption DEF AssistantAssumption
<1>5. Safety => []CompiledRight
  BY <1>1, <1>2, <1>3, <1>4, PTL DEF Safety, CO!CompileSpec, CompiledRight
<1>6. QED
  BY <1>5, PTL DEF Spec
==============================================================================
