---------------------------- MODULE DagRunProofs ----------------------------
(***************************************************************************)
(* Proofs about DagRun, for every pipeline that DagAssumption admits and   *)
(* any number of attempts and resumptions.  The core of the argument: the  *)
(* checkpoints are always a prefix of the topological order, so a resumed  *)
(* run knows exactly what the interrupted one knew.                        *)
(***************************************************************************)
EXTENDS DagRun, SequenceTheorems, WellFoundedInduction, TLAPS

-----------------------------------------------------------------------------
(* Types. *)

\* Where the runner stands in the order, by what it does.
AtOK ==
  /\ pc \in {"idle", "loop"} => at >= 1
  /\ pc \in {"wait", "exec"} => at \in 1 .. Len(Order)
  /\ pc = "rollback" => at <= Len(Order)

\* The inductive type invariant: the loop position bounds the types of the rest.
TypeInv == TypeOK /\ AtOK

\* The order lists every step once, each after its predecessors.
LEMMA OrderFacts ==
  /\ Len(Order) \in Nat /\ DOMAIN Order = 1 .. Len(Order)
  /\ \A n \in 1 .. Len(Order) : Order[n] \in Steps
  /\ \A s \in Steps : \E n \in 1 .. Len(Order) : Order[n] = s
  /\ \A m, n \in 1 .. Len(Order) : Order[m] = Order[n] => m = n
  /\ \A m, n \in 1 .. Len(Order) : Order[m] \in Preds[Order[n]] => m < n
<1>1. Len(Order) \in Nat /\ DOMAIN Order = 1 .. Len(Order)
  BY DagAssumption
<1>2. QED
  BY <1>1, DagAssumption DEF Steps

\* A nonempty set of naturals has a least element.
LEMMA Least == ASSUME NEW T, T \subseteq Nat, T # {} PROVE \E n \in T : \A m \in T : n <= m
<1>1. \E n \in T : \A m \in T : ~(<<m, n>> \in OpToRel(<, Nat))
  BY NatLessThanWellFounded, WFMin
<1>2. ASSUME NEW n \in Nat, NEW m \in Nat, m < n PROVE <<m, n>> \in OpToRel(<, Nat)
  BY <1>2 DEF OpToRel
<1>3. \E n \in T : \A m \in T : ~(m < n)
  BY Zenon, <1>1, <1>2
<1>4. QED
  BY <1>3

\* A nonempty set of positions has a last one.
LEMMA Greatest == ASSUME NEW k \in Nat, NEW T, T \subseteq 1 .. k, T # {} PROVE \E n \in T : \A m \in T : m <= n
<1> DEFINE U == {d \in Nat : \E m \in T : d = k - m}
<1>1. U \subseteq Nat /\ U # {}
  <2>1. PICK m \in T : TRUE
    OBVIOUS
  <2>2. k - m \in U
    BY <2>1
  <2>3. QED
    BY <2>2
<1>2. PICK d \in U : \A e \in U : d <= e
  BY <1>1, Least
<1>3. PICK n \in T : d = k - n
  BY <1>2
<1>4. ASSUME NEW m \in T PROVE m <= n
  <2>1. k - m \in U
    OBVIOUS
  <2>2. d <= k - m
    BY <1>2, <2>1
  <2>3. QED
    BY <1>3, <2>2
<1>5. QED
  BY <1>3, <1>4

\* What a step is given is a first frame.
LEMMA InputTyped == ASSUME TypeOK, NEW s \in Steps PROVE Input(s) \in First
<1> DEFINE given == {n \in DOMAIN Order : Order[n] \in Sources(s) /\ outputs[Order[n]] # Empty}
<1>1. CASE Sources(s) = {}
  BY <1>1 DEF Input, TypeOK
<1>2. CASE Sources(s) # {} /\ given = {}
  BY <1>2 DEF Input, First
<1>3. CASE Sources(s) # {} /\ given # {}
  <2> DEFINE first == CHOOSE n \in given : \A m \in given : n <= m
  <2>1. Input(s) = outputs[Order[first]]
    BY <1>3 DEF Input
  <2>2. \E n \in given : \A m \in given : n <= m
    <3>1. given \subseteq Nat
      BY OrderFacts
    <3>2. QED
      BY <1>3, <3>1, Least
  <2>3. first \in given
    BY <2>2
  <2>4. QED
    BY <2>1, <2>3, OrderFacts DEF TypeOK
<1>4. QED
  BY <1>1, <1>2, <1>3

\* A branch selects a step or nothing.
LEMMA SelectionTyped == ASSUME TypeOK, NEW s \in Steps PROVE Selection(s) \in [Steps -> Steps \cup {NoTarget}]
  BY InputTyped, DagAssumption DEF Selection, TypeOK

\* save_checkpoint adds a checkpoint, or the run is over.
LEMMA SaveTyped ==
  ASSUME TypeInv, NEW s \in Steps, NEW state \in {"Completed", "Skipped"}, NEW f \in First, Save(s, state, f),
         at \in 1 .. Len(Order)
  PROVE  /\ store' \in Seq(Checkpoint) /\ at' \in 0 .. (Len(Order) + 1) /\ attempt' \in 0 .. MaxAttempts
         /\ pc' \in {"loop", "done"} /\ at' >= 1
<1>1. Append(store, [step |-> s, state |-> state, output |-> f]) \in Seq(Checkpoint)
  BY DEF TypeInv, TypeOK, Checkpoint
<1>2. store' \in Seq(Checkpoint)
  BY <1>1 DEF Save, TypeInv, TypeOK
<1>3. MaxAttempts \in Nat /\ Len(Order) \in Nat /\ attempt \in 0 .. MaxAttempts
  BY OrderFacts, DagAssumption DEF TypeInv, TypeOK
<1>4. at' \in {at, at + 1} /\ attempt' \in {attempt, 0} /\ pc' \in {"loop", "done"}
  BY DEF Save, Advance, Abort
<1>5. QED
  BY <1>2, <1>3, <1>4

\* The last checkpoint of a saved step is one of the store.
LEMMA LatestTyped ==
  ASSUME TypeOK, NEW s \in Steps, Saved(s)
  PROVE  Latest(s) \in Checkpoint
<1> DEFINE mine == {n \in DOMAIN store : store[n].step = s}
           last == CHOOSE n \in mine : \A k \in mine : k <= n
<1>1. Len(store) \in Nat /\ DOMAIN store = 1 .. Len(store)
  BY DEF TypeOK
<1>2. mine \subseteq 1 .. Len(store) /\ mine # {}
  BY <1>1 DEF Saved
<1>3. \E n \in mine : \A k \in mine : k <= n
  BY <1>1, <1>2, Greatest
<1>4. last \in mine
  BY <1>3
<1>5. Latest(s) = store[last]
  BY DEF Latest
<1>6. QED
  BY <1>1, <1>2, <1>4, <1>5 DEF TypeOK

\* Every step keeps the types.
LEMMA TypesKept == TypeInv /\ [Next]_vars => TypeInv'
<1> SUFFICES ASSUME TypeInv, [Next]_vars PROVE TypeInv'
  OBVIOUS
<1> USE OrderFacts DEF TypeInv, AtOK
<1>1. CASE UNCHANGED vars
  BY <1>1 DEF vars, memory, TypeOK
<1>2. ASSUME NEW m \in {"checkpoint", "approval"}, Start(m) PROVE TypeInv'
  BY <1>2 DEF Start, memory, TypeOK
<1>3. ASSUME NEW s \in Steps, Recall(s) PROVE TypeInv'
  BY <1>3, SelectionTyped, DagAssumption DEF Recall, AtStep, Advance, TypeOK
<1>4. ASSUME NEW s \in Steps, Skip(s) PROVE TypeInv'
  BY <1>4, SaveTyped DEF Skip, AtStep, Done, TypeOK, First
<1>5. ASSUME NEW s \in Steps, Pass(s) PROVE TypeInv'
  BY <1>5, SaveTyped, SelectionTyped, InputTyped DEF Pass, AtStep, Done, TypeOK
<1>6. ASSUME NEW s \in Steps, Check(s) PROVE TypeInv'
  BY <1>6 DEF Check, Due, AtStep, StepFails, Abort, memory, TypeOK
<1>7. ASSUME NEW s \in Steps, Deny(s) PROVE TypeInv'
  BY <1>7 DEF Deny, Due, AtStep, Abort, memory, TypeOK
<1>8. ASSUME NEW s \in Steps, RequestApproval(s) PROVE TypeInv'
  BY <1>8 DEF RequestApproval, Due, AtStep, memory, TypeOK
<1>9. ASSUME NEW s \in Steps, NotStarted(s) PROVE TypeInv'
  BY <1>9 DEF NotStarted, StepFails, Abort, memory, TypeOK
<1>10. ASSUME NEW s \in Steps, ExecutionFails(s) PROVE TypeInv'
  BY <1>10 DEF ExecutionFails, StepFails, Abort, memory, TypeOK
<1>11. ASSUME NEW s \in Steps, Retry(s) PROVE TypeInv'
  BY <1>11, DagAssumption DEF Retry, Attempts, memory, TypeOK
<1>12. ASSUME NEW s \in Steps, NEW f \in First, Executed(s, f) PROVE TypeInv'
  <2>1. ran' \in Seq(Steps)
    BY <1>12 DEF Executed, TypeOK
  <2>2. states' \in [Steps -> {"none", "Completed", "Skipped"}] /\ outputs' \in [Steps -> First]
    BY <1>12 DEF Executed, Done, TypeOK
  <2>3. Save(s, "Completed", f)
    BY <1>12 DEF Executed, Done
  <2>4. at \in 1 .. Len(Order)
    BY <1>12 DEF Executed
  <2>5. QED
    BY <1>12, <2>1, <2>2, <2>3, <2>4, SaveTyped DEF Executed, TypeOK
<1>13. CASE Granted \/ Refused \/ WaitTimesOut
  BY <1>13 DEF Granted, Refused, WaitTimesOut, Abort, memory, TypeOK
<1>14. ASSUME NEW s \in Steps, NEW v \in {"Approved", "Denied"}, Decide(s, v) PROVE TypeInv'
  BY <1>14 DEF Decide, memory, TypeOK
<1>15. CASE Panic
  <2>1. pc = "exec" => Current \in Steps
    BY DEF Current
  <2>2. ran \in Seq(Steps)
    BY DEF TypeOK
  <2>4. ran' = ran \/ (pc = "exec" /\ ran' = Append(ran, Current))
    BY <1>15 DEF Panic
  <2>5. ran' \in Seq(Steps)
    <3>1. CASE ran' = ran
      BY <2>2, <3>1
    <3>2. CASE pc = "exec" /\ ran' = Append(ran, Current)
      BY <2>1, <2>2, <3>2
    <3>3. QED
      BY <2>4, <3>1, <3>2
  <2>3. QED
    BY <1>15, <2>5 DEF Panic, Abort, memory, TypeOK
<1>16. CASE Rollback \/ RollbackEnds
  <2>1. CASE Rollback
    <3>1. at \in 1 .. Len(Order) /\ Current \in Steps
      <4>1. at \in 0 .. (Len(Order) + 1) /\ at > 0 /\ at <= Len(Order)
        BY <2>1 DEF Rollback, TypeOK
      <4>2. QED
        BY <4>1 DEF Current
    <3>2. undone' \in Seq(Steps)
      BY <2>1, <3>1 DEF Rollback, TypeOK
    <3>3. QED
      BY <2>1, <3>1, <3>2 DEF Rollback, memory, TypeOK
  <2>2. CASE RollbackEnds
    BY <2>2 DEF RollbackEnds, memory, TypeOK
  <2>3. QED
    BY <1>16, <2>1, <2>2
<1>17. CASE Complete
  BY <1>17 DEF Complete, memory, TypeOK
<1>18. CASE Resume
  <2>1. \A s \in Steps : Saved(s) => Latest(s).state \in {"Completed", "Skipped"} /\ Latest(s).output \in First
    BY LatestTyped DEF Checkpoint
  <2>2. states' \in [Steps -> {"none", "Completed", "Skipped"}]
    BY <1>18, <2>1 DEF Resume
  <2>3. outputs' \in [Steps -> First]
    BY <1>18, <2>1 DEF Resume, First
  <2>4. resumes' \in 0 .. MaxResumes
    BY <1>18, DagAssumption DEF Resume, TypeOK
  <2>5. QED
    BY <1>18, <2>2, <2>3, <2>4, DagAssumption DEF Resume, TypeOK
<1>19. QED
  BY <1>1, <1>2, <1>3, <1>4, <1>5, <1>6, <1>7, <1>8, <1>9, <1>10, <1>11, <1>12, <1>13, <1>14, <1>15, <1>16, <1>17, <1>18
     DEF Next, Loop, Execute

-----------------------------------------------------------------------------
(* The checkpoints and what a run knows. *)

\* What the store holds of the n-th step.
StoredState(n) == IF n <= Len(store) THEN store[n].state ELSE "none"
StoredOutput(n) == IF n <= Len(store) THEN store[n].output ELSE Empty

\* The store holds the first steps of the order, in order and once each.
Prefix ==
  /\ Len(store) <= Len(Order)
  /\ \A n \in 1 .. Len(store) : store[n].step = Order[n]

\* A run is or can still get going with what it knows in memory.
Underway == pc \in {"idle", "loop", "wait", "exec"}

\* What a run knows of the steps is what the store holds of them.
MemoryRebuilt ==
  Underway =>
    \A n \in 1 .. Len(Order) : states[Order[n]] = StoredState(n) /\ outputs[Order[n]] = StoredOutput(n)

\* The loop never passes a step that has no checkpoint.
NotAhead == Underway => at <= Len(store) + 1

\* Only a branch that the loop has passed has selected something.
SelectedBehind ==
  Underway => \A n \in 1 .. Len(Order) :
    n >= at \/ Kind[Order[n]] # "Branch" => selected[Order[n]] = NoTarget

\* The step that waits or executes is the first command without a checkpoint.
Facing == pc \in {"wait", "exec"} => at = Len(store) + 1 /\ Kind[Current] = "Command" /\ ~ShouldSkip(Current)

\* The step that executes may: the policy allows it or somebody approved it.
Licensed == pc = "exec" => "Allow" \in Policy[Current] \/ Current \in approved
\* An approved request is remembered as approved.
GateApproved == \A s \in Steps : gate[s] = "Approved" => s \in approved

\* The inductive invariant.  Consented and CheckpointedOnce follow from it.
RunInv == Prefix /\ MemoryRebuilt /\ NotAhead /\ SelectedBehind /\ Facing /\ Licensed /\ GateApproved /\ Consented

\* In such a store, the last checkpoint of the n-th step is the n-th checkpoint.
LEMMA StoreFacts ==
  ASSUME TypeInv, Prefix, NEW n \in 1 .. Len(Order)
  PROVE  /\ Saved(Order[n]) <=> n <= Len(store)
         /\ n <= Len(store) => Latest(Order[n]) = store[n]
<1> DEFINE mine == {k \in DOMAIN store : store[k].step = Order[n]}
<1>1. Len(store) \in Nat /\ DOMAIN store = 1 .. Len(store)
  BY DEF TypeInv, TypeOK
<1>2. \A k \in 1 .. Len(store) : store[k].step = Order[n] <=> k = n
  BY <1>1, OrderFacts DEF Prefix
<1>3. Saved(Order[n]) <=> n <= Len(store)
  BY <1>1, <1>2, OrderFacts DEF Saved
<1>4. ASSUME n <= Len(store) PROVE Latest(Order[n]) = store[n]
  <2>1. mine = {n}
    BY <1>1, <1>2, <1>4, OrderFacts
  <2>2. (CHOOSE k \in mine : \A j \in mine : j <= k) = n
    BY <2>1, OrderFacts
  <2>3. QED
    BY <2>2 DEF Latest
<1>5. QED
  BY <1>3, <1>4

\* A step that is done is in memory and in the store, or the run is over.
LEMMA DoneKeeps ==
  ASSUME TypeInv, Prefix, Underway, MemoryRebuilt, at = Len(store) + 1, at \in 1 .. Len(Order),
         NEW state \in {"Completed", "Skipped"}, NEW f \in First, Done(Current, state, f)
  PROVE  /\ Prefix' /\ MemoryRebuilt' /\ NotAhead'
         /\ pc' \in {"loop", "done"} /\ at' \in {at, at + 1}
         /\ pc' = "loop" => at' = at + 1
<1> DEFINE rec == [step |-> Current, state |-> state, output |-> f]
<1>0. /\ Len(store) \in Nat /\ Current = Order[at] /\ Current \in Steps
      /\ states' = [states EXCEPT ![Current] = state] /\ outputs' = [outputs EXCEPT ![Current] = f]
      /\ DOMAIN states = Steps /\ DOMAIN outputs = Steps /\ store \in Seq(Checkpoint) /\ Len(Order) \in Nat
  BY OrderFacts DEF TypeInv, TypeOK, Done, Current
<1>1. CASE store' = Append(store, rec) /\ Advance
  <2>1. /\ Len(store') = at /\ store'[at] = rec
        /\ \A n \in 1 .. Len(store) : store'[n] = store[n]
    BY <1>0, <1>1
  <2>2. rec.step = Current /\ rec.state = state /\ rec.output = f
    OBVIOUS
  <2>3. at' = at + 1 /\ pc' = "loop"
    BY <1>1 DEF Advance
  <2> HIDE DEF rec
  <2>4. Prefix'
    BY <1>0, <2>1, <2>2, OrderFacts DEF Prefix
  <2>5. ASSUME NEW n \in 1 .. Len(Order) PROVE states'[Order[n]] = StoredState(n)' /\ outputs'[Order[n]] = StoredOutput(n)'
    <3>1. CASE n = at
      BY <1>0, <2>1, <2>2, <3>1 DEF StoredState, StoredOutput
    <3>2. CASE n # at
      <4>1. Order[n] # Current /\ Order[n] \in Steps
        BY <1>0, <3>2, OrderFacts
      <4>2. states'[Order[n]] = states[Order[n]] /\ outputs'[Order[n]] = outputs[Order[n]]
        BY <1>0, <4>1
      <4>3. StoredState(n)' = StoredState(n) /\ StoredOutput(n)' = StoredOutput(n)
        <5>1. n <= Len(store') <=> n <= Len(store)
          BY <1>0, <2>1, <3>2
        <5>2. n <= Len(store) => store'[n] = store[n]
          BY <1>0, <2>1
        <5>3. QED
          BY <5>1, <5>2 DEF StoredState, StoredOutput
      <4>4. QED
        BY <4>2, <4>3 DEF MemoryRebuilt
    <3>3. QED
      BY <3>1, <3>2
  <2>6. QED
    BY <1>0, <2>1, <2>3, <2>4, <2>5 DEF MemoryRebuilt, NotAhead, Underway
<1>2. CASE store' = store /\ Abort
  BY <1>2 DEF Abort, Prefix, MemoryRebuilt, NotAhead, Underway
<1>3. QED
  BY <1>1, <1>2 DEF Done, Save

\* A step that the run knows nothing of is the first one without a checkpoint.
LEMMA DueFacts ==
  ASSUME TypeInv, RunInv, NEW s \in Steps, AtStep(s), states[s] = "none"
  PROVE  at = Len(store) + 1 /\ at \in 1 .. Len(Order) /\ s = Current /\ Underway /\ pc = "loop"
<1>1. at \in 1 .. Len(Order) /\ s = Order[at] /\ pc = "loop" /\ s = Current /\ Underway /\ Len(store) \in Nat
  BY OrderFacts DEF AtStep, Current, TypeInv, TypeOK, AtOK, Underway
<1>2. at <= Len(store) => store[at].state # "none"
  <2>1. at <= Len(store) => store[at] \in Checkpoint
    BY <1>1 DEF TypeInv, TypeOK
  <2>2. QED
    BY <2>1 DEF Checkpoint
<1>3. StoredState(at) = "none"
  BY <1>1 DEF RunInv, MemoryRebuilt
<1>4. at > Len(store)
  BY <1>1, <1>2, <1>3 DEF StoredState
<1>5. at <= Len(store) + 1
  BY <1>1 DEF RunInv, NotAhead
<1>6. QED
  BY <1>1, <1>4, <1>5

\* The invariant holds before the first run.
LEMMA RunInit == Init => RunInv
  BY OrderFacts DEF Init, RunInv, Prefix, MemoryRebuilt, NotAhead, SelectedBehind, Facing, Licensed, GateApproved, Consented, Ran, StoredState, StoredOutput

\* Every step keeps the invariant.
LEMMA RunStep == TypeInv /\ TypeInv' /\ RunInv /\ [Next]_vars => RunInv'
<1> SUFFICES ASSUME TypeInv, TypeInv', RunInv, [Next]_vars PROVE RunInv'
  OBVIOUS
<1> USE DEF RunInv
<1>1. CASE UNCHANGED vars
  BY <1>1 DEF vars, memory, Prefix, MemoryRebuilt, NotAhead, SelectedBehind, Facing, Licensed, GateApproved,
              Consented, Ran, StoredState, StoredOutput, Underway, ShouldSkip, Current
<1>2. ASSUME NEW m \in {"checkpoint", "approval"}, Start(m) PROVE RunInv'
  BY <1>2 DEF Start, memory, Prefix, MemoryRebuilt, NotAhead, SelectedBehind, Facing, Licensed, GateApproved,
              Consented, Ran, StoredState, StoredOutput, Underway
<1>3. ASSUME NEW s \in Steps, Recall(s) PROVE RunInv'
  <2>1. /\ pc = "loop" /\ pc' = "loop" /\ at' = at + 1 /\ at \in 1 .. Len(Order) /\ s = Order[at]
        /\ states[s] # "none" /\ selected' = Selection(s)
        /\ UNCHANGED <<states, outputs, store, gate, approved, ran>>
    BY <1>3, OrderFacts DEF Recall, AtStep, Advance, Current, TypeInv, TypeOK, AtOK
  <2>2. at <= Len(store)
    BY <2>1 DEF MemoryRebuilt, Underway, StoredState
  <2>3. NotAhead' /\ Len(store) \in Nat
    BY <2>1, <2>2, OrderFacts DEF NotAhead, TypeInv, TypeOK
  <2>4. SelectedBehind'
    <3> SUFFICES ASSUME NEW n \in 1 .. Len(Order), n >= at' \/ Kind[Order[n]] # "Branch"
                 PROVE selected'[Order[n]] = NoTarget
      BY DEF SelectedBehind
    <3>1. selected[Order[n]] = NoTarget
      BY <2>1, OrderFacts DEF SelectedBehind, Underway
    <3>2. selected'[Order[n]] = selected[Order[n]]
      <4>1. CASE Kind[s] # "Branch"
        BY <2>1, <4>1 DEF Selection
      <4>2. CASE Kind[s] = "Branch"
        <5>1. Order[n] # s
          BY <2>1, <4>2, OrderFacts
        <5>2. QED
          BY <2>1, <5>1, <4>2, OrderFacts DEF Selection, TypeInv, TypeOK
      <4>3. QED
        BY <4>1, <4>2
    <3>3. QED
      BY <3>1, <3>2
  <2>5. QED
    BY <2>1, <2>3, <2>4 DEF Prefix, MemoryRebuilt, Facing, Licensed, GateApproved, Consented, Ran, StoredState,
       StoredOutput, Underway
<1>4. ASSUME NEW s \in Steps, Skip(s) PROVE RunInv'
  <2>1. /\ at = Len(store) + 1 /\ at \in 1 .. Len(Order) /\ s = Current /\ Underway
        /\ Done(Current, "Skipped", Empty) /\ Empty \in First
        /\ UNCHANGED <<selected, gate, approved, ran>>
    BY <1>4, DueFacts DEF Skip, First
  <2>2. /\ Prefix' /\ MemoryRebuilt' /\ NotAhead' /\ pc' \in {"loop", "done"} /\ at' \in {at, at + 1}
    BY <2>1, DoneKeeps
  <2>3. SelectedBehind'
    BY <2>1, <2>2, OrderFacts DEF SelectedBehind, Underway
  <2>4. QED
    BY <2>1, <2>2, <2>3 DEF Facing, Licensed, GateApproved, Consented, Ran
<1>5. ASSUME NEW s \in Steps, Pass(s) PROVE RunInv'
  <2>1. /\ at = Len(store) + 1 /\ at \in 1 .. Len(Order) /\ s = Current /\ Underway
        /\ Done(Current, "Completed", Input(s)) /\ Input(s) \in First
        /\ selected' = Selection(s)
        /\ UNCHANGED <<gate, approved, ran>>
    BY <1>5, DueFacts, InputTyped DEF Pass, TypeInv
  <2>2. /\ Prefix' /\ MemoryRebuilt' /\ NotAhead' /\ pc' \in {"loop", "done"} /\ (pc' = "loop" => at' = at + 1)
    BY <2>1, DoneKeeps
  <2>3. SelectedBehind'
    <3> SUFFICES ASSUME NEW n \in 1 .. Len(Order), n >= at' \/ Kind[Order[n]] # "Branch", pc' = "loop"
                 PROVE selected'[Order[n]] = NoTarget
      BY <2>2 DEF SelectedBehind, Underway
    <3>1. selected[Order[n]] = NoTarget
      BY <2>1, <2>2, OrderFacts DEF SelectedBehind, Underway
    <3>2. selected'[Order[n]] = selected[Order[n]]
      <4>1. CASE Kind[s] # "Branch"
        BY <2>1, <4>1 DEF Selection
      <4>2. CASE Kind[s] = "Branch"
        <5>1. Order[n] # s
          BY <2>1, <2>2, <4>2, OrderFacts DEF Current
        <5>2. QED
          BY <2>1, <5>1, <4>2, OrderFacts DEF Selection, TypeInv, TypeOK
      <4>3. QED
        BY <4>1, <4>2
    <3>3. QED
      BY <3>1, <3>2
  <2>4. QED
    BY <2>1, <2>2, <2>3 DEF Facing, Licensed, GateApproved, Consented, Ran
<1>6. ASSUME NEW s \in Steps, Check(s) \/ Deny(s) \/ RequestApproval(s) PROVE RunInv'
  <2>1. /\ at = Len(store) + 1 /\ s = Current /\ Underway /\ pc = "loop"
        /\ Kind[Current] = "Command" /\ ~ShouldSkip(Current)
    BY <1>6, DueFacts DEF Check, Deny, RequestApproval, Due
  <2>2. /\ UNCHANGED <<memory, store, approved, ran>>
        /\ \A t \in Steps : gate'[t] = "Approved" => gate[t] = "Approved"
        /\ \/ pc' \in {"wait", "exec"} /\ at' = at /\ (pc' = "exec" => "Allow" \in Policy[Current])
           \/ pc' \in {"done", "rollback"}
    BY <1>6, <2>1 DEF Check, Deny, RequestApproval, Abort, StepFails, TypeInv, TypeOK
  <2>3. Prefix' /\ MemoryRebuilt' /\ NotAhead' /\ SelectedBehind'
    BY <2>1, <2>2 DEF memory, Prefix, MemoryRebuilt, NotAhead, SelectedBehind, StoredState, StoredOutput, Underway
  <2>4. Facing' /\ Licensed'
    BY <2>1, <2>2 DEF Facing, Licensed, ShouldSkip, Current, memory
  <2>5. QED
    BY <2>2, <2>3, <2>4 DEF GateApproved, Consented, Ran
<1>7. ASSUME pc \in {"wait", "exec"}, UNCHANGED <<memory, store, gate, approved, ran>>,
             \/ pc' \in {"done", "rollback"}
             \/ pc' = "exec" /\ at' = at /\ Licensed'
      PROVE  RunInv'
  BY <1>7 DEF memory, Prefix, MemoryRebuilt, NotAhead, SelectedBehind, StoredState, StoredOutput, Underway,
              Facing, Licensed, ShouldSkip, Current, GateApproved, Consented, Ran
<1>8. ASSUME NEW s \in Steps, NotStarted(s) PROVE RunInv'
  BY <1>7, <1>8 DEF NotStarted, StepFails, Abort
<1>9. CASE Granted \/ Refused \/ WaitTimesOut
  <2>1. CASE Granted
    <3>1. Current \in Steps
      BY <2>1, OrderFacts DEF Granted, Current, TypeInv, AtOK
    <3>2. Licensed'
      BY <2>1, <3>1 DEF Granted, Licensed, GateApproved, Current
    <3>3. QED
      BY <2>1, <3>2, <1>7 DEF Granted
  <2>2. CASE Refused \/ WaitTimesOut
    BY <2>2, <1>7 DEF Refused, WaitTimesOut, Abort
  <2>3. QED
    BY <1>9, <2>1, <2>2
<1>10. ASSUME pc = "exec", ran' = Append(ran, Current), approved' = approved PROVE Consented'
  <2>1. Current \in Steps /\ ran \in Seq(Steps)
    BY <1>10, OrderFacts DEF Current, TypeInv, TypeOK, AtOK
  <2>2. ASSUME NEW t \in Steps, Ran(t)' PROVE Ran(t) \/ t = Current
    <3>1. PICK n \in DOMAIN ran' : ran'[n] = t
      BY <2>2 DEF Ran
    <3>2. CASE n = Len(ran) + 1
      BY <1>10, <2>1, <3>1, <3>2
    <3>3. CASE n # Len(ran) + 1
      <4>1. n \in DOMAIN ran /\ ran[n] = t
        BY <1>10, <2>1, <3>1, <3>3
      <4>2. QED
        BY <4>1 DEF Ran
    <3>4. QED
      BY <3>2, <3>3
  <2>3. QED
    BY <1>10, <2>2 DEF Consented, Licensed
<1>11. ASSUME NEW s \in Steps, ExecutionFails(s) \/ Retry(s) PROVE RunInv'
  <2>1. /\ pc = "exec" /\ ran' = Append(ran, Current) /\ UNCHANGED <<memory, store, gate, approved>>
        /\ \/ pc' \in {"done", "rollback"}
           \/ pc' = "exec" /\ at' = at
    BY <1>11 DEF ExecutionFails, Retry, StepFails, Abort
  <2>2. Consented'
    BY <1>10, <2>1
  <2>3. Prefix' /\ MemoryRebuilt' /\ NotAhead' /\ SelectedBehind' /\ Facing' /\ Licensed' /\ GateApproved'
    BY <2>1 DEF memory, Prefix, MemoryRebuilt, NotAhead, SelectedBehind, StoredState, StoredOutput, Underway,
                Facing, Licensed, ShouldSkip, Current, GateApproved
  <2>4. QED
    BY <2>2, <2>3
<1>12. ASSUME NEW s \in Steps, NEW f \in First, Executed(s, f) PROVE RunInv'
  <2>1. /\ pc = "exec" /\ Underway /\ at = Len(store) + 1 /\ at \in 1 .. Len(Order) /\ ran' = Append(ran, Current)
        /\ Done(Current, "Completed", f) /\ UNCHANGED <<selected, gate, approved>>
    BY <1>12 DEF Executed, Underway, Facing, TypeInv, AtOK
  <2>2. Prefix' /\ MemoryRebuilt' /\ NotAhead' /\ pc' \in {"loop", "done"} /\ at' \in {at, at + 1}
    BY <2>1, DoneKeeps
  <2>3. Consented'
    BY <1>10, <2>1
  <2>4. SelectedBehind'
    BY <2>1, <2>2, OrderFacts DEF SelectedBehind, Underway
  <2>5. QED
    BY <2>1, <2>2, <2>3, <2>4 DEF Facing, Licensed, GateApproved
<1>13. ASSUME NEW s \in Steps, NEW v \in {"Approved", "Denied"}, Decide(s, v) PROVE RunInv'
  <2>1. /\ gate' = [gate EXCEPT ![s] = v] /\ approved' = IF v = "Approved" THEN approved \cup {s} ELSE approved
        /\ UNCHANGED <<pc, at, memory, store, ran>> /\ gate \in [Steps -> {"none", "Pending", "Approved", "Denied"}]
    BY <1>13 DEF Decide, TypeInv, TypeOK
  <2>2. GateApproved'
    BY <2>1 DEF GateApproved
  <2>3. Consented' /\ Licensed'
    BY <2>1 DEF Consented, Ran, Licensed, Current
  <2>4. QED
    BY <2>1, <2>2, <2>3 DEF memory, Prefix, MemoryRebuilt, NotAhead, SelectedBehind, StoredState, StoredOutput,
                            Underway, Facing, ShouldSkip, Current
<1>14. CASE Panic \/ Rollback \/ RollbackEnds
  <2>1. /\ pc' \in {"done", "rollback"} /\ UNCHANGED <<memory, store, gate, approved>>
        /\ \/ pc = "exec" /\ ran' = Append(ran, Current)
           \/ ran' = ran
    BY <1>14 DEF Panic, Abort, Rollback, RollbackEnds
  <2>2. Consented'
    <3>1. CASE pc = "exec" /\ ran' = Append(ran, Current)
      BY <1>10, <2>1, <3>1
    <3>2. CASE ran' = ran
      BY <2>1, <3>2 DEF Consented, Ran
    <3>3. QED
      BY <2>1, <3>1, <3>2
  <2>3. QED
    BY <2>1, <2>2 DEF memory, Prefix, MemoryRebuilt, NotAhead, SelectedBehind, Underway, Facing, Licensed, GateApproved
<1>15. CASE Complete
  BY <1>15 DEF Complete, memory, Prefix, MemoryRebuilt, NotAhead, SelectedBehind, Underway, Facing, Licensed,
               GateApproved, Consented, Ran
<1>16. CASE Resume
  <2>1. /\ pc' = "loop" /\ at' = 1 /\ UNCHANGED <<store, gate, approved, ran>>
        /\ states' = [s \in Steps |-> IF Saved(s) THEN Latest(s).state ELSE "none"]
        /\ outputs' = [s \in Steps |-> IF Saved(s) THEN Latest(s).output ELSE Empty]
        /\ selected' = [s \in Steps |-> NoTarget] /\ Len(store) \in Nat
    BY <1>16 DEF Resume, TypeInv, TypeOK
  <2>2. Prefix' /\ NotAhead' /\ Facing' /\ Licensed' /\ GateApproved' /\ Consented'
    BY <2>1 DEF Prefix, NotAhead, Facing, Licensed, GateApproved, Consented, Ran
  <2>3. SelectedBehind'
    BY <2>1, OrderFacts DEF SelectedBehind
  <2>4. ASSUME NEW n \in 1 .. Len(Order)
        PROVE  states'[Order[n]] = StoredState(n)' /\ outputs'[Order[n]] = StoredOutput(n)'
    <3>1. Order[n] \in Steps /\ (Saved(Order[n]) <=> n <= Len(store)) /\ (n <= Len(store) => Latest(Order[n]) = store[n])
      BY OrderFacts, StoreFacts
    <3>2. QED
      BY <2>1, <3>1 DEF StoredState, StoredOutput
  <2>5. QED
    BY <2>2, <2>3, <2>4 DEF MemoryRebuilt
<1>17. QED
  BY <1>1, <1>2, <1>3, <1>4, <1>5, <1>6, <1>8, <1>9, <1>11, <1>12, <1>13, <1>14, <1>15, <1>16
     DEF Next, Loop, Execute

-----------------------------------------------------------------------------
(* Branches. *)

\* The output that a store holds of the n-th step.
OutputIn(st, n) == IF n <= Len(st) THEN st[n].output ELSE Empty

\* What the store says that a step whose predecessors all send to it is given.
PassedOn(b, st) ==
  IF Preds[b] = {} THEN initial
  ELSE LET given == {n \in DOMAIN Order : Order[n] \in Preds[b] /\ OutputIn(st, n) # Empty} IN
       IF given = {} THEN Empty
       ELSE OutputIn(st, CHOOSE n \in given : \A m \in given : n <= m)

\* A branch is never skipped, and its checkpoint holds what it was given.
BranchStored ==
  \A n \in 1 .. Len(store) : Kind[Order[n]] = "Branch" =>
    store[n].state = "Completed" /\ store[n].output = PassedOn(Order[n], store)

\* A branch behind the loop has selected by the output that is known of it.
BranchSelected ==
  Underway => \A n \in 1 .. Len(Order) : n < at /\ Kind[Order[n]] = "Branch" =>
    selected[Order[n]] = Route[Order[n]][outputs[Order[n]]]

\* A step that ran was selected by every branch before it, and the store shows it.
RanSelected ==
  \A s \in Steps : \A b \in Preds[s] : Ran(s) /\ Kind[b] = "Branch" =>
    \E k \in 1 .. Len(store) : Order[k] = b /\ Route[b][store[k].output] \in {NoTarget, s}

\* What holds besides where no branch follows a branch.
FlatInv == BranchStored /\ BranchSelected /\ RanSelected

\* A branch is given what the store says, and no branch deselects it.
LEMMA FlatFacts ==
  ASSUME TypeInv, RunInv, FlatBranches, Underway, NEW n \in 1 .. Len(Order), Kind[Order[n]] = "Branch"
  PROVE  Input(Order[n]) = PassedOn(Order[n], store) /\ ~ShouldSkip(Order[n])
<1> DEFINE b == Order[n]
           given == {k \in DOMAIN Order : Order[k] \in Sources(b) /\ outputs[Order[k]] # Empty}
           kept  == {k \in DOMAIN Order : Order[k] \in Preds[b] /\ OutputIn(store, k) # Empty}
           first == CHOOSE k \in given : \A m \in given : k <= m
<1>1. b \in Steps /\ Preds[b] \subseteq Steps
  BY OrderFacts, DagAssumption
<1>2. \A p \in Preds[b] : selected[p] = NoTarget
  <2> SUFFICES ASSUME NEW p \in Preds[b] PROVE selected[p] = NoTarget
    OBVIOUS
  <2>1. Kind[p] # "Branch" /\ p \in Steps
    BY <1>1 DEF FlatBranches
  <2>2. PICK m \in 1 .. Len(Order) : Order[m] = p
    BY <2>1, OrderFacts
  <2>3. QED
    BY <2>1, <2>2 DEF RunInv, SelectedBehind
<1>3. Sources(b) = Preds[b]
  BY <1>2 DEF Sources
<1>4. \A k \in DOMAIN Order : outputs[Order[k]] = OutputIn(store, k)
  BY OrderFacts DEF RunInv, MemoryRebuilt, StoredOutput, OutputIn
<1>5. given = kept
  BY <1>3, <1>4
<1>6. Input(b) = PassedOn(b, store)
  <2>1. CASE Preds[b] = {}
    BY <1>3, <2>1 DEF Input, PassedOn
  <2>2. CASE Preds[b] # {} /\ given = {}
    BY <1>3, <1>5, <2>2 DEF Input, PassedOn
  <2>3. CASE Preds[b] # {} /\ given # {}
    <3>1. Input(b) = outputs[Order[first]]
      BY <1>3, <2>3 DEF Input
    <3>2. PassedOn(b, store) = OutputIn(store, first)
      <4>1. PassedOn(b, store) = OutputIn(store, CHOOSE k \in kept : \A m \in kept : k <= m)
        BY <1>5, <2>3 DEF PassedOn
      <4>2. QED
        BY <4>1, <1>5
    <3>3. first \in DOMAIN Order
      <4>1. given \subseteq Nat
        BY OrderFacts
      <4>2. \E k \in given : \A m \in given : k <= m
        BY <2>3, <4>1, Least
      <4>3. first \in given
        BY <4>2
      <4>4. QED
        BY <4>3
    <3>4. QED
      BY <1>4, <3>1, <3>2, <3>3
  <2>4. QED
    BY <2>1, <2>2, <2>3
<1>7. QED
  BY <1>2, <1>6 DEF ShouldSkip

\* A longer store says the same of the input of a step it reaches.
LEMMA PassedOnKept ==
  ASSUME NEW st, NEW more, Len(st) \in Nat, Len(more) \in Nat, Len(more) >= Len(st),
         \A k \in 1 .. Len(st) : more[k] = st[k],
         NEW n \in 1 .. Len(Order), n <= Len(st) + 1
  PROVE  PassedOn(Order[n], more) = PassedOn(Order[n], st)
<1> DEFINE given == {k \in DOMAIN Order : Order[k] \in Preds[Order[n]] /\ OutputIn(st, k) # Empty}
           after == {k \in DOMAIN Order : Order[k] \in Preds[Order[n]] /\ OutputIn(more, k) # Empty}
           first == CHOOSE k \in given : \A m \in given : k <= m
<1>1. ASSUME NEW k \in DOMAIN Order, Order[k] \in Preds[Order[n]] PROVE OutputIn(more, k) = OutputIn(st, k)
  <2>1. k < n /\ k \in 1 .. Len(Order) /\ Len(Order) \in Nat
    BY <1>1, OrderFacts
  <2>2. k <= Len(st) /\ k <= Len(more) /\ k \in 1 .. Len(st)
    BY <2>1
  <2>3. QED
    BY <2>2 DEF OutputIn
<1>2. given = after
  BY <1>1
<1>3. CASE Preds[Order[n]] = {}
  BY <1>3 DEF PassedOn
<1>4. CASE Preds[Order[n]] # {} /\ given = {}
  BY <1>2, <1>4 DEF PassedOn
<1>5. CASE Preds[Order[n]] # {} /\ given # {}
  <2>1. PassedOn(Order[n], st) = OutputIn(st, first)
    BY <1>5 DEF PassedOn
  <2>2. PassedOn(Order[n], more) = OutputIn(more, CHOOSE k \in after : \A m \in after : k <= m)
    BY <1>2, <1>5 DEF PassedOn
  <2>3. first \in given
    <3>1. given \subseteq Nat
      BY OrderFacts
    <3>2. \E k \in given : \A m \in given : k <= m
      BY <1>5, <3>1, Least
    <3>3. QED
      BY <3>2
  <2>4. PassedOn(Order[n], more) = OutputIn(more, first)
    BY <1>2, <2>2
  <2>5. QED
    BY <1>1, <2>1, <2>3, <2>4
<1>6. QED
  BY <1>3, <1>4, <1>5

\* BranchStored depends on the store alone.
LEMMA SameStore ==
  ASSUME BranchStored, initial' = initial, store' = store
  PROVE  BranchStored'
<1>1. ASSUME NEW b PROVE PassedOn(b, store)' = PassedOn(b, store)
  BY DEF PassedOn, OutputIn
<1>2. QED
  BY <1>1 DEF BranchStored

\* A step that is done keeps what is known of the branches.
LEMMA FlatDone ==
  ASSUME FlatBranches, TypeInv, TypeInv', RunInv, FlatInv, initial' = initial, Underway,
         at = Len(store) + 1, at \in 1 .. Len(Order),
         NEW state \in {"Completed", "Skipped"}, NEW f \in First, Done(Current, state, f),
         selected' = Selection(Current),
         Kind[Current] = "Branch" => state = "Completed" /\ f = Input(Current)
  PROVE  /\ BranchStored' /\ BranchSelected'
         /\ Len(store') >= Len(store) /\ \A k \in 1 .. Len(store) : store'[k] = store[k]
<1> DEFINE rec == [step |-> Current, state |-> state, output |-> f]
<1>0. /\ Len(store) \in Nat /\ Len(store') \in Nat /\ Current = Order[at] /\ Current \in Steps
      /\ outputs' = [outputs EXCEPT ![Current] = f] /\ outputs \in [Steps -> First]
      /\ selected \in [Steps -> Steps \cup {NoTarget}]
      /\ store \in Seq(Checkpoint) /\ Len(Order) \in Nat
  BY OrderFacts DEF TypeInv, TypeOK, Done, Current
<1>1. CASE store' = Append(store, rec) /\ Advance
  <2>1. /\ Len(store') = at /\ store'[at] = rec
        /\ \A n \in 1 .. Len(store) : store'[n] = store[n]
    BY <1>0, <1>1
  <2>2. rec.state = state /\ rec.output = f
    OBVIOUS
  <2>3. at' = at + 1 /\ pc' = "loop"
    BY <1>1 DEF Advance
  <2> HIDE DEF rec
  <2>4. BranchStored'
    <3> SUFFICES ASSUME NEW n \in 1 .. Len(store'), Kind[Order[n]] = "Branch"
                 PROVE  store'[n].state = "Completed" /\ store'[n].output = PassedOn(Order[n], store)
      <4>1. ASSUME NEW n \in 1 .. Len(store') PROVE PassedOn(Order[n], store)' = PassedOn(Order[n], store)
        <5>1. n \in 1 .. Len(Order) /\ n <= Len(store) + 1 /\ Len(store') >= Len(store)
          BY <1>0, <2>1
        <5>2. PassedOn(Order[n], store') = PassedOn(Order[n], store)
          BY <1>0, <2>1, <5>1, PassedOnKept
        <5>3. PassedOn(Order[n], store)' = PassedOn(Order[n], store')
          BY DEF PassedOn, OutputIn
        <5>4. QED
          BY <5>2, <5>3
      <4>2. QED
        BY <4>1 DEF BranchStored
    <3>1. CASE n = at
      <4>1. Input(Current) = PassedOn(Current, store)
        BY <1>0, <3>1, FlatFacts
      <4>2. QED
        BY <1>0, <2>1, <2>2, <3>1, <4>1
    <3>2. CASE n # at
      BY <1>0, <2>1, <3>2 DEF FlatInv, BranchStored
    <3>3. QED
      BY <3>1, <3>2
  <2>5. BranchSelected'
    <3> SUFFICES ASSUME NEW n \in 1 .. Len(Order), n < at', Kind[Order[n]] = "Branch"
                 PROVE  selected'[Order[n]] = Route[Order[n]][outputs'[Order[n]]]
      BY DEF BranchSelected
    <3>1. CASE n = at
      BY <1>0, <3>1 DEF Selection
    <3>2. CASE n # at
      <4>1. n < at /\ Order[n] # Current /\ Order[n] \in Steps
        BY <1>0, <2>3, <3>2, OrderFacts
      <4>2. selected'[Order[n]] = selected[Order[n]] /\ outputs'[Order[n]] = outputs[Order[n]]
        BY <1>0, <4>1 DEF Selection
      <4>3. QED
        BY <4>1, <4>2 DEF FlatInv, BranchSelected
    <3>3. QED
      BY <3>1, <3>2
  <2>6. QED
    BY <1>0, <2>1, <2>4, <2>5
<1>2. CASE store' = store /\ Abort
  BY <1>0, <1>2, SameStore DEF Abort, FlatInv, BranchSelected, Underway
<1>3. QED
  BY <1>1, <1>2 DEF Done, Save

\* A store that only grows keeps showing why the steps ran.
LEMMA RanKept ==
  ASSUME RanSelected, Len(store) \in Nat, Len(store') \in Nat, Len(store') >= Len(store), \A k \in 1 .. Len(store) : store'[k] = store[k],
         \A s \in Steps : Ran(s)' => Ran(s) \/ \A b \in Preds[s] : Kind[b] = "Branch" =>
                            \E k \in 1 .. Len(store) : Order[k] = b /\ Route[b][store[k].output] \in {NoTarget, s}
  PROVE  RanSelected'
<1> SUFFICES ASSUME NEW s \in Steps, NEW b \in Preds[s], Ran(s)', Kind[b] = "Branch"
             PROVE  \E k \in 1 .. Len(store') : Order[k] = b /\ Route[b][store'[k].output] \in {NoTarget, s}
  BY DEF RanSelected
<1>1. PICK k \in 1 .. Len(store) : Order[k] = b /\ Route[b][store[k].output] \in {NoTarget, s}
  BY DEF RanSelected
<1>2. k \in 1 .. Len(store') /\ store'[k] = store[k]
  OBVIOUS
<1>3. QED
  BY <1>1, <1>2

\* A step that is executed was selected by every branch before it.
LEMMA Executing ==
  ASSUME TypeInv, RunInv, FlatInv, pc = "exec", ran' = Append(ran, Current), NEW s \in Steps, Ran(s)'
  PROVE  Ran(s) \/ \A b \in Preds[s] : Kind[b] = "Branch" =>
                     \E k \in 1 .. Len(store) : Order[k] = b /\ Route[b][store[k].output] \in {NoTarget, s}
<1>1. /\ at \in 1 .. Len(Order) /\ at = Len(store) + 1 /\ Current = Order[at] /\ ~ShouldSkip(Current) /\ Underway
      /\ Len(store) \in Nat /\ Len(Order) \in Nat /\ ran \in Seq(Steps) /\ Current \in Steps
  BY OrderFacts DEF TypeInv, TypeOK, AtOK, RunInv, Facing, Current, Underway
<1>2. Ran(s) \/ s = Current
  <2>1. PICK n \in DOMAIN ran' : ran'[n] = s
    BY DEF Ran
  <2>2. CASE n = Len(ran) + 1
    BY <1>1, <2>1, <2>2
  <2>3. CASE n # Len(ran) + 1
    <3>1. n \in DOMAIN ran /\ ran[n] = s
      BY <1>1, <2>1, <2>3
    <3>2. QED
      BY <3>1 DEF Ran
  <2>4. QED
    BY <2>2, <2>3
<1>3. ASSUME NEW b \in Preds[Current], Kind[b] = "Branch"
      PROVE  \E k \in 1 .. Len(store) : Order[k] = b /\ Route[b][store[k].output] \in {NoTarget, Current}
  <2>1. b \in Steps
    BY <1>1, DagAssumption
  <2>2. PICK k \in 1 .. Len(Order) : Order[k] = b
    BY <2>1, OrderFacts
  <2>3. k < at /\ k \in 1 .. Len(store)
    BY <1>1, <2>2, OrderFacts
  <2>4. selected[b] \in {NoTarget, Current}
    BY <1>1 DEF ShouldSkip
  <2>5. selected[b] = Route[b][outputs[b]]
    BY <1>1, <1>3, <2>2, <2>3 DEF FlatInv, BranchSelected
  <2>6. outputs[b] = store[k].output
    BY <1>1, <2>2, <2>3 DEF RunInv, MemoryRebuilt, StoredOutput
  <2>7. QED
    BY <2>2, <2>3, <2>4, <2>5, <2>6
<1>4. QED
  BY <1>2, <1>3

\* Every step keeps what holds of the branches.
LEMMA FlatStep ==
  ASSUME FlatBranches, TypeInv, TypeInv', RunInv, FlatInv, [Next]_vars
  PROVE  FlatInv'
<1>0. /\ initial' = initial /\ Len(store) \in Nat /\ Len(store') \in Nat /\ RanSelected
      /\ (ran' = ran => \A s \in Steps : Ran(s)' => Ran(s))
  <2>1. initial' = initial
    BY DEF Next, Loop, Execute, vars, memory, Start, Recall, Skip, Pass, Check, Deny, RequestApproval, NotStarted,
           ExecutionFails, Retry, Executed, Granted, Refused, WaitTimesOut, Decide, Panic, Rollback, RollbackEnds,
           Complete, Resume
  <2>2. QED
    BY <2>1 DEF TypeInv, TypeOK, FlatInv, Ran
<1>1. ASSUME store' = store,
             \/ ~Underway'
             \/ at' = 1
             \/ Underway /\ at' = at /\ UNCHANGED <<outputs, selected>>,
             ran' = ran \/ (pc = "exec" /\ ran' = Append(ran, Current))
      PROVE  FlatInv'
  <2>1. BranchStored'
    BY <1>0, <1>1, SameStore DEF FlatInv
  <2>2. BranchSelected'
    BY <1>1 DEF FlatInv, BranchSelected, Underway
  <2>3. \A s \in Steps : Ran(s)' => Ran(s) \/ \A b \in Preds[s] : Kind[b] = "Branch" =>
                            \E k \in 1 .. Len(store) : Order[k] = b /\ Route[b][store[k].output] \in {NoTarget, s}
    BY <1>0, <1>1, Executing
  <2>4. RanSelected'
    BY <1>0, <1>1, <2>3, RanKept
  <2>5. QED
    BY <2>1, <2>2, <2>4 DEF FlatInv
<1>2. ASSUME NEW s \in Steps, Recall(s) PROVE FlatInv'
  <2>1. /\ pc = "loop" /\ at' = at + 1 /\ at \in 1 .. Len(Order) /\ s = Order[at] /\ Underway
        /\ states[s] # "none" /\ selected' = Selection(s)
        /\ UNCHANGED <<states, outputs, store, ran>>
        /\ selected \in [Steps -> Steps \cup {NoTarget}] /\ Len(Order) \in Nat
    BY <1>2, OrderFacts DEF Recall, AtStep, Advance, Current, TypeInv, TypeOK, AtOK, Underway
  <2>2. BranchStored' /\ RanSelected'
    BY <1>0, <2>1, SameStore DEF FlatInv, RanSelected, Ran
  <2>3. BranchSelected'
    <3> SUFFICES ASSUME NEW n \in 1 .. Len(Order), n < at', Kind[Order[n]] = "Branch"
                 PROVE  selected'[Order[n]] = Route[Order[n]][outputs[Order[n]]]
      BY <2>1 DEF BranchSelected
    <3>1. CASE n = at
      <4>1. at <= Len(store)
        BY <2>1 DEF RunInv, MemoryRebuilt, StoredState
      <4>2. outputs[s] = PassedOn(s, store)
        BY <1>0, <2>1, <3>1, <4>1 DEF RunInv, MemoryRebuilt, StoredOutput, FlatInv, BranchStored
      <4>3. Input(s) = PassedOn(s, store)
        BY <2>1, <3>1, FlatFacts
      <4>4. QED
        BY <2>1, <3>1, <4>2, <4>3 DEF Selection
    <3>2. CASE n # at
      <4>1. n < at /\ Order[n] # s /\ Order[n] \in Steps
        BY <2>1, <3>2, OrderFacts
      <4>2. selected'[Order[n]] = selected[Order[n]]
        BY <2>1, <4>1 DEF Selection
      <4>3. QED
        BY <2>1, <4>1, <4>2 DEF FlatInv, BranchSelected
    <3>3. QED
      BY <3>1, <3>2
  <2>4. QED
    BY <2>2, <2>3 DEF FlatInv
<1>3. ASSUME NEW s \in Steps, Skip(s) PROVE FlatInv'
  <2>1. /\ at = Len(store) + 1 /\ at \in 1 .. Len(Order) /\ s = Current /\ Underway
        /\ Done(Current, "Skipped", Empty) /\ Empty \in First /\ ran' = ran /\ selected' = selected
    BY <1>3, DueFacts DEF Skip, First
  <2>2. Kind[Current] # "Branch"
    BY <1>3, <2>1, FlatFacts DEF Skip, Current
  <2>3. selected' = Selection(Current)
    BY <2>1, <2>2 DEF Selection
  <2>4. BranchStored' /\ BranchSelected' /\ Len(store') >= Len(store) /\ \A k \in 1 .. Len(store) : store'[k] = store[k]
    BY <1>0, <2>1, <2>2, <2>3, FlatDone
  <2>5. RanSelected'
    BY <1>0, <2>1, <2>4, RanKept
  <2>6. QED
    BY <2>4, <2>5 DEF FlatInv
<1>4. ASSUME NEW s \in Steps, Pass(s) PROVE FlatInv'
  <2>1. /\ at = Len(store) + 1 /\ at \in 1 .. Len(Order) /\ s = Current /\ Underway
        /\ Done(Current, "Completed", Input(Current)) /\ Input(Current) \in First
        /\ ran' = ran /\ selected' = Selection(Current)
    BY <1>4, DueFacts, InputTyped DEF Pass, TypeInv
  <2>2. BranchStored' /\ BranchSelected' /\ Len(store') >= Len(store) /\ \A k \in 1 .. Len(store) : store'[k] = store[k]
    BY <1>0, <2>1, FlatDone
  <2>3. RanSelected'
    BY <1>0, <2>1, <2>2, RanKept
  <2>4. QED
    BY <2>2, <2>3 DEF FlatInv
<1>5. ASSUME NEW s \in Steps, NEW f \in First, Executed(s, f) PROVE FlatInv'
  <2>1. /\ pc = "exec" /\ Underway /\ at = Len(store) + 1 /\ at \in 1 .. Len(Order) /\ ran' = Append(ran, Current)
        /\ Done(Current, "Completed", f) /\ Kind[Current] = "Command" /\ selected' = selected
    BY <1>5 DEF Executed, Underway, RunInv, Facing, TypeInv, AtOK
  <2>2. selected' = Selection(Current)
    BY <2>1 DEF Selection
  <2>3. BranchStored' /\ BranchSelected' /\ Len(store') >= Len(store) /\ \A k \in 1 .. Len(store) : store'[k] = store[k]
    BY <1>0, <2>1, <2>2, FlatDone
  <2>4. \A t \in Steps : Ran(t)' => Ran(t) \/ \A b \in Preds[t] : Kind[b] = "Branch" =>
                            \E k \in 1 .. Len(store) : Order[k] = b /\ Route[b][store[k].output] \in {NoTarget, t}
    BY <2>1, Executing
  <2>5. RanSelected'
    BY <1>0, <2>3, <2>4, RanKept
  <2>6. QED
    BY <2>3, <2>5 DEF FlatInv
<1>6. ASSUME NEW s \in Steps, Check(s) \/ Deny(s) \/ RequestApproval(s) PROVE FlatInv'
  <2>1. Underway /\ store' = store /\ ran' = ran /\ UNCHANGED <<outputs, selected>> /\ (~Underway' \/ at' = at)
    BY <1>6 DEF Check, Deny, RequestApproval, Due, AtStep, Abort, StepFails, Underway, memory
  <2>2. QED
    BY <1>1, <2>1
<1>7. ASSUME NEW s \in Steps, NotStarted(s) \/ ExecutionFails(s) \/ Retry(s) PROVE FlatInv'
  <2>1. /\ Underway /\ store' = store /\ UNCHANGED <<outputs, selected>> /\ (~Underway' \/ at' = at)
        /\ pc = "exec" /\ ran' \in {ran, Append(ran, Current)}
    BY <1>7 DEF NotStarted, ExecutionFails, Retry, StepFails, Abort, Underway, memory
  <2>2. QED
    BY <1>1, <2>1
<1>8. CASE Granted \/ Refused \/ WaitTimesOut
  BY <1>1, <1>8 DEF Granted, Refused, WaitTimesOut, Abort, Underway, memory
<1>9. CASE UNCHANGED vars \/ \E m \in {"checkpoint", "approval"} : Start(m)
  BY <1>1, <1>9 DEF vars, Start, Underway, memory
<1>10. ASSUME NEW s \in Steps, NEW v \in {"Approved", "Denied"}, Decide(s, v) PROVE FlatInv'
  BY <1>1, <1>10 DEF Decide, Underway, memory
<1>11. CASE Panic \/ Rollback \/ RollbackEnds
  BY <1>1, <1>11 DEF Panic, Abort, Rollback, RollbackEnds, Underway, memory
<1>12. CASE Complete \/ Resume
  BY <1>1, <1>12 DEF Complete, Resume, Underway, memory
<1>13. QED
  BY <1>2, <1>3, <1>4, <1>5, <1>6, <1>7, <1>8, <1>9, <1>10, <1>11, <1>12 DEF Next, Loop, Execute

-----------------------------------------------------------------------------
(* The theorems. *)

\* The types hold before the first run.
LEMMA TypesAtFirst == Init => TypeInv
  BY OrderFacts, DagAssumption DEF Init, TypeInv, TypeOK, AtOK, First

\* The state is well typed, for every pipeline that the compiler can make.
THEOREM RunTyped == Spec => []TypeOK
<1>1. TypeInv => TypeOK
  BY DEF TypeInv
<1>2. QED
  BY TypesAtFirst, TypesKept, <1>1, PTL DEF Spec

\* The invariant holds of every behaviour.
LEMMA RunHolds == Spec => [](TypeInv /\ RunInv)
<1>1. Init => TypeInv /\ RunInv
  BY TypesAtFirst, RunInit
<1>2. TypeInv /\ RunInv /\ [Next]_vars => TypeInv' /\ RunInv'
  BY TypesKept, RunStep
<1>3. QED
  BY <1>1, <1>2, PTL DEF Spec

\* No command runs that neither the policy allows nor a human approved: for every
\* pipeline and policy, with every interruption, resumption and late decision.
THEOREM RunConsented == Spec => []Consented
<1>1. RunInv => Consented
  BY DEF RunInv
<1>2. QED
  BY RunHolds, <1>1, PTL

\* A command is only called while it has no checkpoint.
LEMMA CallIsNew ==
  ASSUME TypeInv, RunInv, [Next]_vars, ran' # ran
  PROVE  ~Saved(ran'[Len(ran')])
<1>1. pc = "exec" /\ ran' = Append(ran, Current)
  BY DEF Next, Loop, Execute, vars, memory, Start, Recall, Skip, Pass, Check, Deny, RequestApproval, NotStarted,
         ExecutionFails, Retry, Executed, Granted, Refused, WaitTimesOut, Decide, Panic, Rollback, RollbackEnds,
         Complete, Resume
<1>2. at = Len(store) + 1 /\ at \in 1 .. Len(Order) /\ Current = Order[at] /\ Len(store) \in Nat /\ ran \in Seq(Steps) /\ Current \in Steps
  BY <1>1, OrderFacts DEF RunInv, Facing, TypeInv, TypeOK, AtOK, Current
<1>3. ran'[Len(ran')] = Current
  BY <1>1, <1>2
<1>4. ~Saved(Order[at])
  BY <1>2, StoreFacts DEF RunInv
<1>5. QED
  BY <1>2, <1>3, <1>4

\* A command whose checkpoint is saved is never called again (resume_dag skips it),
\* for every pipeline and any number of resumptions.
THEOREM RunCallsOnce == Spec => CheckpointedOnce
<1>1. TypeInv /\ RunInv /\ [Next]_vars => [ran' # ran => ~Saved(ran'[Len(ran')])]_vars
  BY CallIsNew
<1>2. QED
  BY RunHolds, <1>1, PTL DEF Spec, CheckpointedOnce

\* Where no branch follows a branch, the whole invariant holds.
LEMMA FlatHolds == ASSUME FlatBranches PROVE Spec => [](TypeInv /\ RunInv /\ FlatInv)
<1>1. Init => FlatInv
  BY OrderFacts DEF Init, FlatInv, BranchStored, BranchSelected, RanSelected, Ran
<1>2. TypeInv /\ TypeInv' /\ RunInv /\ FlatInv /\ [Next]_vars => FlatInv'
  BY FlatStep
<1>3. QED
  BY RunHolds, <1>1, <1>2, PTL DEF Spec

\* At every moment a run can be rebuilt from its checkpoints, for every pipeline in
\* which no branch directly follows a branch.
THEOREM RunMemoryIsStored == ASSUME FlatBranches PROVE Spec => []MemoryIsStored
<1>1. TypeInv /\ RunInv /\ FlatInv => MemoryIsStored
  <2> SUFFICES ASSUME TypeInv, RunInv, FlatInv, pc \in {"loop", "wait", "exec"}, NEW n \in DOMAIN Order
               PROVE  /\ states[Order[n]] = IF Saved(Order[n]) THEN Latest(Order[n]).state ELSE "none"
                      /\ outputs[Order[n]] = IF Saved(Order[n]) THEN Latest(Order[n]).output ELSE Empty
                      /\ Kind[Order[n]] = "Branch" /\ states[Order[n]] = "Completed" /\ n < at
                           => selected[Order[n]] = Route[Order[n]][outputs[Order[n]]]
    BY DEF MemoryIsStored
  <2>1. n \in 1 .. Len(Order) /\ Underway
    BY OrderFacts DEF Underway
  <2>2. (Saved(Order[n]) <=> n <= Len(store)) /\ (n <= Len(store) => Latest(Order[n]) = store[n])
    BY <2>1, StoreFacts DEF RunInv
  <2>3. states[Order[n]] = StoredState(n) /\ outputs[Order[n]] = StoredOutput(n)
    BY <2>1 DEF RunInv, MemoryRebuilt
  <2>4. QED
    BY <2>1, <2>2, <2>3 DEF StoredState, StoredOutput, FlatInv, BranchSelected
<1>2. QED
  BY FlatHolds, <1>1, PTL

\* Two successors of a branch never both run, in all the runs of a pipeline, for
\* every pipeline in which no branch directly follows a branch.
THEOREM RunBranchExclusive == ASSUME FlatBranches PROVE Spec => []BranchExclusive
<1>1. TypeInv /\ RunInv /\ FlatInv => BranchExclusive
  <2> SUFFICES ASSUME TypeInv, RunInv, FlatInv,
                      NEW b \in Steps, Kind[b] = "Branch", \A f \in First : Route[b][f] # NoTarget,
                      NEW s \in Steps, NEW t \in Steps, b \in Preds[s], b \in Preds[t], Ran(s), Ran(t)
               PROVE  s = t
    BY DEF BranchExclusive
  <2>1. PICK k \in 1 .. Len(store) : Order[k] = b /\ Route[b][store[k].output] \in {NoTarget, s}
    BY DEF FlatInv, RanSelected
  <2>2. PICK j \in 1 .. Len(store) : Order[j] = b /\ Route[b][store[j].output] \in {NoTarget, t}
    BY DEF FlatInv, RanSelected
  <2>3. j = k
    <3>1. Len(store) <= Len(Order) /\ Len(store) \in Nat /\ Len(Order) \in Nat
      BY OrderFacts DEF RunInv, Prefix, TypeInv, TypeOK
    <3>2. QED
      BY <2>1, <2>2, <3>1, OrderFacts
  <2>4. store[k].output \in First
    <3>1. store[k] \in Checkpoint
      BY DEF TypeInv, TypeOK
    <3>2. QED
      BY <3>1 DEF Checkpoint
  <2>5. QED
    BY <2>1, <2>2, <2>3, <2>4
<1>2. QED
  BY FlatHolds, <1>1, PTL

-----------------------------------------------------------------------------
(* The rollback of a run behind the gate. *)

\* Before the first run there is nothing.
FirstRun == pc = "idle" => mode = "none" /\ ran = <<>> /\ store = <<>> /\ undone = <<>>

\* A run behind the gate calls its commands once each, in the order.
RanInOrder ==
  mode = "approval" =>
    /\ \A j, k \in 1 .. Len(ran), m, n \in 1 .. Len(Order) : j < k /\ ran[j] = Order[m] /\ ran[k] = Order[n] => m < n
    /\ Underway => \A j \in 1 .. Len(ran), m \in 1 .. Len(Order) : ran[j] = Order[m] => m < at

\* Until its rollback is over, what it knows is what the store holds, and the
\* commands that it completed it has called.
CompletedRan ==
  mode = "approval" /\ (Underway \/ pc = "rollback" \/ at = 0) =>
    \A n \in 1 .. Len(Order) :
      /\ states[Order[n]] = StoredState(n)
      /\ Kind[Order[n]] = "Command" /\ states[Order[n]] = "Completed" => Ran(Order[n])

\* A rollback has undone what there is to undo behind the place it has come to,
\* the later steps first.
UndoneBehind ==
  \A n \in 1 .. Len(Order) : (\E k \in 1 .. Len(undone) : undone[k] = Order[n]) <=> n > at /\ ToUndo(Order[n])
UndoneBackwards ==
  \A j, k \in 1 .. Len(undone), m, n \in 1 .. Len(Order) : j < k /\ undone[j] = Order[m] /\ undone[k] = Order[n] => m > n
Undone ==
  mode = "approval" =>
    /\ Underway => undone = <<>>
    /\ pc = "rollback" \/ at = 0 => UndoneBehind /\ UndoneBackwards

\* The inductive invariant.  RollbackComplete follows from it.
RollInv == FirstRun /\ RanInOrder /\ CompletedRan /\ Undone

\* What the n-th step's compensation depends on.
LEMMA ToUndoFacts ==
  ASSUME TypeInv, Prefix, NEW n \in 1 .. Len(Order)
  PROVE  ToUndo(Order[n]) <=> StoredState(n) = "Completed" /\ Order[n] \in Compensable
<1> DEFINE fits(k) == store[k].step = Order[n] /\ \A j \in 1 .. (k - 1) : store[j].step # Order[n]
<1>1. Len(store) \in Nat /\ DOMAIN store = 1 .. Len(store) /\ Len(store) <= Len(Order) /\ Len(Order) \in Nat
  BY OrderFacts DEF TypeInv, TypeOK, Prefix
<1>2. \A k \in 1 .. Len(store) : store[k].step = Order[n] <=> k = n
  BY <1>1, OrderFacts DEF Prefix
<1>3. Saved(Order[n]) <=> n <= Len(store)
  BY StoreFacts
<1>4. ASSUME n <= Len(store) PROVE FirstCheckpoint(Order[n]) = store[n]
  <2>1. \A k \in DOMAIN store : fits(k) <=> k = n
    <3>1. \A j \in 1 .. (n - 1) : j \in 1 .. Len(store) /\ j # n
      BY <1>1, <1>4
    <3>2. QED
      BY <1>1, <1>2, <1>4, <3>1
  <2>2. n \in DOMAIN store
    BY <1>1, <1>4
  <2>3. (CHOOSE k \in DOMAIN store : fits(k)) = n
    BY <2>1, <2>2
  <2>4. QED
    BY <2>3 DEF FirstCheckpoint
<1>5. QED
  BY <1>3, <1>4 DEF ToUndo, StoredState

\* A call that comes after all others keeps their order.
LEMMA CallInOrder ==
  ASSUME TypeInv, RunInv, RollInv, mode = "approval", Underway, ran' = ran \/ (pc = "exec" /\ ran' = Append(ran, Current))
  PROVE  /\ \A j, k \in 1 .. Len(ran'), m, n \in 1 .. Len(Order) :
              j < k /\ ran'[j] = Order[m] /\ ran'[k] = Order[n] => m < n
         /\ \A j \in 1 .. Len(ran'), m \in 1 .. Len(Order) : ran'[j] = Order[m] => m <= at
         /\ \A s \in Steps : Ran(s) => Ran(s)'
<1>1. ran \in Seq(Steps) /\ Len(ran) \in Nat /\ Len(Order) \in Nat /\ DOMAIN ran = 1 .. Len(ran) /\ at \in Nat
  BY OrderFacts DEF TypeInv, TypeOK
<1>2. CASE ran' = ran
  BY <1>1, <1>2 DEF RollInv, RanInOrder, Ran
<1>3. CASE pc = "exec" /\ ran' = Append(ran, Current)
  <2>1. at \in 1 .. Len(Order) /\ Current = Order[at] /\ Current \in Steps
    BY <1>3, OrderFacts DEF TypeInv, AtOK, Current
  <2>2. /\ Len(ran') = Len(ran) + 1 /\ DOMAIN ran' = 1 .. Len(ran) + 1 /\ ran'[Len(ran) + 1] = Order[at]
        /\ \A j \in 1 .. Len(ran) : ran'[j] = ran[j]
    BY <1>1, <1>3, <2>1
  <2>3. \A m \in 1 .. Len(Order) : Order[m] = Order[at] => m = at
    BY <2>1, OrderFacts
  <2>4. \A j \in 1 .. Len(ran), m \in 1 .. Len(Order) : ran[j] = Order[m] => m < at
    BY DEF RollInv, RanInOrder
  <2>5. \A j \in 1 .. Len(ran'), m \in 1 .. Len(Order) : ran'[j] = Order[m] => m <= at
    BY <1>1, <2>1, <2>2, <2>3, <2>4
  <2>6. ASSUME NEW j \in 1 .. Len(ran'), NEW k \in 1 .. Len(ran'), NEW m \in 1 .. Len(Order), NEW n \in 1 .. Len(Order),
               j < k, ran'[j] = Order[m], ran'[k] = Order[n]
        PROVE  m < n
    <3>1. j \in 1 .. Len(ran) /\ ran[j] = Order[m] /\ m < at
      BY <1>1, <2>2, <2>4, <2>6
    <3>2. CASE k = Len(ran) + 1
      BY <2>2, <2>3, <2>6, <3>1, <3>2
    <3>3. CASE k # Len(ran) + 1
      <4>1. k \in 1 .. Len(ran) /\ ran[k] = Order[n]
        BY <1>1, <2>2, <2>6, <3>3
      <4>2. QED
        BY <2>6, <3>1, <4>1 DEF RollInv, RanInOrder
    <3>4. QED
      BY <3>2, <3>3
  <2>7. \A s \in Steps : Ran(s) => Ran(s)'
    BY <1>1, <2>2 DEF Ran
  <2>8. QED
    BY <2>5, <2>6, <2>7
<1>4. QED
  BY <1>2, <1>3

\* Steps that leave the store and the calls alone.
LEMMA RollQuiet ==
  ASSUME TypeInv, RollInv, UNCHANGED <<mode, ran, undone, states, store, at>>,
         \/ pc' = pc
         \/ Underway /\ Underway' /\ pc' # "idle"
         \/ pc = "rollback" /\ at = 0 /\ pc' = "done"
  PROVE  RollInv'
<1>1. FirstRun' /\ RanInOrder'
  BY DEF RollInv, FirstRun, RanInOrder, Underway
<1>2. CompletedRan'
  <2>1. \A n \in 1 .. Len(Order) : StoredState(n)' = StoredState(n) /\ Ran(Order[n])' = Ran(Order[n])
    BY DEF StoredState, Ran
  <2>2. (Underway \/ pc = "rollback" \/ at = 0)' => Underway \/ pc = "rollback" \/ at = 0
    BY DEF Underway
  <2>3. QED
    BY <2>1, <2>2 DEF RollInv, CompletedRan
<1>3. Undone'
  <2>1. \A n \in 1 .. Len(Order) : ToUndo(Order[n])' = ToUndo(Order[n])
    BY DEF ToUndo, Saved, FirstCheckpoint
  <2>2. UndoneBehind => UndoneBehind'
    BY <2>1 DEF UndoneBehind
  <2>3. UndoneBackwards => UndoneBackwards'
    BY DEF UndoneBackwards
  <2>4. (pc = "rollback" \/ at = 0)' => pc = "rollback" \/ at = 0
    BY DEF Underway
  <2>5. Underway' => Underway
    BY DEF Underway
  <2>6. QED
    BY <2>2, <2>3, <2>4, <2>5 DEF RollInv, Undone
<1>4. QED
  BY <1>1, <1>2, <1>3 DEF RollInv

\* Only a run behind the gate is of interest, and the first one.
LEMMA RollElse == ASSUME mode' # "approval", pc' # "idle" PROVE RollInv'
  BY DEF RollInv, FirstRun, RanInOrder, CompletedRan, Undone

\* A run that ends with an error before its rollback is over needs no more.
LEMMA RollAborts ==
  ASSUME TypeInv, RunInv, RollInv, mode' = mode, pc' = "done", at' # 0, Underway \/ ran' = ran,
         ran' = ran \/ (pc = "exec" /\ ran' = Append(ran, Current))
  PROVE  RollInv'
<1>1. CASE mode = "approval" /\ Underway
  <2>1. RanInOrder'
    BY <1>1, CallInOrder DEF RanInOrder, Underway
  <2>2. QED
    BY <2>1 DEF RollInv, FirstRun, CompletedRan, Undone, Underway
<1>2. CASE mode = "approval" /\ ran' = ran
  BY <1>2 DEF RollInv, RanInOrder, FirstRun, CompletedRan, Undone, Underway
<1>3. CASE mode # "approval"
  BY <1>3, RollElse
<1>4. QED
  BY <1>1, <1>2, <1>3

\* A rollback begins behind the last step, with nothing undone.
LEMMA RollBegins ==
  ASSUME TypeInv, RunInv, RollInv, mode' = mode, pc' = "rollback", at' = Len(Order), Underway, pc # "idle",
         UNCHANGED <<undone, states, store>>,
         ran' = ran \/ (pc = "exec" /\ ran' = Append(ran, Current))
  PROVE  RollInv'
<1>1. CASE mode = "approval"
  <2>1. RanInOrder' /\ \A s \in Steps : Ran(s) => Ran(s)'
    BY <1>1, CallInOrder DEF RanInOrder, Underway
  <2>2. CompletedRan'
    BY <1>1, <2>1, OrderFacts DEF RollInv, CompletedRan, StoredState
  <2>3. undone' = <<>> /\ Len(undone') = 0 /\ Len(Order) \in Nat
    BY <1>1, OrderFacts DEF RollInv, Undone
  <2>4. UndoneBehind' /\ UndoneBackwards'
    BY <2>3 DEF UndoneBehind, UndoneBackwards
  <2>5. QED
    BY <2>1, <2>2, <2>4 DEF RollInv, FirstRun, Undone, Underway
<1>2. CASE mode # "approval"
  BY <1>2, RollElse
<1>3. QED
  BY <1>1, <1>2

\* A step that is done goes on the store and the run past it, or the run is over.
LEMMA RollDone ==
  ASSUME TypeInv, RunInv, RunInv', RollInv, mode' = mode, undone' = undone, Underway, pc # "idle", at = Len(store) + 1,
         at \in 1 .. Len(Order), NEW state \in {"Completed", "Skipped"}, NEW f \in First, Done(Current, state, f),
         ran' = ran \/ (pc = "exec" /\ ran' = Append(ran, Current)),
         state = "Completed" /\ Kind[Current] = "Command" => pc = "exec" /\ ran' = Append(ran, Current)
  PROVE  RollInv'
<1>1. pc' \in {"loop", "done"} /\ at' \in {at, at + 1} /\ (pc' = "loop" => at' = at + 1)
  BY DoneKeeps DEF RunInv
<1>2. CASE pc' = "done"
  BY <1>1, <1>2, RollAborts
<1>3. CASE pc' = "loop" /\ mode # "approval"
  BY <1>3, RollElse
<1>4. CASE pc' = "loop" /\ mode = "approval"
  <2>1. Underway' /\ at' = at + 1 /\ at' # 0 /\ Len(Order) \in Nat
    BY <1>1, <1>4, OrderFacts DEF Underway
  <2>2. RanInOrder'
    <3>1. /\ \A j, k \in 1 .. Len(ran'), m, n \in 1 .. Len(Order) :
              j < k /\ ran'[j] = Order[m] /\ ran'[k] = Order[n] => m < n
          /\ \A j \in 1 .. Len(ran'), m \in 1 .. Len(Order) : ran'[j] = Order[m] => m <= at
      BY <1>4, CallInOrder
    <3>2. \A m \in 1 .. Len(Order) : m <= at => m < at'
      BY <2>1
    <3>3. QED
      BY <3>1, <3>2 DEF RanInOrder
  <2>3. CompletedRan'
    <3> SUFFICES ASSUME NEW n \in 1 .. Len(Order)
                 PROVE  /\ states'[Order[n]] = StoredState(n)'
                        /\ Kind[Order[n]] = "Command" /\ states'[Order[n]] = "Completed" => Ran(Order[n])'
      BY DEF CompletedRan
    <3>1. states'[Order[n]] = StoredState(n)'
      BY <2>1 DEF RunInv, MemoryRebuilt
    <3>2. states' = [states EXCEPT ![Current] = state] /\ DOMAIN states = Steps /\ Order[n] \in Steps
          /\ Current \in Steps /\ ran \in Seq(Steps)
      BY OrderFacts DEF Done, TypeInv, TypeOK, Current
    <3>3. CASE Order[n] = Current /\ state = "Completed" /\ Kind[Current] = "Command"
      <4>1. ran' = Append(ran, Current)
        BY <3>3
      <4>2. Len(ran) + 1 \in DOMAIN ran' /\ ran'[Len(ran) + 1] = Current
        BY <3>2, <4>1
      <4>3. QED
        BY <3>1, <3>3, <4>2 DEF Ran
    <3>4. CASE Order[n] = Current /\ ~(state = "Completed" /\ Kind[Current] = "Command")
      BY <3>1, <3>2, <3>4
    <3>5. CASE Order[n] # Current
      <4>1. states'[Order[n]] = states[Order[n]]
        BY <3>2, <3>5
      <4>2. Ran(Order[n]) => Ran(Order[n])'
        BY <1>4, <3>2, CallInOrder
      <4>3. QED
        BY <1>4, <3>1, <4>1, <4>2 DEF RollInv, CompletedRan
    <3>6. QED
      BY <3>3, <3>4, <3>5
  <2>4. Undone'
    BY <1>4, <2>1 DEF RollInv, Undone, Underway
  <2>5. QED
    BY <1>4, <2>2, <2>3, <2>4 DEF RollInv, FirstRun
<1>5. QED
  BY <1>1, <1>2, <1>3, <1>4

\* One step of a rollback.
LEMMA RollsBack == ASSUME TypeInv, RunInv, RollInv, Rollback PROVE RollInv'
<1>1. /\ pc = "rollback" /\ pc' = "rollback" /\ at' = at - 1 /\ at \in 1 .. Len(Order) /\ Len(Order) \in Nat
      /\ UNCHANGED <<mode, states, store, ran>> /\ Current = Order[at] /\ Current \in Steps /\ undone \in Seq(Steps)
  BY OrderFacts DEF Rollback, memory, TypeInv, TypeOK, AtOK, Current
<1>2. FirstRun' /\ RanInOrder'
  BY <1>1 DEF RollInv, FirstRun, RanInOrder, Underway
<1>3. CompletedRan'
  BY <1>1 DEF RollInv, CompletedRan, StoredState, Ran
<1>4. ASSUME mode = "approval" PROVE UndoneBehind' /\ UndoneBackwards'
  <2>1. UndoneBehind /\ UndoneBackwards
    BY <1>1, <1>4 DEF RollInv, Undone
  <2>2. \A n \in 1 .. Len(Order) : ToUndo(Order[n])' = ToUndo(Order[n])
    BY <1>1 DEF ToUndo, Saved, FirstCheckpoint
  <2>3. \A n \in 1 .. Len(Order) : n > at' <=> n > at \/ n = at
    BY <1>1
  <2>4. \A n \in 1 .. Len(Order) : Order[n] = Order[at] => n = at
    BY <1>1, OrderFacts
  <2>5. CASE ~ToUndo(Current) /\ undone' = undone
    <3>1. UndoneBehind'
      BY <1>1, <2>1, <2>2, <2>3, <2>5 DEF UndoneBehind
    <3>2. UndoneBackwards'
      BY <2>1, <2>5 DEF UndoneBackwards
    <3>3. QED
      BY <3>1, <3>2
  <2>6. CASE ToUndo(Current) /\ undone' = Append(undone, Current)
    <3>1. /\ Len(undone) \in Nat /\ Len(undone') = Len(undone) + 1 /\ undone'[Len(undone) + 1] = Order[at]
          /\ \A j \in 1 .. Len(undone) : undone'[j] = undone[j]
      BY <1>1, <2>6
    <3>2. UndoneBehind'
      <4> SUFFICES ASSUME NEW n \in 1 .. Len(Order)
                   PROVE  (\E k \in 1 .. Len(undone') : undone'[k] = Order[n]) <=> n > at' /\ ToUndo(Order[n])'
        BY DEF UndoneBehind
      <4>1. (\E k \in 1 .. Len(undone') : undone'[k] = Order[n])
              <=> (\E k \in 1 .. Len(undone) : undone[k] = Order[n]) \/ n = at
        BY <3>1, <2>4
      <4>2. QED
        BY <1>1, <2>1, <2>2, <2>3, <2>6, <4>1 DEF UndoneBehind
    <3>3. \A j \in 1 .. Len(undone), m \in 1 .. Len(Order) : undone[j] = Order[m] => m > at
      BY <2>1 DEF UndoneBehind
    <3>4. UndoneBackwards'
      <4> SUFFICES ASSUME NEW j \in 1 .. Len(undone'), NEW k \in 1 .. Len(undone'), NEW m \in 1 .. Len(Order),
                          NEW n \in 1 .. Len(Order), j < k, undone'[j] = Order[m], undone'[k] = Order[n]
                   PROVE  m > n
        BY DEF UndoneBackwards
      <4>1. j \in 1 .. Len(undone) /\ undone[j] = Order[m] /\ m > at
        BY <3>1, <3>3
      <4>2. CASE k = Len(undone) + 1
        BY <2>4, <3>1, <4>1, <4>2
      <4>3. CASE k # Len(undone) + 1
        <5>1. k \in 1 .. Len(undone) /\ undone[k] = Order[n]
          BY <3>1, <4>3
        <5>2. QED
          BY <2>1, <4>1, <5>1 DEF UndoneBackwards
      <4>4. QED
        BY <4>2, <4>3
    <3>5. QED
      BY <3>2, <3>4
  <2>7. QED
    BY <2>5, <2>6 DEF Rollback
<1>5. Undone'
  BY <1>1, <1>4 DEF Undone, Underway
<1>6. QED
  BY <1>2, <1>3, <1>5 DEF RollInv

\* Every step keeps what holds of the rollback.
LEMMA RollStep == ASSUME TypeInv, TypeInv', RunInv, RunInv', RollInv, [Next]_vars PROVE RollInv'
<1>0. pc \in {"idle", "loop", "wait", "exec"} <=> Underway
  BY DEF Underway
<1>1. CASE UNCHANGED vars
  BY <1>1, RollQuiet DEF vars, memory
<1>2. ASSUME NEW m \in {"checkpoint", "approval"}, Start(m) PROVE RollInv'
  <2>1. pc = "idle" /\ pc' = "loop" /\ UNCHANGED <<at, states, store, ran, undone>> /\ ran = <<>> /\ store = <<>> /\ undone = <<>>
    BY <1>2 DEF Start, memory, RollInv, FirstRun
  <2>2. at' # 0 /\ Len(ran') = 0 /\ Len(store) = 0
    BY <2>1 DEF TypeInv, AtOK
  <2>3. \A n \in 1 .. Len(Order) : states'[Order[n]] = StoredState(n)' /\ states'[Order[n]] = "none"
    <3>1. \A n \in 1 .. Len(Order) : StoredState(n) = "none" /\ StoredState(n)' = "none"
      BY <2>1, <2>2, OrderFacts DEF StoredState
    <3>2. QED
      BY <2>1, <3>1 DEF RunInv, MemoryRebuilt, Underway
  <2>4. QED
    BY <2>1, <2>2, <2>3 DEF RollInv, FirstRun, RanInOrder, CompletedRan, Undone
<1>3. ASSUME NEW s \in Steps, Recall(s) PROVE RollInv'
  <2>1. /\ pc = "loop" /\ pc' = "loop" /\ at' = at + 1 /\ at \in Nat /\ UNCHANGED <<mode, states, store, ran, undone>>
    BY <1>3 DEF Recall, AtStep, Advance, TypeInv, TypeOK
  <2>2. Len(Order) \in Nat /\ at' # 0 /\ Underway /\ Underway'
    BY <2>1, OrderFacts DEF Underway
  <2>3. RanInOrder'
    BY <2>1, <2>2 DEF RollInv, RanInOrder
  <2>4. CompletedRan'
    BY <2>1, <2>2 DEF RollInv, CompletedRan, StoredState, Ran
  <2>5. QED
    BY <2>1, <2>2, <2>3, <2>4 DEF RollInv, FirstRun, Undone
<1>4. ASSUME NEW s \in Steps, Skip(s) PROVE RollInv'
  <2>1. /\ at = Len(store) + 1 /\ at \in 1 .. Len(Order) /\ Underway /\ pc = "loop"
        /\ Done(Current, "Skipped", Empty) /\ Empty \in First /\ UNCHANGED <<mode, ran, undone>>
    BY <1>4, DueFacts DEF Skip, First
  <2>2. QED
    BY <2>1, RollDone
<1>5. ASSUME NEW s \in Steps, Pass(s) PROVE RollInv'
  <2>1. /\ at = Len(store) + 1 /\ at \in 1 .. Len(Order) /\ Underway /\ pc = "loop" /\ Kind[Current] # "Command"
        /\ Done(Current, "Completed", Input(s)) /\ Input(s) \in First /\ UNCHANGED <<mode, ran, undone>>
    BY <1>5, DueFacts, InputTyped DEF Pass, TypeInv
  <2>2. QED
    BY <2>1, RollDone
<1>6. ASSUME NEW s \in Steps, NEW f \in First, Executed(s, f) PROVE RollInv'
  <2>1. /\ at = Len(store) + 1 /\ at \in 1 .. Len(Order) /\ Underway /\ pc = "exec" /\ ran' = Append(ran, Current)
        /\ Done(Current, "Completed", f) /\ UNCHANGED <<mode, undone>>
    BY <1>6 DEF Executed, RunInv, Facing, TypeInv, AtOK, Underway
  <2>2. QED
    BY <2>1, RollDone
<1>7. ASSUME NEW s \in Steps, Retry(s) PROVE RollInv'
  <2>1. mode # "approval"
    BY <1>7, DagAssumption DEF Retry, Attempts, TypeInv, TypeOK
  <2>2. QED
    BY <1>7, <2>1, RollElse DEF Retry
<1>8. ASSUME NEW s \in Steps, Check(s) \/ RequestApproval(s) \/ Deny(s) \/ NotStarted(s) \/ ExecutionFails(s)
      PROVE  RollInv'
  <2>1. /\ pc \in {"loop", "exec"} /\ Underway /\ at # 0 /\ UNCHANGED <<mode, undone, states, store>>
        /\ ran' = ran \/ (pc = "exec" /\ ran' = Append(ran, Current))
        /\ \/ pc' = "done" /\ at' = at
           \/ pc' = "rollback" /\ at' = Len(Order)
           \/ pc' \in {"wait", "exec"} /\ at' = at /\ ran' = ran
    BY <1>8 DEF Check, RequestApproval, Deny, NotStarted, ExecutionFails, Due, AtStep, StepFails, Abort, memory, TypeInv, AtOK, Underway
  <2>2. CASE pc' = "done" /\ at' = at
    BY <2>1, <2>2, RollAborts
  <2>3. CASE pc' = "rollback" /\ at' = Len(Order)
    BY <2>1, <2>3, RollBegins
  <2>4. CASE pc' \in {"wait", "exec"} /\ at' = at /\ ran' = ran
    BY <2>1, <2>4, RollQuiet DEF Underway
  <2>5. QED
    BY <2>1, <2>2, <2>3, <2>4
<1>9. CASE Granted
  BY <1>9, RollQuiet DEF Granted, memory, Underway
<1>10. CASE Refused
  BY <1>10, RollBegins DEF Refused, memory, Underway
<1>11. CASE WaitTimesOut
  <2>1. pc = "wait" /\ at' = at /\ at # 0
    BY <1>11 DEF WaitTimesOut, Abort, TypeInv, AtOK
  <2>2. QED
    BY <1>11, <2>1, RollAborts DEF WaitTimesOut, Abort
<1>12. ASSUME NEW s \in Steps, NEW v \in {"Approved", "Denied"}, Decide(s, v) PROVE RollInv'
  BY <1>12, RollQuiet DEF Decide, memory
<1>13. CASE Panic
  <2>1. /\ at' = at /\ at # 0 /\ mode' = mode /\ pc' = "done"
        /\ (Underway \/ ran' = ran)
        /\ (ran' = ran \/ (pc = "exec" /\ ran' = Append(ran, Current)))
    BY <1>13 DEF Panic, Abort, TypeInv, AtOK, Underway
  <2>2. QED
    BY <2>1, RollAborts
<1>14. CASE Rollback
  BY <1>14, RollsBack
<1>15. CASE RollbackEnds
  BY <1>15, RollQuiet DEF RollbackEnds, memory
<1>16. CASE Complete
  <2>1. /\ pc' = "done" /\ at' = at /\ at # 0 /\ mode' = mode /\ ran' = ran
    BY <1>16 DEF Complete, TypeInv, AtOK
  <2>2. QED
    BY <2>1, RollAborts
<1>17. CASE Resume
  BY <1>17, RollElse DEF Resume
<1>18. QED
  BY <1>1, <1>2, <1>3, <1>4, <1>5, <1>6, <1>7, <1>8, <1>9, <1>10, <1>11, <1>12, <1>13, <1>14, <1>15, <1>16, <1>17
     DEF Next, Loop, Execute

\* The invariant holds of every behaviour.
LEMMA RollHolds == Spec => [](TypeInv /\ RunInv /\ RollInv)
<1>1. Init => RollInv
  <2> SUFFICES ASSUME Init PROVE RollInv
    OBVIOUS
  <2>1. mode = "none" /\ ran = <<>> /\ store = <<>> /\ undone = <<>>
    BY DEF Init
  <2>2. QED
    BY <2>1 DEF RollInv, FirstRun, RanInOrder, CompletedRan, Undone
<1>2. TypeInv /\ TypeInv' /\ RunInv /\ RunInv' /\ RollInv /\ [Next]_vars => RollInv'
  BY RollStep
<1>3. QED
  BY RunHolds, <1>1, <1>2, PTL DEF Spec

\* When the rollback of a failed run behind the gate (rollback_dag) has come to its end,
\* every step that it completed and that has a compensator was compensated, once, and
\* the last one first: for every pipeline and set of compensators.
THEOREM RunRollsBack == Spec => []RollbackComplete
<1>1. TypeInv /\ RunInv /\ RollInv => RollbackComplete
  <2> SUFFICES ASSUME TypeInv, RunInv, RollInv, pc = "done", mode = "approval", at = 0
               PROVE  /\ IsInjective(undone)
                      /\ \A s \in Steps :
                           s \in Range(undone) <=> s \in Compensable /\ Ran(s) /\ states[s] = "Completed"
                      /\ \A j, k \in DOMAIN undone : j < k =>
                           \E m, n \in DOMAIN ran : m < n /\ ran[m] = undone[k] /\ ran[n] = undone[j]
    BY DEF RollbackComplete
  <2>1. /\ undone \in Seq(Steps) /\ DOMAIN undone = 1 .. Len(undone) /\ Len(undone) \in Nat
        /\ ran \in Seq(Steps) /\ DOMAIN ran = 1 .. Len(ran) /\ Len(ran) \in Nat
    BY DEF TypeInv, TypeOK
  <2>2. UndoneBehind /\ UndoneBackwards
    BY DEF RollInv, Undone
  <2>3. \A n \in 1 .. Len(Order) : ToUndo(Order[n]) <=> Order[n] \in Compensable /\ Ran(Order[n]) /\ states[Order[n]] = "Completed"
    <3> SUFFICES ASSUME NEW n \in 1 .. Len(Order)
                 PROVE  ToUndo(Order[n]) <=> Order[n] \in Compensable /\ Ran(Order[n]) /\ states[Order[n]] = "Completed"
      OBVIOUS
    <3>1. ToUndo(Order[n]) <=> StoredState(n) = "Completed" /\ Order[n] \in Compensable
      BY ToUndoFacts DEF RunInv
    <3>2. Order[n] \in Compensable => Kind[Order[n]] = "Command"
      BY DagAssumption
    <3>3. QED
      BY <3>1, <3>2 DEF RollInv, CompletedRan
  <2>4. \A k \in 1 .. Len(undone) : \E n \in 1 .. Len(Order) : undone[k] = Order[n] /\ ToUndo(Order[n])
    <3> SUFFICES ASSUME NEW k \in 1 .. Len(undone)
                 PROVE  \E n \in 1 .. Len(Order) : undone[k] = Order[n] /\ ToUndo(Order[n])
      OBVIOUS
    <3>1. undone[k] \in Steps
      BY <2>1
    <3>2. PICK n \in 1 .. Len(Order) : Order[n] = undone[k]
      BY <3>1, OrderFacts
    <3>3. QED
      BY <2>2, <3>2 DEF UndoneBehind
  <2>5. ASSUME NEW j \in DOMAIN undone, NEW k \in DOMAIN undone, undone[j] = undone[k] PROVE j = k
    <3>1. PICK n \in 1 .. Len(Order) : undone[j] = Order[n]
      BY <2>1, <2>4
    <3>2. \A i, l \in 1 .. Len(undone) : i < l /\ undone[i] = Order[n] /\ undone[l] = Order[n] => n > n
      BY <2>2 DEF UndoneBackwards
    <3>3. n \in Nat /\ ~(n > n)
      BY OrderFacts
    <3>4. QED
      <4>1. ~(j < k) /\ ~(k < j)
        BY <2>1, <2>5, <3>1, <3>2, <3>3
      <4>2. QED
        BY <2>1, <4>1
  <2>6. ASSUME NEW s \in Steps PROVE s \in Range(undone) <=> s \in Compensable /\ Ran(s) /\ states[s] = "Completed"
    <3>1. PICK n \in 1 .. Len(Order) : Order[n] = s
      BY OrderFacts
    <3>2. s \in Range(undone) <=> \E k \in 1 .. Len(undone) : undone[k] = Order[n]
      BY <2>1, <3>1 DEF Range
    <3>3. n > at
      BY OrderFacts
    <3>4. QED
      BY <2>2, <2>3, <3>1, <3>2, <3>3 DEF UndoneBehind
  <2>7. ASSUME NEW j \in DOMAIN undone, NEW k \in DOMAIN undone, j < k
        PROVE  \E m, n \in DOMAIN ran : m < n /\ ran[m] = undone[k] /\ ran[n] = undone[j]
    <3>1. PICK a \in 1 .. Len(Order) : undone[j] = Order[a] /\ ToUndo(Order[a])
      BY <2>1, <2>4
    <3>2. PICK b \in 1 .. Len(Order) : undone[k] = Order[b] /\ ToUndo(Order[b])
      BY <2>1, <2>4
    <3>3. a > b
      BY <2>1, <2>2, <2>7, <3>1, <3>2 DEF UndoneBackwards
    <3>4. Ran(Order[a]) /\ Ran(Order[b])
      BY <2>3, <3>1, <3>2
    <3>5. PICK n \in DOMAIN ran : ran[n] = Order[a]
      BY <3>4 DEF Ran
    <3>6. PICK m \in DOMAIN ran : ran[m] = Order[b]
      BY <3>4 DEF Ran
    <3>7. m # n
      BY <3>3, <3>5, <3>6, OrderFacts
    <3>8. n < m => a < b
      BY <2>1, <3>5, <3>6 DEF RollInv, RanInOrder
    <3>9. m < n
      BY <2>1, <3>3, <3>7, <3>8, OrderFacts
    <3>10. QED
      BY <3>1, <3>2, <3>5, <3>6, <3>9
  <2>8. QED
    BY <2>5, <2>6, <2>7 DEF IsInjective
<1>2. QED
  BY RollHolds, <1>1, PTL
=============================================================================
