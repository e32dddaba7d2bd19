------------------------------- MODULE DagRun -------------------------------
(***************************************************************************)
(* One DAG pipeline of crates/seaki-pipe: execute_dag_core with its        *)
(* checkpoints, run with checkpoints, resumed from them, or run behind an  *)
(* approval gate with rollback.  The runner is one thread; people decide   *)
(* approval requests meanwhile, and executors fail or panic.               *)
(*                                                                         *)
(* A step's output is abstracted to its first frame, Empty for no frame:   *)
(* only the first frame decides a branch, and every way of merging inputs  *)
(* (concat, interleave, first non-empty) starts with the first frame of    *)
(* the first input that has one.                                           *)
(***************************************************************************)
EXTENDS Integers, Sequences, Functions

CONSTANTS
  Order,       \* the steps, topologically sorted
  Kind,        \* Kind[s]: "Command", "Tee", "Branch", "Join" or "Exit"
  Preds,       \* Preds[s]: the steps before s; none for a step after the entry
  Frames,      \* values of a frame
  Empty,       \* no frame
  Route,       \* Route[b][f]: the successor that branch b selects on first frame f
  NoTarget,    \* the branch's args list no branches: nothing is deselected
  Policy,      \* Policy[s]: the answers StepPolicy::check may give for s
  FailFast,    \* the steps whose error is not replaced by frames
  Compensable, \* the steps whose command has a compensator
  MaxAttempts, \* RetryPolicy::max_attempts of a run with checkpoints
  MaxResumes   \* bound: resume_dag is called no more often

Steps  == {Order[n] : n \in DOMAIN Order}
First  == Frames \cup {Empty}

\* A pipeline as the compiler makes it.
ASSUME DagAssumption ==
  /\ Order \in Seq(Steps)
  /\ \A m, n \in DOMAIN Order : Order[m] = Order[n] => m = n
  /\ Kind \in [Steps -> {"Command", "Tee", "Branch", "Join", "Exit"}]
  /\ Preds \in [Steps -> SUBSET Steps]
  /\ \A m, n \in DOMAIN Order : Order[m] \in Preds[Order[n]] => m < n
  /\ Empty \notin Frames
  /\ NoTarget \notin Steps
  /\ Route \in [Steps -> [First -> Steps \cup {NoTarget}]]
  /\ Policy \in [Steps -> SUBSET {"Allow", "RequireApproval", "Deny"}]
  /\ FailFast \subseteq Steps
  /\ Compensable \subseteq {s \in Steps : Kind[s] = "Command"}
  /\ MaxAttempts \in Nat \ {0}
  /\ MaxResumes \in Nat

\* No branch directly follows a branch: then none is ever deselected itself.
FlatBranches ==
  \A b \in Steps : Kind[b] = "Branch" => \A p \in Preds[b] : Kind[p] # "Branch"

VARIABLES
  pc,       \* what the runner does next
  mode,     \* "checkpoint", "resume" or "approval": the entry point called
  at,       \* position in Order: of the loop, or of the rollback
  attempt,  \* attempts made at the current step
  initial,  \* first frame of the pipeline's input
  states,   \* step_states
  outputs,  \* step_outputs
  selected, \* branch_selections, NoTarget for none
  store,    \* the checkpoints, in the order saved
  sm,       \* PipelineStateMachine.state
  gate,     \* gate[s]: status of the approval request for s, "none" before it
  resumes,  \* calls of resume_dag so far
  approved, \* history: the steps whose request was ever approved
  ran,      \* history: the calls of CommandExecutor::execute
  undone    \* history: the calls of CompensatingExecutor::compensate

memory == <<states, outputs, selected>>
vars   == <<pc, mode, at, attempt, initial, memory, store, sm, gate, resumes,
            approved, ran, undone>>

Checkpoint == [step : Steps, state : {"Completed", "Skipped"}, output : First]

Init ==
  /\ pc = "idle" /\ mode = "none" /\ at = 1 /\ attempt = 0
  /\ initial \in First
  /\ states   = [s \in Steps |-> "none"]
  /\ outputs  = [s \in Steps |-> Empty]
  /\ selected = [s \in Steps |-> NoTarget]
  /\ store    = <<>>
  /\ sm       = "Pending"
  /\ gate     = [s \in Steps |-> "none"]
  /\ resumes  = 0
  /\ approved = {}
  /\ ran      = <<>>
  /\ undone   = <<>>

-----------------------------------------------------------------------------
(* Pure parts: inputs, branches and skipping.                              *)

\* The predecessors whose frames a step takes.
Sources(s) == {p \in Preds[s] : selected[p] \in {NoTarget, s}}

\* resolve_dag_input: frames of the predecessors in topological order.
Input(s) ==
  IF Sources(s) = {} THEN initial
  ELSE LET given == {n \in DOMAIN Order : Order[n] \in Sources(s) /\ outputs[Order[n]] # Empty} IN
       IF given = {} THEN Empty
       ELSE outputs[Order[CHOOSE n \in given : \A m \in given : n <= m]]

\* evaluate_branch: the selections once s has been reached.
Selection(s) ==
  IF Kind[s] = "Branch" THEN [selected EXCEPT ![s] = Route[s][Input(s)]] ELSE selected

\* should_skip_step: one branch that selects another step is enough.
ShouldSkip(s) == \E p \in Preds[s] : selected[p] \notin {NoTarget, s}

Saved(s) == \E n \in DOMAIN store : store[n].step = s

-----------------------------------------------------------------------------
(* The loop over the steps.                                                *)

Current == Order[at]

AtStep(s) == pc = "loop" /\ at <= Len(Order) /\ s = Current

Advance == at' = at + 1 /\ attempt' = 0 /\ pc' = "loop"

\* The function returns an error; local state is lost with it.
Abort == pc' = "done" /\ UNCHANGED <<at, attempt>>

\* Mutant: a skipped step leaves no checkpoint.
SaveCompleted(s, state, output) ==
  \/ /\ store' = IF state = "Skipped" THEN store
                 ELSE Append(store, [step |-> s, state |-> state, output |-> output])
     /\ Advance
  \/ /\ store' = store
     /\ Abort

\* save_checkpoint, which may fail; the loop goes on only when it does not.
Save(s, state, output) ==
  \/ /\ store' = Append(store, [step |-> s, state |-> state, output |-> output])
     /\ Advance
  \/ /\ store' = store
     /\ Abort

\* The step is done with this output.
Done(s, state, output) ==
  /\ states'  = [states EXCEPT ![s] = state]
  /\ outputs' = [outputs EXCEPT ![s] = output]
  /\ Save(s, state, output)

\* Mutant: a branch restored from its checkpoint selects nothing.
RecallUnselected(s) ==
  /\ AtStep(s)
  /\ states[s] # "none"
  /\ Advance
  /\ UNCHANGED <<mode, initial, memory, store, sm, gate, resumes, approved, ran, undone>>

\* A step restored from a checkpoint is not run again; a branch selects again.
Recall(s) ==
  /\ AtStep(s)
  /\ states[s] # "none"
  /\ selected' = Selection(s)
  /\ Advance
  /\ UNCHANGED <<mode, initial, states, outputs, store, sm, gate, resumes,
                 approved, ran, undone>>

\* A step that a branch deselects is marked Skipped, with no frames.
Skip(s) ==
  /\ AtStep(s)
  /\ states[s] = "none"
  /\ ShouldSkip(s)
  /\ Done(s, "Skipped", Empty)
  /\ UNCHANGED <<mode, initial, selected, sm, gate, resumes, approved, ran, undone>>

\* Tee, join, exit and branch pass their input on; a branch selects.
Pass(s) ==
  /\ AtStep(s)
  /\ states[s] = "none"
  /\ ~ShouldSkip(s)
  /\ Kind[s] # "Command"
  /\ selected' = Selection(s)
  /\ Done(s, "Completed", Input(s))
  /\ UNCHANGED <<mode, initial, sm, gate, resumes, approved, ran, undone>>

\* The step fails before or in its execution.  Only run_dag_with_approval has
\* a state machine; it rolls back if the machine has reached Failed.
StepFails(retryable) ==
  IF mode = "approval" /\ ~retryable /\ sm = "Running"
    THEN sm' = "Failed" /\ pc' = "rollback" /\ at' = Len(Order) /\ attempt' = attempt
    ELSE sm' = sm /\ Abort

\* A command that neither a checkpoint nor a branch takes out.
Due(s) ==
  /\ AtStep(s)
  /\ states[s] = "none"
  /\ ~ShouldSkip(s)
  /\ Kind[s] = "Command"

\* execute_step's own policy check; with a gate it is the second one.
Check(s) ==
  /\ Due(s)
  /\ mode = "approval" => "Allow" \in Policy[s]
  /\ \/ /\ "Allow" \in Policy[s]
        /\ pc' = "exec"
        /\ UNCHANGED <<at, attempt, sm>>
     \/ "Deny" \in Policy[s] /\ StepFails(FALSE)
     \/ "RequireApproval" \in Policy[s] /\ StepFails(TRUE)
  /\ UNCHANGED <<mode, initial, memory, store, gate, resumes, approved, ran, undone>>

\* With a gate, a denial by the policy returns at once, without rollback.
Deny(s) ==
  /\ Due(s)
  /\ mode = "approval"
  /\ "Deny" \in Policy[s]
  /\ Abort
  /\ UNCHANGED <<mode, initial, memory, store, sm, gate, resumes, approved, ran, undone>>

\* With a gate, the run waits for an answer to its request.
RequestApproval(s) ==
  /\ Due(s)
  /\ mode = "approval"
  /\ "RequireApproval" \in Policy[s]
  /\ gate' = [gate EXCEPT ![s] = "Pending"]
  /\ sm'   = "AwaitingApproval"
  /\ pc'   = "wait"
  /\ UNCHANGED <<mode, at, attempt, initial, memory, store, resumes, approved, ran, undone>>

-----------------------------------------------------------------------------
(* The gate: wait_for_approval polls, people approve and deny.             *)

\* Mutant: anything but a denial lets the step go on.
GrantedUnlessDenied ==
  /\ pc = "wait"
  /\ gate[Current] # "Denied"
  /\ sm' = "Running"
  /\ pc' = "exec"
  /\ UNCHANGED <<mode, at, attempt, initial, memory, store, gate, resumes, approved,
                 ran, undone>>

Granted ==
  /\ pc = "wait"
  /\ gate[Current] = "Approved"
  /\ sm' = "Running"
  /\ pc' = "exec"
  /\ UNCHANGED <<mode, at, attempt, initial, memory, store, gate, resumes, approved,
                 ran, undone>>

Refused ==
  /\ pc = "wait"
  /\ gate[Current] = "Denied"
  /\ sm' = "Failed"
  /\ pc' = "rollback"
  /\ at' = Len(Order)
  /\ UNCHANGED <<mode, attempt, initial, memory, store, gate, resumes, approved, ran, undone>>

\* 30 s without an answer: the gate's error leaves execute_dag_core by `?`,
\* before any transition.
WaitTimesOut ==
  /\ pc = "wait"
  /\ gate[Current] = "Pending"
  /\ Abort
  /\ UNCHANGED <<mode, initial, memory, store, sm, gate, resumes, approved, ran, undone>>

\* approve and deny take any request there is, decided or not.
Decide(s, verdict) ==
  /\ gate[s] \notin {"none", verdict}
  /\ gate'     = [gate EXCEPT ![s] = verdict]
  /\ approved' = IF verdict = "Approved" THEN approved \cup {s} ELSE approved
  /\ UNCHANGED <<pc, mode, at, attempt, initial, memory, store, sm, resumes, ran, undone>>

-----------------------------------------------------------------------------
(* Execution.                                                              *)

Attempts == IF mode = "approval" THEN 1 ELSE MaxAttempts

\* The quota check before the call fails, or there is no such command.
NotStarted(s) ==
  /\ pc = "exec" /\ s = Current
  /\ StepFails(FALSE)
  /\ UNCHANGED <<mode, initial, memory, store, gate, resumes, approved, ran, undone>>

\* execute returns frames, or fails and the step's failure policy replaces them.
Executed(s, f) ==
  /\ pc = "exec" /\ s = Current
  /\ ran' = Append(ran, s)
  /\ Done(s, "Completed", f)
  /\ UNCHANGED <<mode, initial, selected, sm, gate, resumes, approved, undone>>

\* It fails for good: FailFast, a quota exceeded after the call, or frames of
\* the wrong type.
ExecutionFails(s) ==
  /\ pc = "exec" /\ s = Current
  /\ ran' = Append(ran, s)
  /\ \/ StepFails(FALSE)
     \/ s \in FailFast /\ attempt + 1 >= Attempts /\ StepFails(TRUE)
  /\ UNCHANGED <<mode, initial, memory, store, gate, resumes, approved, undone>>

\* A retryable error with attempts left.
Retry(s) ==
  /\ pc = "exec" /\ s = Current
  /\ s \in FailFast
  /\ attempt + 1 < Attempts
  /\ ran' = Append(ran, s)
  /\ attempt' = attempt + 1
  /\ UNCHANGED <<pc, mode, at, initial, memory, store, sm, gate, resumes, approved, undone>>

\* The executor or the compensator panics.
Panic ==
  /\ \/ pc = "exec" /\ ran' = Append(ran, Current) /\ undone' = undone
     \/ pc = "rollback" /\ at > 0 /\ ran' = ran /\ undone' = undone
  /\ Abort
  /\ UNCHANGED <<mode, initial, memory, store, sm, gate, resumes, approved>>

-----------------------------------------------------------------------------
(* The entry points.                                                       *)

\* run_dag_with_checkpoint or run_dag_with_approval.
Start(m) ==
  /\ pc = "idle"
  /\ pc'   = "loop"
  /\ mode' = m
  /\ sm'   = IF m = "approval" THEN "Running" ELSE sm
  /\ UNCHANGED <<at, attempt, initial, memory, store, gate, resumes, approved, ran, undone>>

\* The last checkpoint of s.
Latest(s) ==
  LET mine == {n \in DOMAIN store : store[n].step = s} IN
  store[CHOOSE n \in mine : \A k \in mine : k <= n]

\* Mutant: the outputs are restored, the states are not.
ResumeOutputs ==
  /\ pc = "done" /\ at <= Len(Order)
  /\ resumes < MaxResumes
  /\ pc' = "loop" /\ mode' = "resume" /\ at' = 1 /\ attempt' = 0
  /\ states'   = [s \in Steps |-> "none"]
  /\ outputs'  = [s \in Steps |-> IF Saved(s) THEN Latest(s).output ELSE Empty]
  /\ selected' = [s \in Steps |-> NoTarget]
  /\ resumes'  = resumes + 1
  /\ UNCHANGED <<initial, store, sm, gate, approved, ran, undone>>

\* resume_dag_with_retry after a run that returned an error or panicked, given
\* the same input.
Resume ==
  /\ pc = "done" /\ at <= Len(Order)
  /\ resumes < MaxResumes
  /\ pc' = "loop" /\ mode' = "resume" /\ at' = 1 /\ attempt' = 0
  /\ states'   = [s \in Steps |-> IF Saved(s) THEN Latest(s).state ELSE "none"]
  /\ outputs'  = [s \in Steps |-> IF Saved(s) THEN Latest(s).output ELSE Empty]
  /\ selected' = [s \in Steps |-> NoTarget]
  /\ resumes'  = resumes + 1
  /\ UNCHANGED <<initial, store, sm, gate, approved, ran, undone>>

\* All steps are behind.
Complete ==
  /\ pc = "loop" /\ at > Len(Order)
  /\ pc' = "done"
  /\ sm' = IF mode = "approval" THEN "Completed" ELSE sm
  /\ UNCHANGED <<mode, at, attempt, initial, memory, store, gate, resumes, approved,
                 ran, undone>>

-----------------------------------------------------------------------------
(* rollback_dag: the steps backwards, one compensator call at a time.      *)

FirstCheckpoint(s) ==
  store[CHOOSE n \in DOMAIN store :
          store[n].step = s /\ \A k \in 1..(n - 1) : store[k].step # s]

ToUndo(s) == Saved(s) /\ FirstCheckpoint(s).state = "Completed" /\ s \in Compensable

\* Mutant: the checkpoints are not consulted.
RollbackAll ==
  /\ pc = "rollback" /\ at > 0
  /\ undone' = IF Current \in Compensable THEN Append(undone, Current) ELSE undone
  /\ at' = at - 1
  /\ UNCHANGED <<pc, mode, attempt, initial, memory, store, sm, gate, resumes, approved, ran>>

\* A compensator that returns an error is recorded and the rollback goes on.
Rollback ==
  /\ pc = "rollback" /\ at > 0
  /\ undone' = IF ToUndo(Current) THEN Append(undone, Current) ELSE undone
  /\ at' = at - 1
  /\ UNCHANGED <<pc, mode, attempt, initial, memory, store, sm, gate, resumes, approved, ran>>

RollbackEnds ==
  /\ pc = "rollback" /\ at = 0
  /\ pc' = "done"
  /\ UNCHANGED <<mode, at, attempt, initial, memory, store, sm, gate, resumes, approved,
                 ran, undone>>

-----------------------------------------------------------------------------
Loop(s) ==
  \/ Recall(s) \/ Skip(s) \/ Pass(s)
  \/ Check(s) \/ Deny(s) \/ RequestApproval(s)

Execute(s) ==
  \/ NotStarted(s) \/ ExecutionFails(s) \/ Retry(s)
  \/ \E f \in First : Executed(s, f)

Next ==
  \/ \E m \in {"checkpoint", "approval"} : Start(m)
  \/ \E s \in Steps : Loop(s) \/ Execute(s)
  \/ Granted \/ Refused \/ WaitTimesOut
  \/ \E s \in Steps, v \in {"Approved", "Denied"} : Decide(s, v)
  \/ Panic \/ Rollback \/ RollbackEnds \/ Complete \/ Resume

Spec == Init /\ [][Next]_vars

-----------------------------------------------------------------------------
TypeOK ==
  /\ pc \in {"idle", "loop", "wait", "exec", "rollback", "done"}
  /\ mode \in {"none", "checkpoint", "resume", "approval"}
  /\ at \in 0..(Len(Order) + 1)
  /\ attempt \in 0..MaxAttempts
  /\ initial \in First
  /\ states \in [Steps -> {"none", "Completed", "Skipped"}]
  /\ outputs \in [Steps -> First]
  /\ selected \in [Steps -> Steps \cup {NoTarget}]
  /\ store \in Seq(Checkpoint)
  /\ sm \in {"Pending", "Running", "AwaitingApproval", "Completed", "Failed"}
  /\ gate \in [Steps -> {"none", "Pending", "Approved", "Denied"}]
  /\ resumes \in 0..MaxResumes
  /\ approved \subseteq Steps
  /\ ran \in Seq(Steps)
  /\ undone \in Seq(Steps)

Ran(s) == \E n \in DOMAIN ran : ran[n] = s

\* A branch routes to one of its successors: in the life of a pipeline, with
\* all its interruptions and resumptions, never do two of them run.  (It does
\* not hold below a branch that is itself deselected.)
BranchExclusive ==
  \A b \in {s \in Steps : Kind[s] = "Branch" /\ \A f \in First : Route[s][f] # NoTarget} :
    \A s, t \in Steps :
      b \in Preds[s] \cap Preds[t] /\ Ran(s) /\ Ran(t) => s = t

\* At every moment of a run, what it knows of the steps behind it can be
\* rebuilt from the checkpoints: a run that is interrupted now and resumed
\* takes the same branches, skips the same steps and feeds the same inputs.
MemoryIsStored ==
  pc \in {"loop", "wait", "exec"} =>
    \A n \in DOMAIN Order :
      LET s == Order[n] IN
      /\ states[s] = IF Saved(s) THEN Latest(s).state ELSE "none"
      /\ outputs[s] = IF Saved(s) THEN Latest(s).output ELSE Empty
      /\ Kind[s] = "Branch" /\ states[s] = "Completed" /\ n < at
           => selected[s] = Route[s][outputs[s]]

\* A step whose checkpoint is saved is never executed again.
CheckpointedOnce ==
  [][ran' # ran => ~Saved(ran'[Len(ran')])]_vars

\* No step runs that the policy would not have run without a human: either the
\* policy allows it, or its own request was approved at some moment before.
Consented ==
  \A s \in Steps : Ran(s) => "Allow" \in Policy[s] \/ s \in approved

\* When a run behind the gate has failed and its rollback has come to its end,
\* every step that it completed and that has a compensator was compensated,
\* once, and in the reverse order of execution.
RollbackComplete ==
  pc = "done" /\ mode = "approval" /\ sm = "Failed" /\ at = 0 =>
    /\ IsInjective(undone)
    /\ \A s \in Steps :
         s \in Range(undone) <=> s \in Compensable /\ Ran(s) /\ states[s] = "Completed"
    /\ \A j, k \in DOMAIN undone : j < k =>
         \E m, n \in DOMAIN ran : m < n /\ ran[m] = undone[k] /\ ran[n] = undone[j]

\* What the state machine and its test say of a request that nobody answers:
\* the pipeline fails.  It is never over and still waiting.
NotLeftWaiting == pc = "done" => sm # "AwaitingApproval"
=============================================================================
