--------------------------------- MODULE Agent ---------------------------------
(***************************************************************************)
(* One session of the agent (crates/seaki-agent/src/runtime.rs): an intent *)
(* becomes a pipeline, the pipeline runs (crates/seaki-pipe/src/run.rs)    *)
(* and, when the policy asks for an approval, waits for one and is taken   *)
(* up where it stopped.  The outputs of steps are terms: what step `s`     *)
(* gives for the input `i` is <<s, i>>.                                    *)
(***************************************************************************)
EXTENDS Naturals, Sequences, Functions

CONSTANTS
  Pipelines,   \* what skills may render: sequences of [id, binding], ids distinct;
               \* a binding is "previous", "constant" or the id of a step
  MaxIntents,  \* bound: intents of the session
  None

\* What the proofs in AssistantProofs need: a step is known by its id.
AgentAssumption ==
  \A p \in Pipelines :
    /\ p \in Seq([id : STRING, binding : STRING])
    /\ \A j, k \in DOMAIN p : p[j].id = p[k].id => j = k

VARIABLES
  session,     \* SessionStateMachine.state
  doing,       \* where execute_intent is: "rest", "plan", "run" or "wait"
  pipeline,    \* the composed pipeline
  at,          \* the step to be executed next
  outputs,     \* step_outputs: the steps done and what they gave
  previous,    \* previous_output
  trail,       \* ctx.audit: the steps recorded
  resumed,     \* run_resume is running, and no longer run
  approval,    \* the request at the gate: None, "pending", "approved", "denied"
  result,      \* what execute_intent returned last
  calls,       \* history: the executors called for this intent
  intents      \* intents so far

agentVars == <<session, doing, pipeline, at, outputs, previous, trail, resumed,
               approval, result, calls, intents>>

SessionStates == {"Idle", "Planning", "Executing", "AwaitingUser", "Compacting"}

\* is_valid_transition.
IsValidTransition(from, to) ==
  \/ <<from, to>> \in {<<"Idle", "Planning">>, <<"Idle", "Executing">>,
                       <<"Planning", "Executing">>, <<"Planning", "AwaitingUser">>,
                       <<"Executing", "AwaitingUser">>, <<"Executing", "Compacting">>,
                       <<"AwaitingUser", "Planning">>, <<"AwaitingUser", "Executing">>}
  \/ from # "Idle" /\ to = "Idle"

Intent == <<"intent">>
Constant == <<"constant">>
NoOutputs == [id \in {} |-> None]

AgentInit ==
  /\ session = "Idle" /\ doing = "rest" /\ pipeline = <<>> /\ at = 0
  /\ outputs = NoOutputs /\ previous = None /\ trail = <<>> /\ resumed = FALSE
  /\ approval = None /\ result = None /\ calls = <<>> /\ intents = 0

\* execute_intent returns; an error leaves the session's state as it is.
Return(r) == doing' = "rest" /\ result' = r

Fails(why) ==
  /\ Return([kind |-> why])
  /\ UNCHANGED <<session, pipeline, at, outputs, previous, trail, resumed, approval>>

------------------------------------------------------------------------------

\* The owner of the session changes its state, or resets it after an error.
CallerTransition ==
  /\ doing = "rest" /\ intents < MaxIntents
  /\ \E to \in SessionStates : IsValidTransition(session, to) /\ session' = to
  /\ UNCHANGED <<doing, pipeline, at, outputs, previous, trail, resumed, approval,
                 result, calls, intents>>

\* It fails at once when its session cannot begin to plan, and in any state for a
\* session without messages: which one it gets is the caller's choice.
Begin ==
  /\ doing = "rest" /\ intents < MaxIntents
  /\ intents' = intents + 1 /\ calls' = <<>>
  /\ \/ /\ IsValidTransition(session, "Planning")
        /\ session' = "Planning" /\ doing' = "plan" /\ result' = None
        /\ UNCHANGED <<pipeline, at, outputs, previous, trail, resumed, approval>>
     \/ Fails("ExecutionFailed")

\* compose: the first step needs a constant, a step refers to earlier ones only.
Composes(p) ==
  /\ p # <<>> /\ p[1].binding # "previous"
  /\ \A k \in DOMAIN p :
       p[k].binding \notin {"previous", "constant"} =>
         \E j \in 1 .. k - 1 : p[j].id = p[k].binding

\* dispatch and compose, which may fail, then run with a fresh context.
Plan ==
  /\ doing = "plan"
  /\ \/ Fails("NotPlanned")
     \/ \E p \in Pipelines :
          IF Composes(p)
          THEN /\ pipeline' = p /\ session' = "Executing" /\ doing' = "run" /\ at' = 1
               /\ outputs' = NoOutputs /\ previous' = Intent /\ trail' = <<>>
               /\ resumed' = FALSE /\ approval' = None /\ UNCHANGED result
          ELSE Fails("PipelineCompileFailed")
  /\ UNCHANGED <<calls, intents>>

Step == pipeline[at]

\* resolve_input
Input(step, before, gave) ==
  IF step.binding = "previous" THEN before
  ELSE IF step.binding = "constant" THEN Constant
  ELSE gave[step.binding]

\* execute_step: the policy forbids the step, or its executor is missing, fails,
\* exceeds a limit or gives frames of another type.
StepFails ==
  /\ doing = "run" /\ at <= Len(pipeline)
  /\ \E called \in BOOLEAN : calls' = IF called THEN Append(calls, Step.id) ELSE calls
  /\ Fails("ExecutionFailed")
  /\ UNCHANGED intents

StepSucceeds ==
  /\ doing = "run" /\ at <= Len(pipeline)
  /\ LET gives == <<Step.id, Input(Step, previous, outputs)>> IN
     /\ previous' = gives
     /\ outputs' = [id \in DOMAIN outputs \cup {Step.id} |->
                      IF id = Step.id THEN gives ELSE outputs[id]]
  /\ trail' = Append(trail, Step.id)
  /\ calls' = Append(calls, Step.id)
  /\ at' = at + 1
  /\ UNCHANGED <<session, doing, pipeline, resumed, approval, result, intents>>

\* The policy wants an approval: run saves the outputs and the runtime asks the
\* gate, which may fail.  A resumed run that wants another one just fails.
StepWantsApproval ==
  /\ doing = "run" /\ at <= Len(pipeline)
  /\ \/ ~resumed /\ doing' = "wait" /\ approval' = "pending"
        /\ UNCHANGED <<session, pipeline, at, outputs, previous, trail, resumed, result>>
     \/ Fails("ExecutionFailed")
  /\ UNCHANGED <<calls, intents>>

\* Somebody decides; a decision can come when nobody waits for it any more.
Decide ==
  /\ approval = "pending"
  /\ approval' \in {"approved", "denied"}
  /\ UNCHANGED <<session, doing, pipeline, at, outputs, previous, trail, resumed,
                 result, calls, intents>>

\* Mutant: the pipeline is taken up with what the intent gave it.
TakenUpWithInput(step) == Intent

\* run_resume: what the step before gave, from the outputs handed over.
TakenUpWith(step) ==
  IF step = 1 THEN Intent ELSE outputs[pipeline[step - 1].id]

\* run_resume: the position of the step that wanted the approval.
TakenUpAt(id) == CHOOSE k \in DOMAIN pipeline : pipeline[k].id = id

Approved ==
  /\ doing = "wait" /\ approval = "approved"
  /\ doing' = "run" /\ resumed' = TRUE
  /\ at' = TakenUpAt(Step.id)
  /\ previous' = TakenUpWith(TakenUpAt(Step.id))
  /\ UNCHANGED <<session, pipeline, outputs, trail, approval, result, calls, intents>>

Denied ==
  /\ doing = "wait" /\ approval = "denied"
  /\ Fails("ApprovalDenied")
  /\ UNCHANGED <<calls, intents>>

\* Mutant: the wait for an approval has no end.
GivesUpNever == FALSE

\* wait_for_approval: approval_timeout_ms is over.
GivesUp == approval = "pending"

TimesOut ==
  /\ doing = "wait" /\ GivesUp
  /\ Fails("ExecutionFailed")
  /\ UNCHANGED <<calls, intents>>

\* The answer is in the last output.
Answer ==
  /\ doing = "run" /\ at > Len(pipeline)
  /\ Return([kind |-> "answered", answer |-> previous, trail |-> trail])
  /\ session' = "Idle"
  /\ UNCHANGED <<pipeline, at, outputs, previous, trail, resumed, approval, calls, intents>>

Runtime == Plan \/ StepFails \/ StepSucceeds \/ StepWantsApproval \/ Approved
           \/ Denied \/ TimesOut \/ Answer

AgentNext == CallerTransition \/ Begin \/ Runtime \/ Decide

AgentSafety == AgentInit /\ [][AgentNext]_agentVars

\* The thread of execute_intent goes on; nobody has to decide or to begin.
AgentSpec == AgentSafety /\ WF_agentVars(Runtime)

------------------------------------------------------------------------------
(* What is asked of it *)

\* What one more step makes of what the steps before it gave.
AfterStep(done, step) ==
  LET gives == <<step.id, Input(step, done.previous, done.gave)>>
  IN [previous |-> gives,
      gave |-> [id \in DOMAIN done.gave \cup {step.id} |->
                  IF id = step.id THEN gives ELSE done.gave[id]]]

BeforeSteps == [previous |-> Intent, gave |-> NoOutputs]

\* What a run of a pipeline without interruption gives.
Uninterrupted(p) ==
  LET Run[k \in 0 .. Len(p)] ==
        IF k = 0 THEN BeforeSteps ELSE AfterStep(Run[k - 1], p[k])
  IN Run[Len(p)].previous

\* However often a run was interrupted for an approval, the answer of an intent and
\* its audit trail are those of a run that was not, and no executor of it was
\* called twice.
AnswerIsWhole ==
  (result # None /\ result.kind = "answered") =>
    /\ result.answer = Uninterrupted(pipeline)
    /\ result.trail = [k \in DOMAIN pipeline |-> pipeline[k].id]

NothingTwice == IsInjective(calls)

\* execute_intent returns, also when nobody ever decides.
IntentEnds == (doing # "rest") ~> (doing = "rest")

=============================================================================
