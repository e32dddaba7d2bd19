------------------------------- MODULE Assistant -------------------------------
(***************************************************************************)
(* The way from an intent to an answer: Dispatch, Compile, Agent, Answers  *)
(* and Compaction.  They share no state, so their steps commute and a      *)
(* behaviour is one of a single service: scene says which, the variables   *)
(* of the others stay None.                                                *)
(***************************************************************************)
EXTENDS Naturals, Sequences, FiniteSets

CONSTANT None

VARIABLE scene

------------------------------------------------------------------------------
(* Dispatch *)

CONSTANTS Offers, Intents, Contexts, Granted, Commands, Distance

VARIABLES offered, skills, intent, context, outcome

DI == INSTANCE Dispatch WITH result <- outcome

dispatchVars == <<offered, skills, intent, context, outcome>>
DispatchIdle ==
  offered = None /\ skills = None /\ intent = None /\ context = None /\ outcome = None

------------------------------------------------------------------------------
(* Compile *)

CONSTANTS Graphs, BadHash

VARIABLES graph, linear, dag

CO == INSTANCE Compile

compileVars == <<graph, linear, dag>>
CompileIdle == graph = None /\ linear = None /\ dag = None

------------------------------------------------------------------------------
(* Agent *)

CONSTANTS Pipelines, MaxIntents

VARIABLES session, doing, pipeline, at, outputs, previous, trail, resumed, approval,
          result, calls, intents

AG == INSTANCE Agent

agentVars == <<session, doing, pipeline, at, outputs, previous, trail, resumed, approval,
               result, calls, intents>>
AgentIdle ==
  /\ session = None /\ doing = None /\ pipeline = None /\ at = None /\ outputs = None
  /\ previous = None /\ trail = None /\ resumed = None /\ approval = None
  /\ result = None /\ calls = None /\ intents = None

------------------------------------------------------------------------------
(* Answers *)

CONSTANTS Texts, Sizes

VARIABLES text, results, answer

AN == INSTANCE Answers

answerVars == <<text, results, answer>>
AnswersIdle == text = None /\ results = None /\ answer = None

------------------------------------------------------------------------------
(* Compaction *)

CONSTANTS MaxBefore, MaxMessages, MaxLogged

VARIABLES messages, said, unlogged, logged

CM == INSTANCE Compaction

sessionVars == <<messages, said, unlogged, logged>>
SessionIdle == messages = None /\ said = None /\ unlogged = None /\ logged = None

------------------------------------------------------------------------------

\* What the proofs take the constants to be.
ASSUME AssistantAssumption ==
  /\ DI!DispatchAssumption
  /\ CO!CompileAssumption
  /\ AG!AgentAssumption
  /\ AN!AnswersAssumption
  /\ CM!CompactionAssumption

Init ==
  \/ /\ scene = "dispatch" /\ DI!DispatchInit /\ CompileIdle /\ AgentIdle
     /\ AnswersIdle /\ SessionIdle
  \/ /\ scene = "compile" /\ DispatchIdle /\ CO!CompileInit /\ AgentIdle
     /\ AnswersIdle /\ SessionIdle
  \/ /\ scene = "agent" /\ DispatchIdle /\ CompileIdle /\ AG!AgentInit
     /\ AnswersIdle /\ SessionIdle
  \/ /\ scene = "answer" /\ DispatchIdle /\ CompileIdle /\ AgentIdle
     /\ AN!AnswersInit /\ SessionIdle
  \/ /\ scene = "session" /\ DispatchIdle /\ CompileIdle /\ AgentIdle
     /\ AnswersIdle /\ CM!CompactionInit

Dispatching == /\ scene = "dispatch" /\ DI!DispatchNext
               /\ UNCHANGED <<scene, compileVars, agentVars, answerVars, sessionVars>>
Compiling == /\ scene = "compile" /\ CO!CompileGraph
             /\ UNCHANGED <<scene, dispatchVars, agentVars, answerVars, sessionVars>>
Executing == /\ scene = "agent" /\ AG!AgentNext
             /\ UNCHANGED <<scene, dispatchVars, compileVars, answerVars, sessionVars>>
Composing == /\ scene = "answer" /\ AN!Compose
             /\ UNCHANGED <<scene, dispatchVars, compileVars, agentVars, sessionVars>>
Compacting == /\ scene = "session" /\ CM!CompactionNext
              /\ UNCHANGED <<scene, dispatchVars, compileVars, agentVars, answerVars>>

Next ==
  \/ Dispatching
  \/ Compiling
  \/ Executing
  \/ Composing
  \/ Compacting

vars == <<scene, dispatchVars, compileVars, agentVars, answerVars, sessionVars>>

Safety == Init /\ [][Next]_vars

\* The thread of execute_intent goes on; nobody has to decide or to begin.
Thread == /\ scene = "agent" /\ AG!Runtime
          /\ UNCHANGED <<scene, dispatchVars, compileVars, answerVars, sessionVars>>

Spec == Safety /\ WF_vars(Thread)

------------------------------------------------------------------------------
(* What is asked of them, of each where it is the one *)

\* Dispatch: a match is as close as the edits say and may be dispatched by its actor,
\* and no variable in what the user says is ever looked up.
DispatchHolds == scene = "dispatch" => DI!MatchIsClosest /\ DI!IntentIsOpaque

\* Compile: both compilers find the cycles, a DAG has every node after those before
\* it, and the steps of a linear pipeline fit together as those of its DAG do.
CompiledRight ==
  scene = "compile" => CO!CyclesAreFound /\ CO!StepsFollowEdges /\ CO!ChainFits

\* Agent: an interrupted intent is answered as an uninterrupted one, and nothing is
\* executed twice for it.
AnswerIsWhole == scene = "agent" => AG!AnswerIsWhole /\ AG!NothingTwice

\* Agent: execute_intent returns, also when nobody ever decides.
IntentEnds == (scene = "agent" /\ doing # "rest") ~> (doing = "rest")

\* Answers: an answer refers to exactly the results that its text cites.
RefsAreCited == scene = "answer" => AN!RefsAreCited

\* Compaction: decisions and the latest messages survive every compaction.
DecisionsKept == scene = "session" => CM!DecisionsKept

=============================================================================
