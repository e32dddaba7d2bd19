\* Compaction: up to eight messages, compacted from the fifth on.
CONSTANTS
  None = None
  Offers <- MCOffers
  Intents <- MCIntents
  Contexts <- MCContexts
  Granted = {"x"}
  Commands = {"f"}
  Distance = 2
  Graphs <- MCGraphs
  BadHash = {"filter"}
  Pipelines <- MCPipelines
  MaxIntents = 3
  Texts <- MCTexts
  Sizes = {0, 1, 12}
  MaxBefore = 4
  MaxMessages = 8
  MaxLogged = 2
SPECIFICATION Spec
INVARIANTS DispatchHolds CompiledRight AnswerIsWhole RefsAreCited DecisionsKept
PROPERTIES IntentEnds
CHECK_DEADLOCK FALSE
