CONSTANTS
  f1 = f1  f2 = f2
  Empty = Empty  NoTarget = NoTarget
  Frames = {f1, f2}
  Order <- FlatOrder
  Kind <- FlatKind
  Preds <- FlatPreds
  Route <- FlatRoute
  Policy <- FlatPolicy
  FailFast <- FlatFailFast
  Compensable <- FlatCompensable
  MaxAttempts = 2
  MaxResumes = 2
SPECIFICATION Spec
INVARIANTS BranchExclusive MemoryIsStored Consented RollbackComplete
PROPERTIES CheckpointedOnce
CHECK_DEADLOCK FALSE
