CONSTANTS
  f1 = f1  f2 = f2
  Empty = Empty  NoTarget = NoTarget
  Frames = {f1, f2}
  Order <- NestedOrder
  Kind <- NestedKind
  Preds <- NestedPreds
  Route <- NestedRoute
  Policy <- NestedPolicy
  FailFast = {}
  Compensable = {}
  MaxAttempts = 1
  MaxResumes = 0
SPECIFICATION Spec
INVARIANTS BranchExclusive
CHECK_DEADLOCK FALSE
