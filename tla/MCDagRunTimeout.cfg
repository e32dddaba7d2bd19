CONSTANTS
  f1 = f1  f2 = f2
  Empty = Empty  NoTarget = NoTarget
  Frames = {f1, f2}
  Order <- FlatOrder
  Kind <- FlatKind
  Preds <- FlatPreds
  Route <- FlatRoute
  Policy <- FlatPolicy
  FailFast <- FlatFailFast
  Compensable <- FlatCompensable
  MaxAttempts = 1
  MaxResumes = 0
SPECIFICATION Spec
INVARIANTS NotLeftWaiting
CHECK_DEADLOCK FALSE
