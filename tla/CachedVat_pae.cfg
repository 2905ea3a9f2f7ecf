CONSTANTS
  ValidatorKind = "count"
  ValidFor = 2
  CounterMod = 16
  Roots = {0, 1}
  RootsPerFrame = 2
  Entries = 2
  PageSize = 4
  VPages <- MCVPages
  Frames = {7}
  None = None
  Batches <- MCBatches
  MaxTime = 3
SPECIFICATION Spec
CHECK_DEADLOCK FALSE
INVARIANTS
  AnswersOwn
