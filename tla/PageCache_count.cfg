CONSTANTS
  ValidatorKind = "count"
  ValidFor = 2
  CounterMod = 16
  Pages <- MCPages
  Slots = 2
  v0 = v0
  v1 = v1
  Vals <- MCVals
  None = None
  Requests <- MCRequests
  Writes <- MCWrites
  PageTypeMask <- MCMask
  GuestPages <- MCGuestPages
  MaxReads = 2
  MaxWrites = 1
  BatchMax = 2
  MaxTime = 3
  ConnectorFails = TRUE
SYMMETRY ValSymmetry
SPECIFICATION Spec
CHECK_DEADLOCK FALSE
INVARIANTS
  BufferOwnership
  InvalidHoldsNoBuffer
  BoundedStaleness
  ReadYourWrites
  OkFillsUnlessLost
