CONSTANTS
  ValidatorKind = "timed"
  ValidFor = 1
  CounterMod = 16
  Pages <- MCPages
  Slots = 2
  v0 = v0
  v1 = v1
  Vals <- MCVals
  None = None
  Requests <- FewRequests
  Writes <- FewWrites
  PageTypeMask <- MCMask
  GuestPages <- MCGuestPages
  MaxReads = 2
  MaxWrites = 1
  BatchMax = 1
  MaxTime = 2
  ConnectorFails = FALSE
SPECIFICATION FairSpec
CHECK_DEADLOCK FALSE
PROPERTIES
  ImplementsWindowMemory
  OperationsReturn
