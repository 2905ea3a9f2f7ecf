CONSTANTS
  Splits <- MCSplits
  FinalSteps <- MCFinalSteps
  Tables <- MCTables
  Root = "r"
  Frames <- MCFrames
  Data <- MCData
  Batches <- MCBatches
  Memories <- MCMemories
  Remaps <- MCRemaps
  ConnectorFails = TRUE
SPECIFICATION Spec
INVARIANTS
  AnsweredOnce
  SoundIfContiguous
  FailuresJustified
