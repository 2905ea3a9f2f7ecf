CONSTANTS
  Splits <- MCSplits
  FinalSteps <- MCFinalSteps
  Tables <- MCTables
  Root = "r"
  Frames <- MCFrames
  Data <- MCData
  Batches <- MCBatches
  Memories <- MCMemories
  Remaps <- NoRemaps
  ConnectorFails = FALSE
SPECIFICATION Spec
INVARIANTS
  Sound
