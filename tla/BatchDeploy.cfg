SPECIFICATION FairSpec
CONSTANTS
  Batch = {"p", "q", "c", "k"}
  Kind <- Kinds
  Size <- Sizes
  Stage <- Stages
  ChunkSize = 2
  MaxRetries = 1
  NoNonce = NoNonce
  MayRevert = {"k"}
  MaxFaults = 2
  MaxRuns = 2
INVARIANTS UniqueNonces OkMeansMined ExecutedInOrder
PROPERTIES RunsEnd
CHECK_DEADLOCK FALSE
