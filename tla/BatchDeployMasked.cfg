SPECIFICATION Spec
CONSTANTS
  Batch = {"k"}
  Kind <- ConfigKinds
  Size <- ConfigSizes
  Stage <- ConfigStages
  ChunkSize = 2
  MaxRetries = 1
  NoNonce = NoNonce
  MayRevert = {"k"}
  MaxFaults = 1
  MaxRuns = 1
INVARIANT ReportedConfigSucceeded
CHECK_DEADLOCK FALSE
