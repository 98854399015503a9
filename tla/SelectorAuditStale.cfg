SPECIFICATION Spec
CONSTANTS
  Artifact = {"Core", "ICore"}
  Selector = {"f", "g"}
  Deployable = {"Core"}
  Target = {"core", "orphan"}
  Listed = {"core"}
  ArtifactOf <- Names
  Abi0 <- Artifacts
  Script0 <- Scripts
  Opaque <- Unread
  ManagerBlock = 2
  EnvStart = {NoEnv, 1}
  NoEnv = NoEnv
  NoArtifact = NoArtifact
  ChunkSize = 2
  MaxAdds = 2
  MaxRemoves = 3
  MaxEdits = 2

PROPERTIES StaleMeansNoFunction
CHECK_DEADLOCK FALSE
