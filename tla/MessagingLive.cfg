SPECIFICATION FairSpec
CONSTANTS
  a = a
  b = b
  Hub = Hub
  Chain <- TwoNodes
  All = All
  Resource = {r}
  Template = {r}
  Direct = Direct
  Broadcaster = {a}
  Kind = {"plain"}
  MaxBatchMessages = 3
  MaxIssued = 2
  MaxGovern = 1
  Origin = {a}
  Registrar = {b}
PROPERTIES EveryMessageRuns
CHECK_DEADLOCK FALSE
