SPECIFICATION Spec
CONSTANTS
  a = a
  b = b
  Hub = Hub
  Chain <- OneNode
  All = All
  Resource = {r}
  Template = {r}
  Direct = Direct
  Broadcaster = {a}
  Kind = {"plain", "reply"}
  MaxBatchMessages = 3
  MaxIssued = 3
  MaxGovern = 0
  Origin = {a}
  Registrar = {Hub, a}
INVARIANTS AtMostOnce FreshIds NothingSwallowed LocalLegsDone EachReplyOnce OneMirror
PROPERTIES ImplementsBus
CHECK_DEADLOCK FALSE
