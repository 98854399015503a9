SPECIFICATION FairSpec
CONSTANTS
  Task = {"node", "node_private", "hub"}
  List0 <- Lists
  Spare = {"k9"}
  Counts = {TRUE, FALSE}
  Replaces = {TRUE, FALSE}
  MaxRuns = 2
  MaxUpsets = 1
INVARIANTS OncePerRun StagesBehindHold FundedBeforeRelaying MissingIsRevoked
PROPERTIES RunsEnd
CHECK_DEADLOCK FALSE
