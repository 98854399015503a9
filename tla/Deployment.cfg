SPECIFICATION Spec
CONSTANTS
  Plans <- TaskPlans
  Named = {"public-chain"}
  MaxFaults = 1
  MaxRuns = 2
INVARIANTS FailsOnlyWhenStopped RuntimeReady MessagesReadyWhenNamed FreshAuditsClean OneRecordedRun
CHECK_DEADLOCK FALSE
