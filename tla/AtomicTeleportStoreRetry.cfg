SPECIFICATION Spec
CONSTANTS
  Chain = {pnA, pnB}
  Account = {alice}
  Token = token
  Recipients = {alice}
  Id = {m1}
  Amount = {1}
  InitBalance = 1
  NoTransfer = NoTransfer
  StoreRetry = TRUE
  MaxRows = 1
PROPERTIES NoRevertAfterExecution
