SPECIFICATION FairSpec
CONSTANTS
  Chain = {pnA, pnB}
  Account = {alice, bob}
  Token = token
  Recipients = {bob, token}
  Id = {m1, m2}
  Amount = {1, 2}
  InitBalance = 2
  NoTransfer = NoTransfer
  StoreRetry = FALSE
  MaxRows = 2
INVARIANTS NeverBothPaid ValueConserved LocksAreBacked
PROPERTIES ExecutedNeverReverted ImplementsAtomicTransfer EveryTeleportEnds
