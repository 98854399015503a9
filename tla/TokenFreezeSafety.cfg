SPECIFICATION FairSpec
CONSTANTS
  a = a
  b = b
  t = t
  PN = {a, b}
  Token = {t}
  Issuer <- OneIssuer
  ChainLists <- PlainLists
  MaxChanges = 4
  MaxTeleports = 1
INVARIANTS
  CopyFollowsHub
  IssuerFrozenInactive
  FreezeKeepsStanding
CHECK_DEADLOCK FALSE
PROPERTIES EventuallySynchronized
