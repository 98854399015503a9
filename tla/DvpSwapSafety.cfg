SPECIFICATION FairSpec
CONSTANTS
  Vault <- Vaults
  Coin <- Coins
  NoCoin = "0"
  Minted <- Deposits
  Home <- Homes
  Value <- Values
  Receipt <- Receipts
  Opened <- Openings
  GroupMember <- Groups
  SharedId = {s1, s2}
  NoReceipt = NoReceipt
  Validity = {0, 1}
  MaxTime = 2
INVARIANTS
  ValueConserved
  SpentOnce
  LocksAreHeld
PROPERTIES
  ImplementsAtomicSwap
  SwapsEnd
CHECK_DEADLOCK FALSE
