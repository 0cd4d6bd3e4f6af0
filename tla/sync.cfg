SPECIFICATION FairSpec
CONSTANTS
  p1 = p1
  p2 = p2
  a1 = a1
  a2 = a2
  u1 = u1
  r1 = r1
  r2 = r2
  NoProc = NoProc
  Procs <- TwoProcs
  Auths <- OneAuth
  Payers <- OnePayer
  PayerOf <- AllPayer
  Briefs <- NoBriefs
  Rqs <- OneRq
  ValidBefore <- Valid4
  ClaimTTL = 2
  MinRemaining = 2
  SpendCap = 2
  SlotCap = 2
  MaxTime = 4
  MaxFaults = 1
  MaxCrashes = 1
  MaxLines = 2
CHECK_DEADLOCK FALSE
INVARIANT WorkOnce
INVARIANT ChargedRecoverable
PROPERTY ChargedIsDelivered
