SPECIFICATION Spec
CONSTANTS
  p1 = p1
  p2 = p2
  a1 = a1
  a2 = a2
  u1 = u1
  r1 = r1
  r2 = r2
  NoProc = NoProc
  Procs <- TwoProcs
  Auths <- TwoAuths
  Payers <- OnePayer
  PayerOf <- AllPayer
  Briefs <- TwoAuths
  Rqs <- TwoRqs
  ValidBefore <- ValidMixed
  ClaimTTL = 2
  MinRemaining = 2
  SpendCap = 2
  SlotCap = 2
  MaxTime = 4
  MaxFaults = 1
  MaxCrashes = 0
  MaxLines = 2
CHECK_DEADLOCK FALSE
SYMMETRY Symmetry
INVARIANT TypeOK
INVARIANT WorkOnce
INVARIANT RedeemableBriefCached
INVARIANT DeclinedNotSent
INVARIANT UnpaidRunsCovered
