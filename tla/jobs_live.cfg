SPECIFICATION FairSpec
CONSTANTS
  j1 = j1
  j2 = j2
  a1 = a1
  u1 = u1
  p1 = p1
  p2 = p2
  NoJob = NoJob
  NoProc = NoProc
  Jobs <- OneJob
  Auths = {a1}
  Payers = {u1}
  Procs <- TwoProcs
  AuthOf <- SameAuth
  PayerOf <- OnePayer
  ValidBefore <- Tiny
  Steps = 1
  Budget = 0
  ClaimTTL = 3
  MinRemaining = 1
  MaxRemaining = 6
  Margin = 0
  OpenPerPayer = 2
  OpenGlobal = 2
  SettleFirst <- Either
  MaxTime = 3
  MaxFaults = 1
  CasFaults = TRUE
CHECK_DEADLOCK FALSE
INVARIANT ChargedFlagTrue
PROPERTY EveryJobResolves
