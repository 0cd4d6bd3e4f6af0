SPECIFICATION Spec
CONSTANTS
  j1 = j1
  j2 = j2
  a1 = a1
  u1 = u1
  p1 = p1
  p2 = p2
  NoJob = NoJob
  NoProc = NoProc
  Jobs <- OneJob
  Auths = {a1}
  Payers = {u1}
  Procs <- TwoProcs
  AuthOf <- SameAuth
  PayerOf <- OnePayer
  ValidBefore <- ShortWindow
  Steps = 1
  Budget = 1
  ClaimTTL = 4
  MinRemaining = 2
  MaxRemaining = 6
  Margin = 0
  OpenPerPayer = 2
  OpenGlobal = 2
  SettleFirst <- After
  MaxTime = 5
  MaxFaults = 1
  CasFaults = FALSE
SYMMETRY Symmetry
CHECK_DEADLOCK FALSE
INVARIANT ChargeAccounted
