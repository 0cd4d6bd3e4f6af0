SPECIFICATION Spec
CONSTANTS
  j1 = j1
  j2 = j2
  a1 = a1
  u1 = u1
  p1 = p1
  p2 = p2
  NoJob = NoJob
  NoProc = NoProc
  Jobs <- TwoJobs
  Auths = {a1}
  Payers = {u1}
  Procs <- TwoProcs
  AuthOf <- SameAuth
  PayerOf <- OnePayer
  ValidBefore <- MidWindow
  Steps = 1
  Budget = 0
  ClaimTTL = 3
  MinRemaining = 1
  MaxRemaining = 5
  Margin = 0
  OpenPerPayer = 2
  OpenGlobal = 2
  SettleFirst <- After
  MaxTime = 5
  MaxFaults = 1
  CasFaults = FALSE
SYMMETRY Symmetry
CHECK_DEADLOCK FALSE
INVARIANT TypeOK
INVARIANT NothingReadableUnpaid
INVARIANT OneDeliveryPerAuthorization
INVARIANT ChargedForWork
INVARIANT ClaimHeld
INVARIANT FinalFreesSlot
PROPERTY ImplementsContract
