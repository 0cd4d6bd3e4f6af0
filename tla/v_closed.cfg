SPECIFICATION Spec
CONSTANTS
  r1 = r1
  r2 = r2
  a1 = a1
  a2 = a2
  d1 = d1
  d2 = d2
  q1 = q1
  q2 = q2
  None = None
  Reqs <- OneReq
  Auths <- OneAuth
  Rqs <- OneRq
  Acts <- OneAct
  ValidBefore <- Valid3
  Cap = 2
  HostCap = 2
  TestValid = 2
  ClaimTTL = 2
  MinRemaining = 2
  SlotCap = 2
  FailLimit = 2
  SlowReads = TRUE
  MaxTime = 4
  MaxFaults = 0
  MaxCrashes = 0
CHECK_DEADLOCK FALSE
INVARIANT ToldTrue
