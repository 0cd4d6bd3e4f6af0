SPECIFICATION Spec
CONSTANTS
  r1 = r1
  r2 = r2
  a1 = a1
  a2 = a2
  d1 = d1
  d2 = d2
  q1 = q1
  q2 = q2
  None = None
  Reqs <- TwoReqs
  Auths <- OneAuth
  Rqs <- OneRq
  Acts <- TwoActs
  ValidBefore <- Valid3
  Cap = 2
  HostCap = 2
  TestValid = 2
  ClaimTTL = 2
  MinRemaining = 2
  SlotCap = 2
  FailLimit = 2
  SlowReads = FALSE
  MaxTime = 4
  MaxFaults = 1
  MaxCrashes = 1
SYMMETRY Symmetry
CHECK_DEADLOCK FALSE
INVARIANT TypeOK
INVARIANT SpendTrue
INVARIANT LossTrue
INVARIANT AnswersTrue
INVARIANT ChargedRedeemable
