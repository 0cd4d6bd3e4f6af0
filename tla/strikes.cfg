SPECIFICATION Spec
CONSTANTS
  j1 = j1
  j2 = j2
  j3 = j3
  u1 = u1
  Jobs <- ThreeJobs
  Payers = {u1}
  PayerOf <- OnePayer
  PayerLimit = 2
  GlobalLimit = 2
  Window = 2
  ClearAlone = TRUE
  MaxTime = 4
  MaxFaults = 1
SYMMETRY Symmetry
CHECK_DEADLOCK FALSE
INVARIANT TypeOK
INVARIANT BlockFollowsStrikes
INVARIANT StrikesAgree
