SPECIFICATION Spec
CONSTANTS
  r1 = r1
  r2 = r2
  q1 = q1
  q2 = q2
  i1 = i1
  None = None
  Reqs <- TwoReqs
  MaxReqs = 4
  Txs <- NoTxs
  Rqs <- TwoRqs
  FirstRq = q1
  Insts <- TwoReqs
  InstOf <- Apart
  MaxReq = 1
  Lease = 2
  MaxTime = 2
  MaxFaults = 1
SYMMETRY Symmetry
CHECK_DEADLOCK FALSE
INVARIANT TypeOK
INVARIANT DeliveredOnce
INVARIANT RefusedNotCharged
INVARIANT ChargedRecoverable
INVARIANT LocalIsFinal
