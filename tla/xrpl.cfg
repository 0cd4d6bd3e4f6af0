SPECIFICATION Spec
CONSTANTS
  r1 = r1
  r2 = r2
  r3 = r3
  t1 = t1
  t2 = t2
  q1 = q1
  q2 = q2
  i1 = i1
  None = None
  Reqs <- TwoReqs
  MaxReqs = 3
  Txs <- TwoTxs
  Rqs <- TwoRqs
  FirstKind <- Original
  Kinds <- Elsewhere
  Insts <- TwoReqs
  InstOf <- Apart
  MaxReq = 1
  Lease = 2
  Skew = 1
  MaxTime = 2
  MaxFaults = 1
SYMMETRY Symmetry
CHECK_DEADLOCK FALSE
INVARIANT TypeOK
INVARIANT DeliveredOnce
INVARIANT RefusedNotCharged
INVARIANT ChargedRecoverable
PROPERTY LeaseRespected
