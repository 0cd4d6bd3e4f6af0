SPECIFICATION FairSpec
CONSTANTS
  p1 = p1
  p2 = p2
  NoProc = NoProc
  Procs <- TwoProcs
  Days = 3
  PerDay = 3
  CronPhase = 1
  Price = 30
  RefundAfter = 2
  StopAlone = TRUE
  MaxTime = 19
  MaxFaults = 1
  MaxLost = 2
  MaxPolls = 1
  MaxStops = 1
CHECK_DEADLOCK FALSE
INVARIANT TypeOK
INVARIANT MissedIsOurs
INVARIANT RefundHasLine
PROPERTY ImplementsTerms
PROPERTY WatchEnds
