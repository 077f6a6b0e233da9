SPECIFICATION FairSpec
CONSTANTS
  Procs = {p1, p2, p3}
  Deltas <- SomeDeltas
  MaxCnt = 3
  MaxURLs = 3
  Tests = {t1, t2}
  Paths = {"a", "b"}
  Ports = {"8080", "8081"}
  Timeout = 2
  Free = Free
INVARIANTS TokensTellTheTruth DoneTellsZero TestsRunTheirBinary
PROPERTIES Implements WaitersEnter NoWaitAtZero EveryURLReported EveryWaitEnds
CHECK_DEADLOCK FALSE
