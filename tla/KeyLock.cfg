SPECIFICATION FairSpec
CONSTANTS
  Procs = {p1, p2, p3}
  Keys = {a, b}
  MaxCalls = 4
INVARIANT NoLostWakeup
PROPERTIES Implements EverySleeperReturns
CHECK_DEADLOCK FALSE
