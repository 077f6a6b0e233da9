SPECIFICATION FairSpec
CONSTANTS
  Procs = {p1, p2, p3}
  Recursive = TRUE
  MaxCount = 2
  Interval = 3
  MaxCalls = 4
  Delta = 2
  MaxStores = 1
INVARIANTS OnceRight RateRight BatchRight
PROPERTIES EveryDoReturns CondImplements WokenReturns BatchEnds
CHECK_DEADLOCK FALSE
