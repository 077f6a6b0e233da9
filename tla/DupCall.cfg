SPECIFICATION SchedSpec
CONSTANTS
  Procs = {p1, p2, p3}
  MaxGens = 2
INVARIANT OneCallbackForSomebody
PROPERTIES NoOlderResult CancelledDoReturns EveryDoReturns
CHECK_DEADLOCK FALSE
