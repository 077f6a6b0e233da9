SPECIFICATION SchedSpec
CONSTANTS
  Clients = {c1, c2}
  Closer = c1
  Subjects = {j}
  SubIds = {s1, s2}
  Publishers = {c2}
  MaxMsgs = 2
INVARIANT DeliveredRight
PROPERTIES SlowHandlerHoldsUpNobody NoGoroutineLeaks
CHECK_DEADLOCK FALSE
