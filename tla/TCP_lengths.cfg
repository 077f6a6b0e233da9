SPECIFICATION Spec
CONSTANTS
  a = a  b = b
  Ends = {a, b}
  Messages <- LastIsShorter
  ReadSize <- AllAtOnce
  MaxPayload = 2
  MaxRetries = 1
  MaxFaults = 0
  Closers = {}
INVARIANT ReceivedInOrder
CHECK_DEADLOCK FALSE
