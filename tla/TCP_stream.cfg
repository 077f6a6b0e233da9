SPECIFICATION FairSpec
CONSTANTS
  a = a  b = b
  Ends = {a, b}
  Messages <- TwoOneWay
  ReadSize <- Bytewise
  MaxPayload = 1
  MaxRetries = 1
  MaxFaults = 1
  Closers = {}
INVARIANT AckedIsReceived
PROPERTIES Implements SentIsReceived
CHECK_DEADLOCK FALSE
