SPECIFICATION Spec
CONSTANTS
  a = a  b = b
  Ends = {a, b}
  Messages <- BigOneWay
  ReadSize <- Bytewise
  MaxPayload = 1
  MaxRetries = 1
  MaxFaults = 1
  Closers = {b}
INVARIANT ReaderIsWoken
PROPERTIES NothingGivenUpEarly
CHECK_DEADLOCK FALSE
