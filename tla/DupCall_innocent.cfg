SPECIFICATION Spec
CONSTANTS
  Procs = {p1, p2, p3}
  MaxGens = 2
PROPERTY CancelledOnlyByItsCallers
CHECK_DEADLOCK FALSE
