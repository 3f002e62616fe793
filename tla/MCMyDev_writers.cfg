SPECIFICATION Spec
CONSTANTS
  Readers = {r1}
  Writers = {w1, w2}
  Msg = {a}
  None = None
  START_KB_DIM = 1
  CopyFaults = FALSE
  AllocFails = TRUE
  Signals = FALSE
  MaxLen = 2
  MaxSamples = 1
SYMMETRY Symmetry
INVARIANTS PushNeverFull WriterWakeable NeverAllAsleep
CHECK_DEADLOCK FALSE
