SPECIFICATION Spec
CONSTANTS
  Readers = {r1}
  Writers = {w1}
  Msg = {a}
  None = None
  START_KB_DIM = 1
  CopyFaults = FALSE
  AllocFails = FALSE
  Signals = FALSE
  MaxLen = 2
  MaxSamples = 1
INVARIANTS ReallocHasSample
CHECK_DEADLOCK FALSE
