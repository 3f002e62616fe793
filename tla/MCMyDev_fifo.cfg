SPECIFICATION Spec
CONSTANTS
  Readers = {r1}
  Writers = {w1}
  Msg = {a, b}
  None = None
  START_KB_DIM = 1
  CopyFaults = TRUE
  AllocFails = TRUE
  Signals = TRUE
  MaxLen = 2
  MaxSamples = 1
SYMMETRY Symmetry
PROPERTIES ImplementsFifo
CHECK_DEADLOCK FALSE
