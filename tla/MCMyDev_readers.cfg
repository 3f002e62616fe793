SPECIFICATION Spec
CONSTANTS
  Readers = {r1, r2}
  Writers = {w1}
  Msg = {a}
  None = None
  START_KB_DIM = 1
  CopyFaults = TRUE
  AllocFails = TRUE
  Signals = TRUE
  MaxLen = 2
  MaxSamples = 1
SYMMETRY Symmetry
INVARIANTS MutexDiscipline PopNeverEmpty ReaderWakeable KthreadWakeable
CHECK_DEADLOCK FALSE
