SPECIFICATION WriterSpec
CONSTANTS
  Sources = {c1}
  Elabs = {e1}
  Sinks = {s1}
  Main = Main
  None = None
  Terminator = Terminator
  Shift = 32
  SourceStep = 10
  ElabStep = 5
  SinkStep = 1
  Args = {1}
  Sigint = FALSE
  MaxItems = 1
  Failures = 6
  Room = 9
INVARIANTS DoneReported
