SPECIFICATION FairWriterSpec
CONSTANTS
  Sources = {c1, c2}
  Elabs = {e1, e2}
  Sinks = {s1}
  SourceStep = 2
  ElabStep = 1
  SinkStep = 1
  Main = Main
  None = None
  Terminator = Terminator
  Shift = 32
  Args <- Arguments
  Sigint = TRUE
  MaxItems = 2
  Failures = 6
  Room = 9
INVARIANTS NobodyForgotten Conserved
PROPERTIES ImplementsSender Terminates
CHECK_DEADLOCK FALSE
