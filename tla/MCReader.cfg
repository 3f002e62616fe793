SPECIFICATION FairReaderSpec
CONSTANTS
  Sources = {r1}
  Elabs = {e1, e2}
  Sinks = {p1, p2}
  SourceStep = 1
  ElabStep = 2
  SinkStep = 2
  Main = Main
  None = None
  Terminator = Terminator
  Shift <- ToUpper
  Args <- Arguments
  Sigint = TRUE
  MaxItems = 2
  Failures = 1
INVARIANTS NoDeadlock ReadConserved
PROPERTIES  ReaderEnds EveryStringPrinted
CHECK_DEADLOCK FALSE
