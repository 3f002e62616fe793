SPECIFICATION PartsSpec
CONSTANTS
  s0 = s0
  s1 = s1
  s3 = s3
  Node = {n1, n2, n3}
  Str <- Strings
  strlen <- Lengths
  NULL = NULL
  NoStr = NoStr
  Garbage = Garbage
  START_KB_DIM = 5
  MaxLevel = 10
  MaxSamples = 3
SYMMETRY Symmetry
INVARIANTS ListIntact NoLeak ScanFits WListIntact OnlyDropLeaks AverageOfSeveral
PROPERTIES ImplementsQueue ReportRight ImplementsClearable FullGrows AroundKbOcc
CHECK_DEADLOCK FALSE
