SPECIFICATION FairSysSpec
CONSTANTS
  Writers = {w1, w2}
  Readers = {r1, r2}
  Limits = {0, 2}
  Caps = {2, 3}
  MaxItems = 2
  MaxFaults = 1
INVARIANTS OnceInOrder NothingVanishes TerminatorsMean OnlyExcessBlocked
PROPERTIES OnlyExcessWaits
