\* Two goroutines, two loggers one after the other or side by side, two faults.
SPECIFICATION LogSpec
CONSTANTS
  Callers = {c1, c2}
  Entries <- OneEntry
  Nobody = Nobody
  MaxLogger = 2
  MaxSeq = 2
  MaxFaults = 2
INVARIANTS
  LogTypeOK
  AckedDurable
  SequenceGrows
  OneLossPerFault
PROPERTIES
  AppendOnly
  AppendReturns
\* Once every logger the bound allows is dead, nothing is left to do.
CHECK_DEADLOCK FALSE
