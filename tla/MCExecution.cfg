\* A limit of two bytes, and output below, at and above it.
SPECIFICATION Spec
CONSTANTS
  ExitCodes <- MCExitCodes
  RuleLimit = 0
  DefaultLimit = 2
  MaxOutput = 3
  MaxChunk = 3
INVARIANTS
  TypeOK
  ZeroMeansSuccess
  TimeoutIsReal
  CaptureExact
PROPERTY ReturnsOrIsHeld
\* A finished call of execute has nothing left to do.
CHECK_DEADLOCK FALSE
