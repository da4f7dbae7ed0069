\* A command without output and what it leaves behind; the rest as in MCExecution.cfg.
SPECIFICATION Spec
CONSTANTS
  ExitCodes <- MCExitCodes
  RuleLimit = 0
  DefaultLimit = 2
  MaxOutput = 0
  MaxChunk = 1
PROPERTY TimeoutEndsTheGroup
\* A finished call of execute has nothing left to do.
CHECK_DEADLOCK FALSE
