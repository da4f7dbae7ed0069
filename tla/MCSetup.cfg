\* Two shells and one broker, which may be restarted; two faults.
SPECIFICATION Spec
CONSTANTS
  None = None
  MissingFile = MissingFile
  UnparsableFile = UnparsableFile
  MetaWords <- MCMetaWords
  NulWords <- MCNulWords
  PrefixPairs <- MCPrefixPairs
  DangerousKeys <- MCDangerousKeys
  RealPath <- MCRealPath
  Operators = {o1, o2}
  Enrollees <- MCEnrollees
  Brokers = {b1}
  Requests <- MCRequests
  InitialDirs <- MCInitialDirs
  Root = TRUE
  MaxFaults = 2
SYMMETRY Symmetry
INVARIANTS
  TypeOK
  EnrolmentKept
  SetupSuffices
  EnrolledIsAdmitted
