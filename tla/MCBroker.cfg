\* Two connections, two brokers in turn or at once, one fault.
SPECIFICATION Spec
CONSTANTS
  None = None
  Nobody = Nobody
  MissingFile = MissingFile
  UnparsableFile = UnparsableFile
  MetaWords <- MCMetaWords
  NulWords <- MCNulWords
  PrefixPairs <- MCPrefixPairs
  DangerousKeys <- MCDangerousKeys
  RealPath <- MCRealPath
  Requests <- MCRequests
  Peers <- MCPeers
  PolicyFiles <- MCPolicyFiles
  TrustFiles <- MCTrustFiles
  Store <- MCStore
  ExitCodes <- MCExitCodes
  Entries <- MCEntries
  Callers = {c1, c2}
  MaxLogger = 2
  MaxSeq = 2
  MaxFaults = 1
INVARIANTS
  TypeOK
  ApprovedIsRecorded
  RecordIsTrue
  RunsByOwnPolicy
PROPERTY ImplementsBrokeredExecution
\* The connections are alike, in the broker and in BrokeredExecution.
SYMMETRY Symmetry
\* A broker waits for clients and operators, who may have done all they will.
CHECK_DEADLOCK FALSE
