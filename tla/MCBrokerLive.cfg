\* Two connections to one broker that may fail once; liveness forbids symmetry.
SPECIFICATION Spec
CONSTANTS
  None = None
  Nobody = Nobody
  MissingFile = MissingFile
  UnparsableFile = UnparsableFile
  MetaWords <- MCMetaWords
  NulWords <- MCNulWords
  PrefixPairs <- MCPrefixPairs
  DangerousKeys <- MCDangerousKeys
  RealPath <- MCRealPath
  Requests <- MCRequests
  Peers <- MCPeers
  PolicyFiles <- MCPolicyFiles
  TrustFiles <- MCTrustFiles
  Store <- MCStore
  ExitCodes <- MCExitCodes
  Entries <- MCEntries
  Callers = {c1, c2}
  MaxLogger = 1
  MaxSeq = 2
  MaxFaults = 1
PROPERTIES
  SendReturns
CHECK_DEADLOCK FALSE
