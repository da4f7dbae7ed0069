\* Every command, rule, artifact, peer and reason of MCAdjudication.
SPECIFICATION Spec
CONSTANTS
  None = None
  MissingFile = MissingFile
  UnparsableFile = UnparsableFile
  MetaWords <- MCMetaWords
  NulWords <- MCNulWords
  PrefixPairs <- MCPrefixPairs
  DangerousKeys <- MCDangerousKeys
  RealPath <- MCRealPath
  PolicyFiles <- MCPolicyFiles
  Requests <- MCRequests
  Reasons <- MCReasons
  Peers <- MCPeers
  Clients <- MCClients
  Store <- MCStore
INVARIANTS
  DecisionIsReference
  ReasonCanBeMended
PROPERTY RefusalStands
