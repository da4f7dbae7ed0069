\* As MCAdjudication.cfg: among its policies are pairs of rules that fit the same request.
SPECIFICATION Spec
CONSTANTS
  None = None
  MissingFile = MissingFile
  UnparsableFile = UnparsableFile
  MetaWords <- MCMetaWords
  NulWords <- MCNulWords
  PrefixPairs <- MCPrefixPairs
  DangerousKeys <- MCDangerousKeys
  RealPath <- MCRealPath
  PolicyFiles <- MCPolicyFiles
  Requests <- MCRequests
  Reasons <- MCReasons
  Peers <- MCPeers
  Clients <- MCClients
  Store <- MCStore
INVARIANT SafestRuleWins
