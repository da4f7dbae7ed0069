------------------------------ MODULE MCBroker ------------------------------
(***************************************************************************)
(* Broker.tla with one command that the policy admits, while its client is *)
(* enrolled or not, and a ping.                                            *)
(***************************************************************************)
EXTENDS Broker, TLC

MCMetaWords == {}
MCNulWords == {}
MCPrefixPairs == {}
MCDangerousKeys == {}
MCRealPath == [p \in {"/bin/codex"} |-> p]

Codex == [exe |-> "/bin/codex", sha |-> "s1"]
MCPeers == {Codex, None}
CodexClient == [id |-> "codex", path |-> "/bin/codex", sha |-> "s1"]
MCTrustFiles == {{CodexClient}, MissingFile}

Echo == [abs |-> TRUE, nul |-> FALSE, base |-> "echo"]
Run ==
  [type |-> "run", schema |-> 1, client |-> "codex", peer |-> [exe |-> None, sha |-> None],
   cwd |-> <<>>, exe |-> Echo, argv |-> <<>>, env |-> {}, artifact |-> None,
   artifactSHA |-> None, reason |-> [len |-> 30, stock |-> FALSE, says |-> {"run", "command"}]]
MCRequests == {Run, [Run EXCEPT !.type = "ping"]}

Rule ==
  [id |-> "echo", clients |-> {"codex"}, exe |-> Echo, argv |-> <<>>, effect |-> "read_only",
   approval |-> "not_required", cwd |-> {}, env |-> {}, allowShell |-> FALSE,
   allowMeta |-> FALSE, allowAny |-> FALSE, verified |-> FALSE, network |-> FALSE,
   hooks |-> FALSE]
MCPolicyFiles == {[version |-> 1, rules |-> <<Rule>>]}
MCStore == <<>>
MCExitCodes == {0, 127}
MCEntries == Events
Symmetry == Permutations(Callers)
=============================================================================
