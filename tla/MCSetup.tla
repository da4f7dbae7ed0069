------------------------------- MODULE MCSetup -------------------------------
(***************************************************************************)
(* Setup.tla with a client whose binary may be replaced and a second       *)
(* client, on a fresh machine and on machines with odd directories.        *)
(***************************************************************************)
EXTENDS Setup, TLC

MCMetaWords == {}
MCNulWords == {}
MCPrefixPairs == {}
MCDangerousKeys == {}
MCRealPath == [p \in {"/bin/codex", "/bin/cursor"} |-> p]

OldCodex == [id |-> "codex", path |-> "/bin/codex", sha |-> "s1"]
NewCodex == [OldCodex EXCEPT !.sha = "s2"]
Cursor == [id |-> "cursor", path |-> "/bin/cursor", sha |-> "s1"]
MCEnrollees == {OldCodex, NewCodex, Cursor}

Echo(client, word) ==
  [type |-> "run", schema |-> 1, client |-> client, peer |-> [exe |-> None, sha |-> None],
   cwd |-> <<>>, exe |-> [abs |-> TRUE, nul |-> FALSE, base |-> "echo"], argv |-> <<word>>,
   env |-> {}, artifact |-> None, artifactSHA |-> None,
   reason |-> [len |-> 30, stock |-> FALSE, says |-> {"run", "command"}]]
MCRequests == {Echo("codex", "hello"), Echo("cursor", "self-test-ok")}

All(state) == [d \in Dirs |-> state]
MCInitialDirs ==
  {All("missing"), [All("private") EXCEPT !["config"] = "loose", !["state"] = "loose"],
   [All("missing") EXCEPT !["run"] = "theirs"], [All("missing") EXCEPT !["config"] = "alien"]}

Symmetry == Permutations(Operators)
=============================================================================
