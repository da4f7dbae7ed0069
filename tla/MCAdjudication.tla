--------------------------- MODULE MCAdjudication ---------------------------
(***************************************************************************)
(* Adjudication.tla over a handful of commands, rules, artifacts, peers    *)
(* and reasons: each check of Broker.process has a request that only it    *)
(* refuses, and each field of a rule a pair of rules that differ in it.    *)
(***************************************************************************)
EXTENDS Adjudication

Words == {"hello", "-c", "-f", "f", "install", "jq", "eraseDisk", "a;b", "nul"}

MCMetaWords == {"a;b"}
MCNulWords == {"nul"}
MCPrefixPairs == (Words \X {""}) \cup {<<"hello", "he">>}
MCDangerousKeys == {"LD_PRELOAD"}

MCRealPath == [p \in {"/usr/bin/codex", "/opt/codex"} |-> "/opt/codex"]

Exe(base) == [abs |-> TRUE, nul |-> FALSE, base |-> base]
NoExe == [abs |-> FALSE, nul |-> FALSE, base |-> ""]
Executables ==
  {Exe(b) : b \in {"echo", "sh", "visudo", "brew", "diskutil"}} \cup
  {[Exe("echo") EXCEPT !.abs = FALSE], [Exe("echo") EXCEPT !.nul = TRUE], NoExe}

Argvs ==
  {<<>>, <<"hello">>, <<"jq">>, <<"a;b">>, <<"nul">>, <<"-c", "-f", "f">>,
   <<"install", "jq">>, <<"eraseDisk">>, [i \in 1..129 |-> "hello"]}

Codex == [exe |-> "/opt/codex", sha |-> "s1"]
MCPeers == {Codex, [Codex EXCEPT !.sha = "s2"], [Codex EXCEPT !.exe = None]}
MCClients == {[id |-> "codex", path |-> "/usr/bin/codex", sha |-> "s1"]}

Object(sha) == Exe(sha)
Stored(sha) == [verified |-> TRUE, sha |-> sha, object |-> Object(sha), risks |-> {}]
MCStore ==
  [a \in {"plain", "changed", "network", "hooks"} |->
     CASE a = "changed" -> [Stored(a) EXCEPT !.verified = FALSE]
       [] a = "network" -> [Stored(a) EXCEPT !.risks = {"network_at_runtime"}]
       [] a = "hooks" -> [Stored(a) EXCEPT !.risks = {"installer_with_hooks"}]
       [] OTHER -> Stored(a)]

Reason(len, stock, says) == [len |-> len, stock |-> stock, says |-> says]
MCReasons ==
  {Reason(0, FALSE, {}), Reason(17, FALSE, {"inspect", "file"}),
   Reason(18, TRUE, {"install"}), Reason(401, FALSE, {"inspect", "file"}),
   Reason(18, FALSE, {"inspect", "file"}), Reason(400, FALSE, {"verify", "file"}),
   Reason(50, FALSE, {"install", "package"}), Reason(50, FALSE, {"file"}),
   Reason(50, FALSE, {"inspect"})}

NoClaim == [exe |-> None, sha |-> None]
Plain ==
  [type |-> "run", schema |-> 1, client |-> "codex", peer |-> NoClaim, cwd |-> <<"srv", "a">>,
   exe |-> Exe("echo"), argv |-> <<"hello">>, env |-> {}, artifact |-> None,
   artifactSHA |-> None, reason |-> None]

ShapeRequests ==
  {[Plain EXCEPT !.type = t, !.schema = v, !.client = c, !.peer = p, !.cwd = d] :
     t \in {"run", "ping"}, v \in {1, 2}, c \in {"codex", None},
     p \in {NoClaim, Codex, [NoClaim EXCEPT !.sha = "s2"]}, d \in {None, <<"srv", "a">>, <<>>}}

CommandRequests ==
  {[Plain EXCEPT !.exe = e, !.argv = a, !.env = v] :
     e \in Executables, a \in Argvs, v \in {{}, {"LD_PRELOAD"}}}

ArtifactRequests ==
  {[Plain EXCEPT !.artifact = a, !.artifactSHA = h, !.exe = e, !.argv = w] :
     a \in DOMAIN MCStore \cup {"missing"}, h \in {"plain", "network"},
     e \in {NoExe, Object("plain"), Object("network")}, w \in {<<>>, <<"a;b">>}}

MCRequests ==
  {[r EXCEPT !.reason = Reason(18, FALSE, {"inspect", "file"})] :
     r \in ShapeRequests \cup CommandRequests \cup ArtifactRequests}

Matcher == [exact |-> None, enum |-> {}, prefix |-> None, any |-> FALSE]
Exact(w) == [Matcher EXCEPT !.exact = w]
EchoRule ==
  [id |-> "echo", clients |-> {"codex"}, exe |-> Exe("echo"), argv |-> <<Exact("hello")>>,
   effect |-> "read_only", approval |-> "not_required", cwd |-> {}, env |-> {},
   allowShell |-> FALSE, allowMeta |-> FALSE, allowAny |-> FALSE, verified |-> FALSE,
   network |-> FALSE, hooks |-> FALSE]
Rules ==
  {EchoRule,
   [EchoRule EXCEPT !.id = "ask", !.approval = "review_required", !.cwd = {<<"srv">>, None}],
   [EchoRule EXCEPT !.id = "prefix", !.argv = <<[Matcher EXCEPT !.prefix = "he"]>>,
                    !.env = {"LD_PRELOAD"}],
   [EchoRule EXCEPT !.id = "blank", !.argv = <<[Matcher EXCEPT !.prefix = ""]>>],
   [EchoRule EXCEPT !.id = "any", !.argv = <<[Matcher EXCEPT !.any = TRUE]>>,
                    !.allowAny = TRUE, !.allowMeta = TRUE, !.cwd = {<<>>, <<"srv", "a">>}],
   [EchoRule EXCEPT !.id = "shell", !.exe = Exe("sh"), !.allowShell = TRUE,
                    !.effect = "destructive"],
   [EchoRule EXCEPT !.id = "visudo", !.exe = Exe("visudo"), !.effect = "validate_only",
                    !.argv = <<Exact("-c"), Exact("-f"), [Matcher EXCEPT !.enum = {"f"}]>>],
   [EchoRule EXCEPT !.id = "brew", !.exe = Exe("brew"), !.effect = "install_or_update",
                    !.argv = <<Exact("install"), [Matcher EXCEPT !.enum = {"jq"}]>>],
   [EchoRule EXCEPT !.id = "art", !.exe = Exe("sh"), !.argv = <<>>, !.verified = TRUE,
                    !.effect = "destructive", !.network = TRUE]}
BadRules ==
  {[EchoRule EXCEPT !.exe.abs = FALSE], [EchoRule EXCEPT !.exe = Exe("sh")],
   [EchoRule EXCEPT !.clients = {}], [EchoRule EXCEPT !.approval = "none"],
   [EchoRule EXCEPT !.argv = <<[Matcher EXCEPT !.any = TRUE]>>]}

Paired(r) == r.id \in {"echo", "ask", "any", "art"}
RuleLists ==
  {<<>>} \cup {<<r>> : r \in Rules \cup BadRules}
  \cup {<<r[1], r[2]>> : r \in {p \in Rules \X Rules : Paired(p[1]) /\ Paired(p[2])}}

MCPolicyFiles ==
  {[version |-> v, rules |-> l] : v \in {0, 2}, l \in RuleLists}
  \cup {MissingFile, UnparsableFile}
=============================================================================
