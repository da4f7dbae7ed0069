------------------------------- MODULE Policy -------------------------------
(***************************************************************************)
(* The policy engine of the broker: internal/policy.  Every operator is a  *)
(* pure function of a policy, a rule and a request; Decision.tla strings   *)
(* them together in the order of Broker.process.                           *)
(*                                                                         *)
(* Strings are members of finite sets.  What the code finds out about a    *)
(* string is kept: whether an argument holds a NUL byte, holds a shell     *)
(* metacharacter or starts with another word.  An executable is a record   *)
(* [abs, nul, base]; a directory is the sequence of its path components,   *)
(* <<>> being the root; a reason is its trimmed length in characters, the  *)
(* stock phrases it equals and the keywords it contains.                   *)
(***************************************************************************)
EXTENDS Naturals, Sequences, FiniteSets

CONSTANTS
  MetaWords,      \* the arguments that contain a shell metacharacter
  PrefixPairs,    \* the pairs <<w, p>> of words such that w starts with p
  DangerousKeys,  \* the keys isDangerousEnvKey accepts
  None,           \* an absent (empty or nil) value
  MissingFile,    \* what reading a file that does not exist finds
  UnparsableFile  \* the content of a file that is not the JSON expected

EffectReadOnly == "read_only"
EffectValidateOnly == "validate_only"
EffectInstallOrUpdate == "install_or_update"
EffectServiceControl == "service_control"
EffectDestructive == "destructive"

Effects ==
  {EffectReadOnly, EffectValidateOnly, EffectInstallOrUpdate,
   EffectServiceControl, EffectDestructive, "file_write",
   "permission_change", "network_change", "disk_or_partition_change"}

InSeq(x, s) == \E i \in DOMAIN s : s[i] = x

IsShellExecutable(exe) == exe.base \in {"sh", "bash", "zsh", "dash", "fish", "ksh"}

HasShellMetacharacters(argv) == \E i \in DOMAIN argv : argv[i] \in MetaWords

(***************************************************************************)
(* InferEffect: what a command does, from its name and arguments only.     *)
(***************************************************************************)
InferEffect(exe, argv) ==
  LET first(w) == Len(argv) >= 1 /\ argv[1] = w
      destroys == \/ IsShellExecutable(exe)
                  \/ exe.base = "diskutil" /\ InSeq("eraseDisk", argv)
                  \/ exe.base = "rm"
                  \/ exe.base \in {"chmod", "chown"} /\ InSeq("-R", argv)
  IN  CASE destroys -> EffectDestructive
        [] exe.base = "visudo" /\ Len(argv) >= 3 /\ first("-c") /\ argv[2] = "-f"
             -> EffectValidateOnly
        [] exe.base = "brew" /\ Len(argv) >= 2 /\ first("install")
             -> EffectInstallOrUpdate
        [] exe.base = "launchctl" /\ Len(argv) > 0 -> EffectServiceControl
        [] OTHER -> EffectReadOnly

(***************************************************************************)
(* ArgMatcher.Match: the first of exact, enum and prefix that is given     *)
(* decides; only a matcher with none of them is a wildcard.                *)
(***************************************************************************)
ArgMatches(m, word) ==
  CASE m.exact # None -> word = m.exact
    [] m.exact = None /\ m.enum # {} -> word \in m.enum
    [] m.exact = None /\ m.enum = {} /\ m.prefix # None -> <<word, m.prefix>> \in PrefixPairs
    [] OTHER -> m.any

\* Canonical(allow) plus a separator must be a prefix of the cwd: "/" allows only itself.
Under(cwd, allow) ==
  \/ cwd = allow
  \/ /\ 0 < Len(allow) /\ Len(allow) < Len(cwd)
     /\ SubSeq(cwd, 1, Len(allow)) = allow

\* None stands for an entry whose environment variables expand to nothing: it is skipped.
CwdAllowed(rule, cwd) ==
  rule.cwd = {} \/ \E allow \in rule.cwd \ {None} : Under(cwd, allow)

RuntimeRiskBlocked(rule, risks) ==
  \/ "network_at_runtime" \in risks /\ ~rule.network
  \/ "installer_with_hooks" \in risks /\ ~rule.hooks

-----------------------------------------------------------------------------
(***************************************************************************)
(* LoadPolicy and Validate.  A missing file is the empty policy; anything  *)
(* else that does not parse or validate keeps the broker from starting.    *)
(***************************************************************************)
EmptyPolicy == [version |-> 1, rules |-> <<>>]

ValidRule(r) ==
  /\ r.id # None
  /\ r.clients # {}
  /\ ~r.verified => r.exe.abs /\ (IsShellExecutable(r.exe) => r.allowShell)
  /\ r.approval \in {"not_required", "review_required"}
  /\ r.effect \in Effects
  /\ \A i \in DOMAIN r.argv : r.argv[i].any => r.allowAny

Validate(p) ==
  /\ p.version = 1
  /\ \A i \in DOMAIN p.rules : ValidRule(p.rules[i])
  /\ \A i, j \in DOMAIN p.rules : p.rules[i].id = p.rules[j].id => i = j

LoadPolicy(file) ==
  CASE file = MissingFile -> EmptyPolicy
    [] file = UnparsableFile -> None
    [] OTHER -> LET p == [file EXCEPT !.version = IF @ = 0 THEN 1 ELSE @]
                IN  IF Validate(p) THEN p ELSE None

-----------------------------------------------------------------------------
(***************************************************************************)
(* Policy.Match: the first rule, in file order, whose client, command (or  *)
(* verified artifact), arguments and cwd fit the request.                  *)
(***************************************************************************)
RuleMatches(r, req, verified, risks) ==
  /\ req.client \in r.clients
  /\ IF req.artifact # None
     THEN r.verified /\ verified /\ ~RuntimeRiskBlocked(r, risks)
     ELSE r.exe = req.exe
  /\ Len(r.argv) = Len(req.argv)
  /\ \A i \in DOMAIN r.argv : ArgMatches(r.argv[i], req.argv[i])
  /\ CwdAllowed(r, req.cwd)

Match(rules, req, verified, risks) ==
  LET fits == {i \in DOMAIN rules : RuleMatches(rules[i], req, verified, risks)}
  IN  IF fits = {} THEN None
      ELSE rules[CHOOSE i \in fits : \A j \in fits : i <= j]

ShellDenied(r, req) ==
  \/ IsShellExecutable(req.exe) /\ ~r.allowShell
  \/ HasShellMetacharacters(req.argv) /\ ~r.allowMeta

DeniedEnv(r, req) == (req.env \cap DangerousKeys) \ r.env # {}

-----------------------------------------------------------------------------
(***************************************************************************)
(* ValidateReason.  A reason is [len, stock, says]: says is the set of     *)
(* keywords the lowered text contains.                                     *)
(***************************************************************************)
OutcomeWords == {"validate", "verify", "check", "test", "inspect", "install", "update",
                 "run", "fetch", "import", "read", "show", "repair"}
TargetWords == {"target", "file", "package", "artifact", "socket", "policy", "audit",
                "project", "script", "path", "command", "broker"}

Says(reason, words) == reason.says \cap words # {}

\* Mutant of ReasonValid: the consistency check of validate_only reads the wrong list.
ReasonValidWrongList(reason, effect) ==
  /\ reason.len \in 18..400
  /\ ~reason.stock
  /\ Says(reason, OutcomeWords) /\ Says(reason, TargetWords)
  /\ ~(effect = EffectValidateOnly /\ Says(reason, OutcomeWords))

ReasonValid(reason, effect) ==
  /\ reason.len \in 18..400
  /\ ~reason.stock
  /\ Says(reason, OutcomeWords) /\ Says(reason, TargetWords)
  /\ ~ /\ effect = EffectInstallOrUpdate
       /\ Says(reason, {"validate", "verify", "check"})
       /\ ~Says(reason, {"install", "update", "package"})
  /\ ~ /\ effect = EffectValidateOnly
       /\ Says(reason, {"install", "update", "delete", "remove", "erase"})
=============================================================================
