------------------------------ MODULE Decision ------------------------------
(***************************************************************************)
(* What the broker decides about one request: peer.ApplyObserved and       *)
(* Broker.process, with trust.Match, the verification of an artifact and   *)
(* the policy engine of Policy.tla.                                        *)
(*                                                                         *)
(* process returns at the first check that fails; the ladders below keep   *)
(* its order, which docs/architecture.md calls the security contract.  A   *)
(* reply is [decision, retryable, rule]; the decision "EXECUTE" stands for *)
(* the call of Broker.execute under that rule.                             *)
(***************************************************************************)
EXTENDS Policy

CONSTANTS
  NulWords,   \* the arguments that contain a NUL byte
  RealPath    \* [p -> what EvalSymlinks makes of p], for the paths that resolve

MaxArgv == 128

Decline(decision) == [decision |-> decision, retryable |-> FALSE, rule |-> None]
\* Mutant of Retryable: the flag is forgotten.
RetryableUnmarked(decision) == Decline(decision)

Retryable(decision) == [Decline(decision) EXCEPT !.retryable = TRUE]
Execute(rule) == [decision |-> "EXECUTE", retryable |-> FALSE, rule |-> rule]
Pong == [decision |-> "APPROVED", retryable |-> FALSE, rule |-> None]

(***************************************************************************)
(* ApplyObserved: the request's own claim about its client must be absent  *)
(* or agree with the peer; afterwards the request carries the peer's.      *)
(* Identities are [exe, sha]; a part the broker could not derive is None.  *)
(***************************************************************************)
ClaimDenied(req, peer) ==
  \/ None \in {peer.exe, peer.sha}
  \/ req.peer.exe \notin {None, peer.exe}
  \/ req.peer.sha \notin {None, peer.sha}

ApplyObserved(req, peer) == [req EXCEPT !.peer = peer]

\* trust.Load: a missing file is an empty store, another that does not parse is an error.
LoadTrust(content) == IF content = MissingFile THEN {} ELSE content

(***************************************************************************)
(* trust.Store.Match: an enrolled client with the request's client id, its *)
(* path once symlinks are resolved, and its hash.                          *)
(***************************************************************************)
TrustedPath(c) == IF c.path \in DOMAIN RealPath THEN RealPath[c.path] ELSE c.path

TrustMatch(clients, req) ==
  /\ None \notin {req.client, req.peer.exe, req.peer.sha}
  /\ \E c \in clients : /\ c.id = req.client
                        /\ TrustedPath(c) = req.peer.exe
                        /\ c.sha = req.peer.sha

-----------------------------------------------------------------------------
(***************************************************************************)
(* The artifact store as process sees it: for each artifact id with        *)
(* metadata, whether artifact.Verify accepts the stored object, and the    *)
(* hash, object path and risk flags it returns.                            *)
(***************************************************************************)
Verified(store, id) == id \in DOMAIN store /\ store[id].verified

\* The shape of the request, in the order of the early returns; None when all pass.
ShapeRefusal(req) ==
  IF req.cwd = None THEN Decline("DENIED")
  ELSE IF req.artifact = None /\ ~req.exe.abs THEN Decline("POLICY_MISMATCH")
  ELSE IF req.artifact = None /\ req.exe.nul THEN Decline("DENIED")
  ELSE IF req.artifact # None /\ req.exe.base = "" THEN Decline("ARTIFACT_UNVERIFIED")
  ELSE IF \E i \in DOMAIN req.argv : req.argv[i] \in NulWords THEN Decline("DENIED")
  ELSE IF Len(req.argv) > MaxArgv THEN Decline("SCOPE_TOO_BROAD")
  ELSE None

ArtifactRefusal(store, req) ==
  LET a == store[req.artifact]
  IN  IF req.artifact = None THEN None
      ELSE IF ~Verified(store, req.artifact) THEN Retryable("ARTIFACT_UNVERIFIED")
      ELSE IF a.sha # req.artifactSHA \/ a.object # req.exe THEN Decline("ARTIFACT_UNVERIFIED")
      ELSE IF a.risks # {} THEN Decline("REVIEW_REQUIRED")
      ELSE None

EffectOf(req) ==
  IF req.artifact # None THEN EffectReadOnly ELSE InferEffect(req.exe, req.argv)

RisksOf(store, req) == IF req.artifact = None THEN {} ELSE store[req.artifact].risks

MatchedRule(rules, store, req) ==
  Match(rules, req, req.artifact # None, RisksOf(store, req))

NoRuleRefusal(req) ==
  IF (req.artifact = None /\ IsShellExecutable(req.exe)) \/ HasShellMetacharacters(req.argv)
  THEN Decline("SCOPE_TOO_BROAD") ELSE Decline("REVIEW_REQUIRED")

\* The refusal names the rule only where the code sets PolicyID.
RuleVerdict(rule, req, risks) ==
  IF req.artifact # None /\ RuntimeRiskBlocked(rule, risks)
    THEN [Decline("REVIEW_REQUIRED") EXCEPT !.rule = rule]
  ELSE IF req.artifact = None /\ rule.effect # EffectOf(req)
    THEN [Decline("POLICY_MISMATCH") EXCEPT !.rule = rule]
  ELSE IF rule.approval # "not_required"
    THEN [Decline("REVIEW_REQUIRED") EXCEPT !.rule = rule]
  ELSE IF ShellDenied(rule, req) THEN Decline("SCOPE_TOO_BROAD")
  ELSE IF DeniedEnv(rule, req) THEN Decline("DENIED")
  ELSE Execute(rule)

\* Mutant of Process: the reason is looked at before the artifact.
ProcessReasonFirst(rules, clients, store, req) ==
  LET shape == ShapeRefusal(req)
      artifact == ArtifactRefusal(store, req)
      rule == MatchedRule(rules, store, req)
  IN  IF req.type = "ping" THEN Pong
      ELSE IF req.schema # 1 THEN Decline("DENIED")
      ELSE IF ~TrustMatch(clients, req) THEN Decline("CLIENT_NOT_TRUSTED")
      ELSE IF shape # None THEN shape
      ELSE IF ~ReasonValid(req.reason, EffectOf(req)) THEN Retryable("REASON_INVALID")
      ELSE IF artifact # None THEN artifact
      ELSE IF rule = None THEN NoRuleRefusal(req)
      ELSE RuleVerdict(rule, req, RisksOf(store, req))

(***************************************************************************)
(* Broker.process, up to and including the decision to call execute.       *)
(***************************************************************************)
Process(rules, clients, store, req) ==
  LET shape == ShapeRefusal(req)
      artifact == ArtifactRefusal(store, req)
      rule == MatchedRule(rules, store, req)
  IN  IF req.type = "ping" THEN Pong
      ELSE IF req.schema # 1 THEN Decline("DENIED")
      ELSE IF ~TrustMatch(clients, req) THEN Decline("CLIENT_NOT_TRUSTED")
      ELSE IF shape # None THEN shape
      ELSE IF artifact # None THEN artifact
      ELSE IF ~ReasonValid(req.reason, EffectOf(req)) THEN Retryable("REASON_INVALID")
      ELSE IF rule = None THEN NoRuleRefusal(req)
      ELSE RuleVerdict(rule, req, RisksOf(store, req))

\* ProcessWithPeer without the audit record: a request that came over the socket from peer.
Decide(rules, clients, store, req, peer) ==
  IF ClaimDenied(req, peer) THEN Decline("CLIENT_NOT_TRUSTED")
  ELSE Process(rules, clients, store, ApplyObserved(req, peer))
=============================================================================
