---------------------------- MODULE Adjudication ----------------------------
(***************************************************************************)
(* An agent in conversation with one broker: the broker loads its policy,  *)
(* the agent submits a request and, whatever it is told, may submit the    *)
(* same command again with another reason.  The module states what the     *)
(* decision procedure of Decision.tla must guarantee over such             *)
(* conversations, against a reference definition written from the rules    *)
(* rather than from the order of the checks.                               *)
(***************************************************************************)
EXTENDS Decision

CONSTANTS
  PolicyFiles,  \* what policy.yaml may hold
  Requests,     \* the requests an agent may submit, with any of Reasons
  Reasons,      \* the reasons an agent may give
  Peers,        \* the identities the kernel may report for the socket's peer
  Clients,      \* the enrolled clients
  Store         \* the artifact store

VARIABLES
  policy,   \* Broker.policy, None until the broker has started
  peer,     \* the observed identity of the connecting process
  request,  \* the request last submitted
  reply     \* what the broker decided about it

vars == <<policy, peer, request, reply>>

\* The decisions of protocol.go, and EXECUTE.
Decisions ==
  {"EXECUTE", "APPROVED", "DENIED", "REVIEW_REQUIRED", "REASON_INVALID", "POLICY_MISMATCH",
   "CLIENT_NOT_TRUSTED", "ARTIFACT_UNVERIFIED", "SCOPE_TOO_BROAD"}

\* Requests have the fields of protocol.BrokerRequest that are modelled; None is none of the
\* values the code computes.
Values(field) == {r[field] : r \in Requests}
AnyRequest ==
  [type : Values("type"), schema : Values("schema"), client : Values("client"),
   peer : Values("peer"), cwd : Values("cwd"), exe : Values("exe"), argv : Values("argv"),
   env : Values("env"), artifact : Values("artifact"), artifactSHA : Values("artifactSHA"),
   reason : Values("reason") \cup Reasons]

ASSUME RequestsAreRequests ==
  Requests \subseteq AnyRequest /\ \A words \in Values("argv") : Len(words) \in Nat
ASSUME NoneIsNoReply == None \notin [decision : Decisions, retryable : BOOLEAN, rule : {None}]
ASSUME NoneIsNoRequest == None \notin AnyRequest
ASSUME ClientsAreClients == \A c \in Clients : c = [id |-> c.id, path |-> c.path, sha |-> c.sha]
ASSUME ObjectsHavePaths == \A a \in DOMAIN Store : Store[a].verified => Store[a].object.base # ""
\* An agent is free to write what it likes: among other things that it wants to inspect a file.
ASSUME AgentsCanExplain ==
  \E reason \in Reasons :
    reason.len \in 18..400 /\ ~reason.stock /\ reason.says = {"inspect", "file"}
ASSUME RulesAreRules ==
  \A file \in PolicyFiles : LoadPolicy(file) # None =>
    LET rules == LoadPolicy(file).rules
    IN  rules \in Seq({rules[i] : i \in DOMAIN rules}) /\ \A i \in DOMAIN rules : rules[i] # None

Init ==
  /\ policy = None
  /\ peer \in Peers
  /\ request = None
  /\ reply = None

\* New: a policy that does not load keeps the broker from starting.
Start ==
  /\ policy = None
  /\ \E file \in PolicyFiles : LoadPolicy(file) # None /\ policy' = LoadPolicy(file)
  /\ UNCHANGED <<peer, request, reply>>

Submit(req) ==
  /\ policy # None
  /\ request' = req
  /\ reply' = Decide(policy.rules, Clients, Store, req, peer)
  /\ UNCHANGED <<policy, peer>>

FirstSubmission == request = None /\ \E req \in Requests : Submit(req)

Resubmit == request # None /\ \E reason \in Reasons : Submit([request EXCEPT !.reason = reason])

Next == Start \/ FirstSubmission \/ Resubmit

Spec == Init /\ [][Next]_vars

-----------------------------------------------------------------------------
(***************************************************************************)
(* The reference: what must hold of a request and a rule for the command   *)
(* to be started, with no order among the conditions.                      *)
(***************************************************************************)
KnownClient ==
  /\ request.peer.exe \in {None, peer.exe} /\ request.peer.sha \in {None, peer.sha}
  /\ \E c \in Clients : c = [id |-> request.client, path |-> c.path, sha |-> peer.sha]
                        /\ TrustedPath(c) = peer.exe
  /\ request.client # None /\ None \notin {peer.exe, peer.sha}

ArtifactVerified ==
  /\ request.artifact \in DOMAIN Store
  /\ LET a == Store[request.artifact]
     IN  a.verified /\ a.sha = request.artifactSHA /\ a.object = request.exe

ArtifactIntact == ArtifactVerified /\ Store[request.artifact].risks = {}

WellFormed ==
  /\ request.schema = 1 /\ request.cwd # None /\ Len(request.argv) <= MaxArgv
  /\ \A i \in DOMAIN request.argv : request.argv[i] \notin NulWords
  /\ IF request.artifact = None THEN request.exe.abs /\ ~request.exe.nul ELSE ArtifactIntact

Fits(r) == RuleMatches(r, request, request.artifact # None, {})

Admits(r) ==
  /\ r.approval = "not_required"
  /\ IsShellExecutable(request.exe) => r.allowShell
  /\ HasShellMetacharacters(request.argv) => r.allowMeta
  /\ request.env \cap DangerousKeys \subseteq r.env
  /\ request.artifact = None => r.effect = InferEffect(request.exe, request.argv)

MayRun ==
  /\ request.type # "ping"
  /\ KnownClient /\ WellFormed
  /\ ReasonValid(request.reason, EffectOf(request))
  /\ \E i \in DOMAIN policy.rules :
       /\ Fits(policy.rules[i]) /\ Admits(policy.rules[i])
       /\ \A j \in 1..(i-1) : ~Fits(policy.rules[j])

-----------------------------------------------------------------------------
(***************************************************************************)
(* What each stage of docs/security-invariants.md may object, in the order *)
(* that document fixes; within a stage there is no order.  The peer and    *)
(* the ping come before all of them.                                       *)
(***************************************************************************)
PeerObjections ==
  {d \in {"CLIENT_NOT_TRUSTED"} :
     \/ None \in {peer.exe, peer.sha}
     \/ request.peer.exe \notin {None, peer.exe} \/ request.peer.sha \notin {None, peer.sha}}

ShapeObjections ==
  {d \in Decisions :
     \/ d = "DENIED" /\ \/ request.cwd = None
                        \/ request.artifact = None /\ request.exe.nul
                        \/ \E i \in DOMAIN request.argv : request.argv[i] \in NulWords
     \/ d = "POLICY_MISMATCH" /\ request.artifact = None /\ ~request.exe.abs
     \/ d = "ARTIFACT_UNVERIFIED" /\ request.artifact # None /\ request.exe.base = ""
     \/ d = "SCOPE_TOO_BROAD" /\ Len(request.argv) > MaxArgv}

ArtifactObjections ==
  {d \in Decisions :
     /\ request.artifact # None
     /\ \/ d = "ARTIFACT_UNVERIFIED" /\ ~ArtifactVerified
        \/ d = "REVIEW_REQUIRED" /\ request.artifact \in DOMAIN Store
                                 /\ Store[request.artifact].risks # {}}

MatchObjections ==
  {d \in {"SCOPE_TOO_BROAD", "REVIEW_REQUIRED"} :
     /\ \A i \in DOMAIN policy.rules : ~Fits(policy.rules[i])
     /\ d = "SCOPE_TOO_BROAD" <=> \/ request.artifact = None /\ IsShellExecutable(request.exe)
                                  \/ HasShellMetacharacters(request.argv)}

RuleObjections ==
  {d \in Decisions : \E i \in DOMAIN policy.rules :
     LET r == policy.rules[i]
     IN  /\ Fits(r) /\ \A j \in 1..(i-1) : ~Fits(policy.rules[j])
         /\ \/ d = "POLICY_MISMATCH" /\ request.artifact = None
                                      /\ r.effect # InferEffect(request.exe, request.argv)
            \/ d = "REVIEW_REQUIRED" /\ r.approval # "not_required"
            \/ d = "SCOPE_TOO_BROAD" /\ \/ IsShellExecutable(request.exe) /\ ~r.allowShell
                                        \/ HasShellMetacharacters(request.argv) /\ ~r.allowMeta
            \/ d = "DENIED" /\ ~(request.env \cap DangerousKeys \subseteq r.env)}

Stages == 1..9

Objections(stage) ==
  CASE stage = 1 -> PeerObjections
    [] stage = 2 -> {d \in {"APPROVED"} : request.type = "ping"}
    [] stage = 3 -> {d \in {"DENIED"} : request.schema # 1}
    [] stage = 4 -> {d \in {"CLIENT_NOT_TRUSTED"} : ~KnownClient}
    [] stage = 5 -> ShapeObjections
    [] stage = 6 -> ArtifactObjections
    [] stage = 7 -> {d \in {"REASON_INVALID"} : ~ReasonValid(request.reason, EffectOf(request))}
    [] stage = 8 -> MatchObjections
    [] stage = 9 -> RuleObjections

\* Broker.process starts a command exactly when every requirement holds, and otherwise answers
\* with an objection of the first stage that has one: no early return skips a later control, none
\* refuses more than it says, and none tells of a stage that comes after the one that failed.
\* Of several rules that fit, the one that counts is the first in the file, as Policy.Match has
\* it; docs/testcases.md asks for another, see SafestRuleWins.
DecisionIsReference ==
  reply # None =>
    /\ reply.decision = "EXECUTE" <=> MayRun
    /\ ~MayRun => \E stage \in Stages :
                    /\ \A earlier \in 1..(stage - 1) : Objections(earlier) = {}
                    /\ reply.decision \in Objections(stage)

\* REASON_INVALID promises that the agent can revise and retry (protocol.ReasonInvalid):
\* for whatever command, some reason gets past the check.
ReasonCanBeMended ==
  reply # None /\ reply.decision = "REASON_INVALID" =>
    /\ reply.retryable
    /\ \E reason \in Reasons :
         Decide(policy.rules, Clients, Store, [request EXCEPT !.reason = reason], peer).decision
           # "REASON_INVALID"

\* A refusal that is not retryable stands: no other reason gets the same command executed.
RefusalStands ==
  [][reply # None /\ reply.decision # "EXECUTE" /\ ~reply.retryable
       => reply'.decision # "EXECUTE"]_vars

-----------------------------------------------------------------------------
\* docs/testcases.md, AS-POL-018: of conflicting policies that match the same request the safest
\* rule wins.  So a command is executed only if every rule that fits admits it.
SafestRuleWins ==
  reply # None /\ reply.decision = "EXECUTE" =>
    \A i \in DOMAIN policy.rules : Fits(policy.rules[i]) => Admits(policy.rules[i])

=============================================================================
