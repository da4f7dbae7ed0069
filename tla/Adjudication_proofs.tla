------------------------- MODULE Adjudication_proofs -------------------------
(***************************************************************************)
(* Theorems about what the broker decides, for any policies, requests,     *)
(* clients and artifacts.                                                  *)
(***************************************************************************)
EXTENDS Adjudication, WellFoundedInduction, TLAPS

\* policy.Match: nothing, if no rule fits; otherwise the first that does.
LEMMA FirstMatch ==
  ASSUME NEW S, NEW rules \in Seq(S), NEW req, NEW verified, NEW risks
  PROVE  \/ /\ Match(rules, req, verified, risks) = None
            /\ \A i \in DOMAIN rules : ~RuleMatches(rules[i], req, verified, risks)
         \/ \E i \in DOMAIN rules :
              /\ Match(rules, req, verified, risks) = rules[i]
              /\ RuleMatches(rules[i], req, verified, risks)
              /\ \A j \in 1..(i-1) : ~RuleMatches(rules[j], req, verified, risks)
  <1> DEFINE fits == {i \in DOMAIN rules : RuleMatches(rules[i], req, verified, risks)}
             first == CHOOSE i \in fits : \A j \in fits : i <= j
  <1>1. DOMAIN rules = 1..Len(rules) /\ Len(rules) \in Nat /\ fits \subseteq Nat
    OBVIOUS
  <1>2. CASE fits = {}
    BY <1>2 DEF Match
  <1>3. CASE fits # {}
    <2>1. PICK m \in fits : \A j \in fits : ~(<<j, m>> \in OpToRel(<, Nat))
      BY <1>1, <1>3, NatLessThanWellFounded, WFMin
    <2>2. ASSUME NEW j \in fits PROVE m <= j
      <3>1. m \in Nat /\ j \in Nat
        BY <1>1
      <3>2. ASSUME j < m PROVE <<j, m>> \in OpToRel(<, Nat)
        <4>1. <<j, m>> \in Nat \X Nat /\ <<j, m>>[1] < <<j, m>>[2]
          BY <3>1, <3>2
        <4> QED
          BY <4>1, Zenon DEF OpToRel
      <3>3. ~(j < m)
        BY <2>1, <3>2
      <3> HIDE DEF fits
      <3> QED
        BY <3>1, <3>3
    <2>3. first \in fits /\ \A j \in fits : first <= j
      BY <2>1, <2>2
    <2>4. Match(rules, req, verified, risks) = rules[first]
      BY <1>3 DEF Match
    <2>5. ASSUME NEW j \in 1..(first - 1) PROVE ~RuleMatches(rules[j], req, verified, risks)
      <3>1. j \in DOMAIN rules /\ ~(first <= j)
        BY <1>1, <2>3
      <3> QED
        BY <2>3, <3>1
    <2> QED
      BY <2>3, <2>4, <2>5
  <1> QED
    BY <1>2, <1>3

\* The rules after the one that fits have no say, whatever they are and whatever the broker
\* answers (the order of policy.Match and Broker.process).
THEOREM LaterRulesHaveNoSay ==
  ASSUME NEW S, None \notin S, NEW rules \in Seq(S), NEW more \in Seq(S),
         NEW clients, NEW store, NEW req, NEW p,
         MatchedRule(rules, store, ApplyObserved(req, p)) # None
  PROVE  Decide(rules \o more, clients, store, req, p) = Decide(rules, clients, store, req, p)
  <1> DEFINE obs == ApplyObserved(req, p)
             verified == obs.artifact # None
             risks == RisksOf(store, obs)
             fit(r) == RuleMatches(r, obs, verified, risks)
             all == rules \o more
  <1>1. PICK i \in DOMAIN rules : /\ MatchedRule(rules, store, obs) = rules[i] /\ fit(rules[i])
                                  /\ \A j \in 1..(i-1) : ~fit(rules[j])
    BY FirstMatch DEF MatchedRule
  <1>2. /\ all \in Seq(S) /\ DOMAIN rules = 1..Len(rules) /\ DOMAIN rules \subseteq DOMAIN all
        /\ \A j \in DOMAIN rules : all[j] = rules[j]
    OBVIOUS
  <1>3. PICK k \in DOMAIN all : /\ MatchedRule(all, store, obs) = all[k] /\ fit(all[k])
                                /\ \A j \in 1..(k-1) : ~fit(all[j])
    <2>1. fit(all[i]) /\ i \in DOMAIN all
      BY <1>1, <1>2
    <2> HIDE DEF all
    <2> QED
      BY <1>2, <2>1, FirstMatch DEF MatchedRule
  <1>4. k = i
    <2>1. i \in Nat /\ k \in Nat /\ i >= 1 /\ k >= 1
      BY <1>1, <1>2, <1>3
    <2>2. ~(i < k)
      BY <1>1, <1>2, <1>3, <2>1
    <2>3. ~(k < i)
      BY <1>1, <1>2, <1>3, <2>1
    <2> QED
      BY <2>1, <2>2, <2>3
  <1>5. MatchedRule(all, store, obs) = MatchedRule(rules, store, obs)
    BY <1>1, <1>2, <1>3, <1>4
  <1> HIDE DEF all, obs
  <1>6. Process(all, clients, store, obs) = Process(rules, clients, store, obs)
    BY <1>5 DEF Process
  <1> QED
    BY <1>6 DEF Decide, all, obs

-----------------------------------------------------------------------------
(***************************************************************************)
(* The reference.  Inv is what a conversation keeps: the policy is one     *)
(* that loaded, and the reply is the decision about the last request.      *)
(***************************************************************************)
Loaded == \E file \in PolicyFiles : LoadPolicy(file) # None /\ policy = LoadPolicy(file)

Inv ==
  /\ policy # None => Loaded
  /\ request # None => request \in AnyRequest /\ policy # None
  /\ reply # None => /\ request # None
                     /\ reply = Decide(policy.rules, Clients, Store, request, peer)

LEMMA InvInductive == Spec => []Inv
  <1>1. Init => Inv
    BY DEF Init, Inv
  <1>2. Inv /\ [Next]_vars => Inv'
    <2> SUFFICES ASSUME Inv, [Next]_vars PROVE Inv'
      OBVIOUS
    <2>1. CASE Start
      <3>1. policy' # None /\ Loaded' /\ request = None /\ reply = None
        BY <2>1 DEF Start, Inv, Loaded
      <3> QED
        BY <2>1, <3>1 DEF Start, Inv
    <2>2. ASSUME NEW req \in AnyRequest, Submit(req) PROVE Inv'
      BY <2>2, NoneIsNoRequest DEF Submit, Inv, Loaded
    <2>3. CASE FirstSubmission
      BY <2>2, <2>3, RequestsAreRequests DEF FirstSubmission
    <2>4. CASE Resubmit
      <3>1. PICK reason \in Reasons : Submit([request EXCEPT !.reason = reason])
        BY <2>4 DEF Resubmit
      <3>2. request \in AnyRequest
        BY <2>4 DEF Resubmit, Inv
      <3>3. [request EXCEPT !.reason = reason] \in AnyRequest
        BY <3>2 DEF AnyRequest
      <3> QED
        BY <2>2, <3>1, <3>3
    <2>5. CASE UNCHANGED vars
      BY <2>5 DEF vars, Inv, Loaded
    <2> QED
      BY <2>1, <2>3, <2>4, <2>5 DEF Next
  <1> QED
    BY <1>1, <1>2, PTL DEF Spec

\* Broker.process read backwards: it starts the command only past every check.
LEMMA EveryCheckPasses ==
  ASSUME NEW rules, NEW req
  PROVE  Process(rules, Clients, Store, req).decision = "EXECUTE" <=>
           /\ req.type # "ping" /\ req.schema = 1 /\ TrustMatch(Clients, req)
           /\ ShapeRefusal(req) = None /\ ArtifactRefusal(Store, req) = None
           /\ ReasonValid(req.reason, EffectOf(req))
           /\ MatchedRule(rules, Store, req) # None
           /\ RuleVerdict(MatchedRule(rules, Store, req), req, RisksOf(Store, req)).decision
                = "EXECUTE"
  <1> DEFINE rule == MatchedRule(rules, Store, req)
  <1>1. ShapeRefusal(req) = None \/ ShapeRefusal(req).decision # "EXECUTE"
    BY DEF ShapeRefusal, Decline
  <1>2. ArtifactRefusal(Store, req) = None \/ ArtifactRefusal(Store, req).decision # "EXECUTE"
    BY DEF ArtifactRefusal, Decline, Retryable
  <1>3. /\ Pong.decision # "EXECUTE" /\ NoRuleRefusal(req).decision # "EXECUTE"
        /\ \A d \in {"DENIED", "CLIENT_NOT_TRUSTED"} : Decline(d).decision # "EXECUTE"
        /\ Retryable("REASON_INVALID").decision # "EXECUTE"
    BY DEF Pong, NoRuleRefusal, Decline, Retryable
  <1> HIDE DEF rule
  <1> QED
    BY <1>1, <1>2, <1>3 DEF Process, rule

LEMMA RefusalsAreReplies ==
  ASSUME NEW d \in Decisions
  PROVE  Decline(d) # None /\ Retryable(d) # None
  <1>1. Decline(d) \in [decision : Decisions, retryable : BOOLEAN, rule : {None}]
    BY DEF Decline
  <1>2. Retryable(d) \in [decision : Decisions, retryable : BOOLEAN, rule : {None}]
    BY DEF Retryable, Decline
  <1> QED
    BY <1>1, <1>2, NoneIsNoReply

\* The order of the checks on the shape of a request does not matter to whether all pass.
LEMMA ShapePasses ==
  ASSUME NEW req, Len(req.argv) \in Nat
  PROVE  ShapeRefusal(req) = None <=>
           /\ req.cwd # None /\ Len(req.argv) <= MaxArgv
           /\ \A i \in DOMAIN req.argv : req.argv[i] \notin NulWords
           /\ IF req.artifact = None THEN req.exe.abs /\ ~req.exe.nul ELSE req.exe.base # ""
  <1>1. /\ Decline("DENIED") # None /\ Decline("POLICY_MISMATCH") # None
        /\ Decline("ARTIFACT_UNVERIFIED") # None /\ Decline("SCOPE_TOO_BROAD") # None
    BY RefusalsAreReplies DEF Decisions
  <1>2. Len(req.argv) > MaxArgv <=> ~(Len(req.argv) <= MaxArgv)
    BY DEF MaxArgv
  <1> QED
    BY <1>1, <1>2, Zenon DEF ShapeRefusal

LEMMA ArtifactPasses ==
  ASSUME NEW req, req.artifact # None
  PROVE  ArtifactRefusal(Store, req) = None <=>
           /\ req.artifact \in DOMAIN Store
           /\ LET a == Store[req.artifact]
              IN  a.verified /\ a.sha = req.artifactSHA /\ a.object = req.exe /\ a.risks = {}
  <1>1. /\ Decline("ARTIFACT_UNVERIFIED") # None /\ Decline("REVIEW_REQUIRED") # None
        /\ Retryable("ARTIFACT_UNVERIFIED") # None
    BY RefusalsAreReplies DEF Decisions
  <1> QED
    BY <1>1 DEF ArtifactRefusal, Verified

\* The verdict on the rule that fits, once the runtime risks are none.
LEMMA VerdictAdmits ==
  ASSUME NEW rule, NEW req
  PROVE  RuleVerdict(rule, req, {}).decision = "EXECUTE" <=>
           /\ req.artifact = None => rule.effect = EffectOf(req)
           /\ rule.approval = "not_required" /\ ~ShellDenied(rule, req) /\ ~DeniedEnv(rule, req)
  <1>1. ~RuntimeRiskBlocked(rule, {})
    BY DEF RuntimeRiskBlocked
  <1> QED
    BY <1>1 DEF RuleVerdict, Decline, Execute

\* trust.Store.Match and peer.ApplyObserved, against the reference's known client.
LEMMA ClientIsKnown ==
  ASSUME request \in AnyRequest
  PROVE  ~ClaimDenied(request, peer) /\ TrustMatch(Clients, ApplyObserved(request, peer))
           <=> KnownClient
  <1> DEFINE obs == ApplyObserved(request, peer)
  <1>1. obs.client = request.client /\ obs.peer = peer
    BY DEF ApplyObserved, AnyRequest
  <1>2. \A c \in Clients : c = [id |-> request.client, path |-> c.path, sha |-> peer.sha]
                             <=> c.id = request.client /\ c.sha = peer.sha
    BY ClientsAreClients
  <1> HIDE DEF obs
  <1>3. TrustMatch(Clients, obs)
          <=> /\ None \notin {request.client, peer.exe, peer.sha}
              /\ \E c \in Clients : c.id = request.client /\ TrustedPath(c) = peer.exe
                                    /\ c.sha = peer.sha
    BY <1>1 DEF TrustMatch
  <1> QED
    BY <1>2, <1>3 DEF ClaimDenied, KnownClient, obs

\* Broker.process executes exactly the requests that satisfy the reference.
LEMMA ExecutedIsAdmitted ==
  ASSUME Inv, reply # None
  PROVE  reply.decision = "EXECUTE" <=> MayRun
  <1> DEFINE obs == ApplyObserved(request, peer)
             rules == policy.rules
  <1>1. /\ request \in AnyRequest /\ Len(request.argv) \in Nat
        /\ reply = Decide(rules, Clients, Store, request, peer)
        /\ rules \in Seq({rules[i] : i \in DOMAIN rules}) /\ \A i \in DOMAIN rules : rules[i] # None
    BY RequestsAreRequests, RulesAreRules DEF Inv, Loaded, AnyRequest
  <1>2. /\ obs.type = request.type /\ obs.schema = request.schema /\ obs.cwd = request.cwd
        /\ obs.client = request.client /\ obs.exe = request.exe /\ obs.argv = request.argv
        /\ obs.env = request.env /\ obs.artifact = request.artifact
        /\ obs.artifactSHA = request.artifactSHA /\ obs.reason = request.reason
    BY <1>1 DEF ApplyObserved, AnyRequest
  <1> HIDE DEF obs, rules
  <1>3. reply.decision = "EXECUTE" <=>
          /\ ~ClaimDenied(request, peer)
          /\ Process(rules, Clients, Store, obs).decision = "EXECUTE"
    BY <1>1 DEF Decide, Decline, obs
  <1> DEFINE small == request.cwd # None /\ Len(request.argv) <= MaxArgv
                      /\ \A i \in DOMAIN request.argv : request.argv[i] \notin NulWords
             plain == request.exe.abs /\ ~request.exe.nul
  <1>4. /\ ShapeRefusal(obs) = None
        /\ request.artifact # None => ArtifactRefusal(Store, obs) = None
        <=> small /\ IF request.artifact = None THEN plain ELSE ArtifactIntact
    <2>1. ShapeRefusal(obs) = None
            <=> small /\ IF request.artifact = None THEN plain ELSE request.exe.base # ""
      <3>1. Len(obs.argv) \in Nat
        BY <1>1, <1>2
      <3> QED
        BY <1>2, <3>1, ShapePasses, Zenon
    <2>2. request.artifact # None => (ArtifactRefusal(Store, obs) = None <=> ArtifactIntact)
      BY <1>2, ArtifactPasses DEF ArtifactIntact, ArtifactVerified
    <2>3. ArtifactIntact => request.exe.base # ""
      BY ObjectsHavePaths DEF ArtifactIntact, ArtifactVerified
    <2> HIDE DEF small, plain
    <2> QED
      BY <2>1, <2>2, <2>3, Zenon
  <1>5. request.artifact = None => ArtifactRefusal(Store, obs) = None
    BY <1>2 DEF ArtifactRefusal
  <1>6. request.artifact = None \/ ArtifactIntact => RisksOf(Store, obs) = {}
    BY <1>2 DEF RisksOf, ArtifactIntact
  <1>7. \A r : RuleMatches(r, obs, obs.artifact # None, {}) <=> Fits(r)
    BY <1>2 DEF RuleMatches, Fits, RuntimeRiskBlocked
  <1>8. \A r : RuleVerdict(r, obs, {}).decision = "EXECUTE" <=> Admits(r)
    <2> SUFFICES ASSUME NEW r
                 PROVE  RuleVerdict(r, obs, {}).decision = "EXECUTE" <=> Admits(r)
      OBVIOUS
    <2>1. ~DeniedEnv(r, obs) <=> request.env \cap DangerousKeys \subseteq r.env
      BY <1>2 DEF DeniedEnv
    <2>2. ~ShellDenied(r, obs) <=> /\ IsShellExecutable(request.exe) => r.allowShell
                                   /\ HasShellMetacharacters(request.argv) => r.allowMeta
      BY <1>2 DEF ShellDenied
    <2>3. request.artifact = None => EffectOf(obs) = InferEffect(request.exe, request.argv)
      BY <1>2 DEF EffectOf
    <2> QED
      BY <1>2, <2>1, <2>2, <2>3, VerdictAdmits DEF Admits
  <1>9. ASSUME RisksOf(Store, obs) = {}
        PROVE  MatchedRule(rules, Store, obs) # None
                 /\ RuleVerdict(MatchedRule(rules, Store, obs), obs, {}).decision = "EXECUTE"
               <=> \E i \in DOMAIN rules :
                     /\ Fits(rules[i]) /\ Admits(rules[i])
                     /\ \A j \in 1..(i-1) : ~Fits(rules[j])
    <2> DEFINE first(i) == /\ MatchedRule(rules, Store, obs) = rules[i] /\ Fits(rules[i])
                           /\ \A j \in 1..(i-1) : ~Fits(rules[j])
    <2>1. \/ MatchedRule(rules, Store, obs) = None /\ \A i \in DOMAIN rules : ~Fits(rules[i])
          \/ \E i \in DOMAIN rules : first(i)
      BY <1>1, <1>7, <1>9, FirstMatch DEF MatchedRule
    <2>2. ASSUME NEW i \in DOMAIN rules, NEW k \in DOMAIN rules, first(i), Fits(rules[k]),
                 \A j \in 1..(k-1) : ~Fits(rules[j])
          PROVE  i = k
      <3>1. DOMAIN rules \subseteq Nat \ {0}
        BY <1>1
      <3>2. ~(i < k) /\ ~(k < i)
        BY <2>2, <3>1
      <3> QED
        BY <3>1, <3>2
    <2> QED
      BY <1>1, <1>8, <2>1, <2>2
  <1> DEFINE intact == IF request.artifact = None THEN plain ELSE ArtifactIntact
             chosen == \E i \in DOMAIN rules : /\ Fits(rules[i]) /\ Admits(rules[i])
                                               /\ \A j \in 1..(i-1) : ~Fits(rules[j])
             mayRun == /\ request.type # "ping" /\ request.schema = 1 /\ KnownClient /\ small /\ intact
                       /\ ReasonValid(request.reason, EffectOf(request)) /\ chosen
  <1>10. MayRun <=> mayRun
    <2>1. WellFormed <=> request.schema = 1 /\ small /\ intact
      BY Zenon DEF WellFormed
    <2>2. MayRun <=> /\ request.type # "ping" /\ KnownClient /\ WellFormed
                     /\ ReasonValid(request.reason, EffectOf(request)) /\ chosen
      BY Zenon DEF MayRun, rules
    <2> HIDE DEF small, intact, chosen
    <2> QED
      BY <2>1, <2>2, Zenon
  <1>11. EffectOf(obs) = EffectOf(request)
    BY <1>2 DEF EffectOf
  <1>12. reply.decision = "EXECUTE" <=> mayRun
    <2>1. intact => RisksOf(Store, obs) = {}
      BY <1>6, Zenon
    <2>2. ~ClaimDenied(request, peer) /\ TrustMatch(Clients, obs) <=> KnownClient
      BY <1>1, ClientIsKnown DEF obs
    <2>3. ShapeRefusal(obs) = None /\ ArtifactRefusal(Store, obs) = None <=> small /\ intact
      <3> HIDE DEF small, plain
      <3> QED
        BY <1>4, <1>5, Zenon
    <2> HIDE DEF small, intact
    <2>4. RisksOf(Store, obs) = {} =>
            (MatchedRule(rules, Store, obs) # None
               /\ RuleVerdict(MatchedRule(rules, Store, obs), obs, {}).decision = "EXECUTE"
             <=> chosen)
      BY <1>9, Zenon
    <2> HIDE DEF chosen
    <2> QED
      BY <1>2, <1>3, <1>11, <2>1, <2>2, <2>3, <2>4, EveryCheckPasses
  <1> QED
    BY <1>10, <1>12

\* ApplyObserved changes the claim about the peer only.
LEMMA SeenAsSent ==
  ASSUME request \in AnyRequest
  PROVE  LET obs == ApplyObserved(request, peer)
         IN  /\ obs.type = request.type /\ obs.schema = request.schema /\ obs.cwd = request.cwd
             /\ obs.client = request.client /\ obs.exe = request.exe /\ obs.argv = request.argv
             /\ obs.env = request.env /\ obs.artifact = request.artifact
             /\ obs.artifactSHA = request.artifactSHA /\ obs.reason = request.reason
  BY DEF ApplyObserved, AnyRequest

\* What the shape checks answer is an objection to the shape.
LEMMA ShapeAnswers ==
  ASSUME request \in AnyRequest, Len(request.argv) \in Nat
  PROVE  LET refusal == ShapeRefusal(ApplyObserved(request, peer))
         IN  IF refusal = None THEN ShapeObjections = {} ELSE refusal.decision \in ShapeObjections
  <1> DEFINE obs == ApplyObserved(request, peer)
             nul == \E i \in DOMAIN request.argv : request.argv[i] \in NulWords
             long == Len(request.argv) > MaxArgv
  <1>1. /\ obs.cwd = request.cwd /\ obs.exe = request.exe /\ obs.argv = request.argv
        /\ obs.artifact = request.artifact
    BY SeenAsSent
  <1> HIDE DEF obs
  <1>2. ShapeRefusal(obs) =
          IF request.cwd = None THEN Decline("DENIED")
          ELSE IF request.artifact = None /\ ~request.exe.abs THEN Decline("POLICY_MISMATCH")
          ELSE IF request.artifact = None /\ request.exe.nul THEN Decline("DENIED")
          ELSE IF request.artifact # None /\ request.exe.base = "" THEN Decline("ARTIFACT_UNVERIFIED")
          ELSE IF nul THEN Decline("DENIED")
          ELSE IF long THEN Decline("SCOPE_TOO_BROAD")
          ELSE None
    BY <1>1, Zenon DEF ShapeRefusal
  <1>3. ShapeObjections =
          {d \in Decisions :
             \/ d = "DENIED" /\ (request.cwd = None \/ (request.artifact = None /\ request.exe.nul) \/ nul)
             \/ d = "POLICY_MISMATCH" /\ request.artifact = None /\ ~request.exe.abs
             \/ d = "ARTIFACT_UNVERIFIED" /\ request.artifact # None /\ request.exe.base = ""
             \/ d = "SCOPE_TOO_BROAD" /\ long}
    BY DEF ShapeObjections
  <1>4. \A d \in Decisions : Decline(d) # None /\ Decline(d).decision = d
    BY RefusalsAreReplies DEF Decline
  <1> HIDE DEF nul, long
  <1>5. {"DENIED", "POLICY_MISMATCH", "ARTIFACT_UNVERIFIED", "SCOPE_TOO_BROAD"} \subseteq Decisions
    BY DEF Decisions
  <1> QED
    BY <1>2, <1>3, <1>4, <1>5 DEF obs

\* What the artifact checks answer is an objection to the artifact.
LEMMA ArtifactAnswers ==
  ASSUME request \in AnyRequest
  PROVE  LET refusal == ArtifactRefusal(Store, ApplyObserved(request, peer))
         IN  IF refusal = None THEN ArtifactObjections = {}
             ELSE refusal.decision \in ArtifactObjections
  <1> DEFINE obs == ApplyObserved(request, peer)
             a == Store[request.artifact]
             known == Verified(Store, request.artifact)
             same == a.sha = request.artifactSHA /\ a.object = request.exe
  <1>1. /\ obs.exe = request.exe /\ obs.artifact = request.artifact
        /\ obs.artifactSHA = request.artifactSHA
    BY SeenAsSent
  <1> HIDE DEF obs
  <1>2. ArtifactRefusal(Store, obs) =
          IF request.artifact = None THEN None
          ELSE IF ~known THEN Retryable("ARTIFACT_UNVERIFIED")
          ELSE IF ~same THEN Decline("ARTIFACT_UNVERIFIED")
          ELSE IF a.risks # {} THEN Decline("REVIEW_REQUIRED")
          ELSE None
    BY <1>1, Zenon DEF ArtifactRefusal
  <1>3. /\ ArtifactVerified <=> known /\ same
        /\ known => request.artifact \in DOMAIN Store
    BY DEF ArtifactVerified, Verified
  <1>4. /\ Retryable("ARTIFACT_UNVERIFIED") # None /\ Decline("ARTIFACT_UNVERIFIED") # None
        /\ Decline("REVIEW_REQUIRED") # None
        /\ Retryable("ARTIFACT_UNVERIFIED").decision = "ARTIFACT_UNVERIFIED"
        /\ Decline("ARTIFACT_UNVERIFIED").decision = "ARTIFACT_UNVERIFIED"
        /\ Decline("REVIEW_REQUIRED").decision = "REVIEW_REQUIRED"
    BY RefusalsAreReplies DEF Decisions, Retryable, Decline
  <1>5. {"ARTIFACT_UNVERIFIED", "REVIEW_REQUIRED"} \subseteq Decisions
    BY DEF Decisions
  <1>6. ArtifactObjections =
          {d \in Decisions :
             /\ request.artifact # None
             /\ \/ d = "ARTIFACT_UNVERIFIED" /\ ~ArtifactVerified
                \/ d = "REVIEW_REQUIRED" /\ request.artifact \in DOMAIN Store /\ a.risks # {}}
    BY DEF ArtifactObjections
  <1> HIDE DEF a, known, same
  <1> QED
    BY <1>2, <1>3, <1>4, <1>5, <1>6 DEF obs

\* What is answered when no rule fits, or by the first one that does, is an objection of the
\* stage of the policy.
LEMMA PolicyAnswers ==
  ASSUME Inv, reply # None, RisksOf(Store, ApplyObserved(request, peer)) = {}
  PROVE  LET obs == ApplyObserved(request, peer)
             rule == MatchedRule(policy.rules, Store, obs)
             verdict == RuleVerdict(rule, obs, {}).decision
         IN  IF rule = None THEN NoRuleRefusal(obs).decision \in MatchObjections
             ELSE MatchObjections = {} /\ (verdict # "EXECUTE" => verdict \in RuleObjections)
  <1> DEFINE obs == ApplyObserved(request, peer)
             rules == policy.rules
             rule == MatchedRule(rules, Store, obs)
             broad == (request.artifact = None /\ IsShellExecutable(request.exe))
                        \/ HasShellMetacharacters(request.argv)
             first(i) == /\ rule = rules[i] /\ Fits(rules[i])
                         /\ \A j \in 1..(i-1) : ~Fits(rules[j])
  <1>1. /\ request \in AnyRequest /\ rules \in Seq({rules[i] : i \in DOMAIN rules})
        /\ \A i \in DOMAIN rules : rules[i] # None
    BY RulesAreRules DEF Inv, Loaded
  <1>2. /\ obs.client = request.client /\ obs.exe = request.exe /\ obs.argv = request.argv
        /\ obs.env = request.env /\ obs.artifact = request.artifact /\ obs.cwd = request.cwd
    BY <1>1, SeenAsSent
  <1> HIDE DEF obs, rules
  <1>3. \A r : RuleMatches(r, obs, obs.artifact # None, {}) <=> Fits(r)
    BY <1>2 DEF RuleMatches, Fits, RuntimeRiskBlocked
  <1>4. \/ rule = None /\ \A i \in DOMAIN rules : ~Fits(rules[i])
        \/ \E i \in DOMAIN rules : first(i)
    BY <1>1, <1>3, FirstMatch DEF MatchedRule, obs
  <1>5. /\ NoRuleRefusal(obs).decision = (IF broad THEN "SCOPE_TOO_BROAD" ELSE "REVIEW_REQUIRED")
        /\ MatchObjections = {d \in {"SCOPE_TOO_BROAD", "REVIEW_REQUIRED"} :
                                /\ \A i \in DOMAIN rules : ~Fits(rules[i])
                                /\ d = "SCOPE_TOO_BROAD" <=> broad}
    BY <1>2 DEF NoRuleRefusal, Decline, MatchObjections, rules
  <1>6. CASE rule = None
    <2>1. \A i \in DOMAIN rules : ~Fits(rules[i])
      BY <1>1, <1>4, <1>6
    <2> HIDE DEF broad, rule
    <2>2. NoRuleRefusal(obs).decision \in MatchObjections
      BY <1>5, <2>1
    <2> QED
      BY <1>6, <2>2 DEF obs, rules, rule
  <1>7. CASE rule # None
    <2>1. PICK i \in DOMAIN rules : first(i)
      BY <1>4, <1>7
    <2>2. MatchObjections = {}
      <3> HIDE DEF broad
      <3> QED
        BY <1>5, <2>1
    <2> DEFINE verdict == RuleVerdict(rule, obs, {}).decision
    <2>3. ASSUME verdict # "EXECUTE" PROVE verdict \in RuleObjections
      <3> DEFINE r == rules[i]
      <3>1. verdict = IF request.artifact = None /\ r.effect # InferEffect(request.exe, request.argv)
                        THEN "POLICY_MISMATCH"
                      ELSE IF r.approval # "not_required" THEN "REVIEW_REQUIRED"
                      ELSE IF ShellDenied(r, obs) THEN "SCOPE_TOO_BROAD"
                      ELSE IF DeniedEnv(r, obs) THEN "DENIED"
                      ELSE "EXECUTE"
        <4>1. ~RuntimeRiskBlocked(r, {}) /\ rule = r
          BY <2>1 DEF RuntimeRiskBlocked
        <4>2. request.artifact = None => EffectOf(obs) = InferEffect(request.exe, request.argv)
          BY <1>2 DEF EffectOf
        <4> HIDE DEF r, rule
        <4> QED
          BY <1>2, <4>1, <4>2 DEF RuleVerdict, Decline, Execute
      <3>2. ShellDenied(r, obs) <=> \/ IsShellExecutable(request.exe) /\ ~r.allowShell
                                    \/ HasShellMetacharacters(request.argv) /\ ~r.allowMeta
        BY <1>2 DEF ShellDenied
      <3>3. DeniedEnv(r, obs) <=> ~(request.env \cap DangerousKeys \subseteq r.env)
        BY <1>2 DEF DeniedEnv
      <3>4. verdict \in Decisions
        <4> HIDE DEF verdict
        <4> QED
          BY <2>3, <3>1 DEF Decisions
      <3>5. /\ i \in DOMAIN policy.rules /\ r = policy.rules[i] /\ Fits(r)
            /\ \A j \in 1..(i-1) : ~Fits(policy.rules[j])
        BY <2>1 DEF rules
      <3> HIDE DEF verdict, r
      <3> QED
        BY <2>3, <3>1, <3>2, <3>3, <3>4, <3>5 DEF RuleObjections
    <2> HIDE DEF verdict
    <2> QED
      BY <1>7, <2>2, <2>3 DEF obs, rules, rule, verdict
  <1> QED
    BY <1>6, <1>7

\* A refusal is an objection of the first stage that has one.
LEMMA FirstObjection ==
  ASSUME Inv, reply # None, reply.decision # "EXECUTE"
  PROVE  \E stage \in Stages :
           /\ \A earlier \in 1..(stage - 1) : Objections(earlier) = {}
           /\ reply.decision \in Objections(stage)
  <1> DEFINE obs == ApplyObserved(request, peer)
             rules == policy.rules
             rule == MatchedRule(rules, Store, obs)
             before(n) == \A earlier \in 1..(n - 1) : Objections(earlier) = {}
             d == reply.decision
  <1>1. /\ request \in AnyRequest /\ Len(request.argv) \in Nat
        /\ reply = Decide(rules, Clients, Store, request, peer)
    BY RequestsAreRequests DEF Inv, AnyRequest
  <1>2. /\ obs.type = request.type /\ obs.schema = request.schema
        /\ obs.artifact = request.artifact /\ obs.reason = request.reason
        /\ EffectOf(obs) = EffectOf(request)
    BY <1>1, SeenAsSent DEF EffectOf
  <1>3. /\ Objections(1) = PeerObjections
        /\ Objections(2) = {x \in {"APPROVED"} : request.type = "ping"}
        /\ Objections(3) = {x \in {"DENIED"} : request.schema # 1}
        /\ Objections(4) = {x \in {"CLIENT_NOT_TRUSTED"} : ~KnownClient}
        /\ Objections(5) = ShapeObjections
        /\ Objections(6) = ArtifactObjections
        /\ Objections(7) = {x \in {"REASON_INVALID"} : ~ReasonValid(request.reason, EffectOf(request))}
        /\ Objections(8) = MatchObjections
        /\ Objections(9) = RuleObjections
    BY DEF Objections
  <1>4. IF ClaimDenied(request, peer) THEN "CLIENT_NOT_TRUSTED" \in Objections(1) ELSE Objections(1) = {}
    BY <1>3 DEF ClaimDenied, PeerObjections
  <1>5. ~ClaimDenied(request, peer) => (TrustMatch(Clients, obs) <=> KnownClient)
    <2>1. KnownClient => ~ClaimDenied(request, peer)
      BY <1>1, ClientIsKnown
    <2> QED
      BY <1>1, ClientIsKnown
  <1>6. /\ IF ShapeRefusal(obs) = None THEN Objections(5) = {}
           ELSE ShapeRefusal(obs).decision \in Objections(5)
        /\ IF ArtifactRefusal(Store, obs) = None THEN Objections(6) = {}
           ELSE ArtifactRefusal(Store, obs).decision \in Objections(6)
    BY <1>1, <1>3, ShapeAnswers, ArtifactAnswers
  <1>7. ArtifactRefusal(Store, obs) = None => RisksOf(Store, obs) = {}
    BY <1>2, ArtifactPasses DEF RisksOf
  <1>8. RisksOf(Store, obs) = {} =>
          IF rule = None THEN NoRuleRefusal(obs).decision \in Objections(8)
          ELSE /\ Objections(8) = {}
               /\ LET verdict == RuleVerdict(rule, obs, {}).decision
                  IN  verdict # "EXECUTE" => verdict \in Objections(9)
    BY <1>3, PolicyAnswers
  <1>9. /\ Pong.decision = "APPROVED" /\ \A x : Decline(x).decision = x
        /\ Retryable("REASON_INVALID").decision = "REASON_INVALID"
    BY DEF Pong, Decline, Retryable
  <1>10. /\ 1..(1-1) = {} /\ 1..(2-1) = {1} /\ 1..(3-1) = {1, 2} /\ 1..(4-1) = {1, 2, 3}
         /\ 1..(5-1) = {1, 2, 3, 4} /\ 1..(6-1) = {1, 2, 3, 4, 5}
         /\ 1..(7-1) = {1, 2, 3, 4, 5, 6} /\ 1..(8-1) = {1, 2, 3, 4, 5, 6, 7}
         /\ 1..(9-1) = {1, 2, 3, 4, 5, 6, 7, 8}
    OBVIOUS
  <1>11. ClaimDenied(request, peer) => d \in Objections(1)
    BY <1>1, <1>4, <1>9 DEF Decide
  <1>12. ~ClaimDenied(request, peer) => reply = Process(rules, Clients, Store, obs)
    BY <1>1 DEF Decide
  <1> HIDE DEF obs, rules
  <1> DEFINE out == \/ d \in Objections(1) /\ before(1)
                    \/ d \in Objections(2) /\ before(2)
                    \/ d \in Objections(3) /\ before(3)
                    \/ d \in Objections(4) /\ before(4)
                    \/ d \in Objections(5) /\ before(5)
                    \/ d \in Objections(6) /\ before(6)
                    \/ d \in Objections(7) /\ before(7)
                    \/ d \in Objections(8) /\ before(8)
                    \/ d \in Objections(9) /\ before(9)
  <1>13. out
    <2>1. CASE ClaimDenied(request, peer)
      BY <1>10, <1>11, <2>1
    <2>2. CASE ~ClaimDenied(request, peer) /\ request.type = "ping"
      BY <1>2, <1>3, <1>4, <1>9, <1>10, <1>12, <2>2 DEF Process
    <2>3. CASE ~ClaimDenied(request, peer) /\ request.type # "ping" /\ request.schema # 1
      BY <1>2, <1>3, <1>4, <1>9, <1>10, <1>12, <2>3 DEF Process
    <2> DEFINE atTrust == ~ClaimDenied(request, peer) /\ request.type # "ping" /\ request.schema = 1
    <2>4. atTrust => before(4)
      BY <1>3, <1>4, <1>10
    <2>5. CASE atTrust /\ ~TrustMatch(Clients, obs)
      BY <1>2, <1>3, <1>5, <1>9, <1>12, <2>4, <2>5 DEF Process
    <2> DEFINE atShape == atTrust /\ TrustMatch(Clients, obs)
    <2>6. atShape => before(5)
      <3>1. atShape => Objections(4) = {}
        BY <1>3, <1>5
      <3> QED
        BY <1>10, <2>4, <3>1
    <2>7. CASE atShape /\ ShapeRefusal(obs) # None
      BY <1>2, <1>6, <1>12, <2>6, <2>7 DEF Process
    <2> DEFINE atArtifact == atShape /\ ShapeRefusal(obs) = None
    <2>8. atArtifact => before(6)
      BY <1>6, <1>10, <2>6
    <2>9. CASE atArtifact /\ ArtifactRefusal(Store, obs) # None
      BY <1>2, <1>6, <1>12, <2>8, <2>9 DEF Process
    <2> DEFINE atReason == atArtifact /\ ArtifactRefusal(Store, obs) = None
    <2>10. atReason => before(7)
      BY <1>6, <1>10, <2>8
    <2>11. CASE atReason /\ ~ReasonValid(request.reason, EffectOf(request))
      BY <1>2, <1>3, <1>9, <1>12, <2>10, <2>11 DEF Process
    <2> DEFINE atMatch == atReason /\ ReasonValid(request.reason, EffectOf(request))
    <2>12. atMatch => before(8)
      BY <1>3, <1>10, <2>10
    <2>13. CASE atMatch /\ rule = None
      BY <1>2, <1>7, <1>8, <1>12, <2>12, <2>13 DEF Process
    <2>14. CASE atMatch /\ rule # None
      <3>1. Objections(8) = {} /\ before(9)
        BY <1>7, <1>8, <1>10, <2>12, <2>14
      <3>2. reply = RuleVerdict(rule, obs, {})
        BY <1>2, <1>7, <1>12, <2>14 DEF Process
      <3> QED
        BY <1>7, <1>8, <2>14, <3>1, <3>2
    <2> QED
      BY <2>1, <2>2, <2>3, <2>5, <2>7, <2>9, <2>11, <2>13, <2>14
  <1>14. \A n \in Stages : d \in Objections(n) /\ before(n) =>
           \E stage \in Stages : /\ \A earlier \in 1..(stage - 1) : Objections(earlier) = {}
                                 /\ d \in Objections(stage)
    OBVIOUS
  <1>15. {1, 2, 3, 4, 5, 6, 7, 8, 9} \subseteq Stages
    BY DEF Stages
  <1> HIDE DEF before, d
  <1> QED
    BY <1>13, <1>14, <1>15 DEF d

\* Broker.process executes exactly the requests that satisfy the reference, and answers any other
\* with an objection of the first stage that has one: for any policy files, requests, clients,
\* artifacts and peers.
THEOREM DecisionsAreTheReference == Spec => []DecisionIsReference
  <1>1. Inv => DecisionIsReference
    BY ExecutedIsAdmitted, FirstObjection DEF DecisionIsReference
  <1> QED
    BY <1>1, InvInductive, PTL

\* A reason is all that a refused agent may change, and only its own check looks at it.
THEOREM RefusalsStand == Spec => RefusalStands
  <1> DEFINE stands == reply # None /\ reply.decision # "EXECUTE" /\ ~reply.retryable
                         => reply'.decision # "EXECUTE"
  <1>1. Inv /\ Inv' /\ [Next]_vars => [stands]_vars
    <2> SUFFICES ASSUME Inv, Next, reply # None, reply.decision # "EXECUTE",
                        reply'.decision = "EXECUTE"
                 PROVE  reply.retryable
      OBVIOUS
    <2>1. PICK reason \in Reasons : Submit([request EXCEPT !.reason = reason])
      BY DEF Next, Start, FirstSubmission, Resubmit, Inv
    <2> DEFINE again == [request EXCEPT !.reason = reason]
               rules == policy.rules
               old == ApplyObserved(request, peer)
               new == ApplyObserved(again, peer)
    <2>2. /\ request \in AnyRequest /\ again \in AnyRequest
          /\ reply = Decide(rules, Clients, Store, request, peer)
          /\ reply' = Decide(rules, Clients, Store, again, peer)
      BY <2>1 DEF Submit, Inv, AnyRequest
    <2> HIDE DEF rules, again
    <2>3. /\ again.type = request.type /\ again.schema = request.schema /\ again.cwd = request.cwd
          /\ again.client = request.client /\ again.exe = request.exe /\ again.argv = request.argv
          /\ again.env = request.env /\ again.artifact = request.artifact
          /\ again.artifactSHA = request.artifactSHA /\ again.peer = request.peer
      BY <2>2 DEF again, AnyRequest
    <2>4. /\ old.type = new.type /\ old.schema = new.schema /\ old.cwd = new.cwd
          /\ old.client = new.client /\ old.exe = new.exe /\ old.argv = new.argv
          /\ old.env = new.env /\ old.artifact = new.artifact
          /\ old.artifactSHA = new.artifactSHA /\ old.peer = new.peer
      BY <2>2, <2>3 DEF ApplyObserved, AnyRequest
    <2>5. ClaimDenied(again, peer) <=> ClaimDenied(request, peer)
      BY <2>3 DEF ClaimDenied
    <2> HIDE DEF old, new
    <2>6. ~ClaimDenied(request, peer)
      BY <2>2, <2>5 DEF Decide, Decline
    <2>7. /\ reply = Process(rules, Clients, Store, old)
          /\ Process(rules, Clients, Store, new).decision = "EXECUTE"
      BY <2>2, <2>5, <2>6 DEF Decide, old, new
    <2>8. TrustMatch(Clients, old) <=> TrustMatch(Clients, new)
      BY <2>4 DEF TrustMatch
    <2>9. ShapeRefusal(old) = ShapeRefusal(new)
      BY <2>4 DEF ShapeRefusal
    <2>10. ArtifactRefusal(Store, old) = ArtifactRefusal(Store, new)
      BY <2>4 DEF ArtifactRefusal
    <2>11. RisksOf(Store, old) = RisksOf(Store, new)
      BY <2>4 DEF RisksOf
    <2>12. MatchedRule(rules, Store, old) = MatchedRule(rules, Store, new)
      BY <2>4, <2>11 DEF MatchedRule, Match, RuleMatches
    <2>13. \A r, risks : RuleVerdict(r, old, risks) = RuleVerdict(r, new, risks)
      BY <2>4 DEF RuleVerdict, EffectOf, ShellDenied, DeniedEnv
    <2>14. ~ReasonValid(old.reason, EffectOf(old))
      BY <2>4, <2>7, <2>8, <2>9, <2>10, <2>11, <2>12, <2>13, EveryCheckPasses
    <2>15. reply = Retryable("REASON_INVALID")
      BY <2>4, <2>7, <2>8, <2>9, <2>10, <2>14, EveryCheckPasses DEF Process
    <2> QED
      BY <2>15 DEF Retryable, Decline
  <1> QED
    BY <1>1, InvInductive, PTL DEF Spec, RefusalStands

-----------------------------------------------------------------------------
\* REASON_INVALID comes from the check of the reason and from nowhere else.
LEMMA OnlyTheReasonIsInvalid ==
  ASSUME NEW rules, NEW clients, NEW store, NEW req,
         Process(rules, clients, store, req).decision = "REASON_INVALID"
  PROVE  /\ ~ReasonValid(req.reason, EffectOf(req))
         /\ Process(rules, clients, store, req) = Retryable("REASON_INVALID")
  <1> DEFINE rule == MatchedRule(rules, store, req)
             risks == RisksOf(store, req)
  <1>1. ShapeRefusal(req) = None \/ ShapeRefusal(req).decision # "REASON_INVALID"
    BY DEF ShapeRefusal, Decline
  <1>2. ArtifactRefusal(store, req) = None \/ ArtifactRefusal(store, req).decision # "REASON_INVALID"
    BY DEF ArtifactRefusal, Decline, Retryable
  <1>3. RuleVerdict(rule, req, risks).decision # "REASON_INVALID"
    <2> HIDE DEF rule, risks
    <2> QED
      BY DEF RuleVerdict, Decline, Execute
  <1>4. /\ Pong.decision # "REASON_INVALID" /\ NoRuleRefusal(req).decision # "REASON_INVALID"
        /\ \A d \in {"DENIED", "CLIENT_NOT_TRUSTED"} : Decline(d).decision # "REASON_INVALID"
    BY DEF Pong, NoRuleRefusal, Decline
  <1> HIDE DEF rule, risks
  <1> QED
    BY <1>1, <1>2, <1>3, <1>4 DEF Process, rule, risks

\* Whatever a command does, that a file is to be inspected is a valid reason for it.
LEMMA InspectionIsAReason ==
  ASSUME NEW reason, reason.len \in 18..400, ~reason.stock, reason.says = {"inspect", "file"},
         NEW effect
  PROVE  ReasonValid(reason, effect)
  <1>1. /\ Says(reason, OutcomeWords) /\ Says(reason, TargetWords)
        /\ ~Says(reason, {"validate", "verify", "check"})
        /\ ~Says(reason, {"install", "update", "delete", "remove", "erase"})
    BY DEF Says, OutcomeWords, TargetWords
  <1> QED
    BY <1>1 DEF ReasonValid

\* An agent that is told REASON_INVALID may retry, and there is a reason that gets past the
\* check, for every command and whatever else the broker has to say about it.
THEOREM ReasonsCanBeMended == Spec => []ReasonCanBeMended
  <1>1. Inv => ReasonCanBeMended
    <2> SUFFICES ASSUME Inv, reply # None, reply.decision = "REASON_INVALID"
                 PROVE  /\ reply.retryable
                        /\ \E reason \in Reasons :
                             Decide(policy.rules, Clients, Store,
                                    [request EXCEPT !.reason = reason], peer).decision
                               # "REASON_INVALID"
      BY DEF ReasonCanBeMended
    <2>1. reply = Decide(policy.rules, Clients, Store, request, peer) /\ request \in AnyRequest
      BY DEF Inv
    <2>2. reply = Process(policy.rules, Clients, Store, ApplyObserved(request, peer))
      BY <2>1 DEF Decide, Decline
    <2>3. reply.retryable
      BY <2>2, OnlyTheReasonIsInvalid DEF Retryable, Decline
    <2>4. PICK reason \in Reasons :
            reason.len \in 18..400 /\ ~reason.stock /\ reason.says = {"inspect", "file"}
      BY AgentsCanExplain
    <2> DEFINE again == [request EXCEPT !.reason = reason]
               seen == ApplyObserved(again, peer)
    <2>5. seen.reason = reason
      BY <2>1 DEF ApplyObserved, AnyRequest
    <2>6. ReasonValid(seen.reason, EffectOf(seen))
      BY <2>4, <2>5, InspectionIsAReason
    <2> HIDE DEF again, seen
    <2>7. Process(policy.rules, Clients, Store, seen).decision # "REASON_INVALID"
      BY <2>6, OnlyTheReasonIsInvalid
    <2>8. Decide(policy.rules, Clients, Store, again, peer).decision # "REASON_INVALID"
      BY <2>7 DEF Decide, Decline, seen
    <2> QED
      BY <2>3, <2>8 DEF again
  <1> QED
    BY <1>1, InvInductive, PTL
=============================================================================
