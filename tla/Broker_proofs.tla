---------------------------- MODULE Broker_proofs ----------------------------
(***************************************************************************)
(* Proofs about Broker.tla, for any numbers of connections, brokers and    *)
(* faults, any files, requests, peers and artifacts: its safety properties *)
(* and that it implements BrokeredExecution.                               *)
(*                                                                         *)
(* To the audit log a step of the broker is a step of AuditLog.tla or none *)
(* (StepOfLog), so that LogInv of AuditLog_proofs holds here too.  The     *)
(* rest of the invariant speaks of one connection at a time: what its      *)
(* handler is doing says what has become of its command, what its record   *)
(* holds or will hold, and what the client has been told.                  *)
(* The last two sections are what SendReturns rests on.                    *)
(***************************************************************************)
EXTENDS Broker, AuditLog_proofs

\* A handler is in Append while it logs, with the event it has decided on.
CallMatches(c) ==
  IF conn[c].pc = "logging"
  THEN /\ call[c].pc # "idle" /\ call[c].logger = conn[c].broker
       /\ call[c].entry = Event(c, conn[c].decision, conn[c].exit)
       /\ call[c].pc = "ok" => Piece(c, "line") \in acked
  ELSE call[c].pc = "idle"

\* Only what its own broker admits gets as far as a command.
Admitted(c) ==
  /\ conn[c].pc \in {"dialled", "accepted", "received", "starting", "running"}
       \/ command[c] # "none" => conn[c].broker \in 1..made
  /\ conn[c].pc = "received" => conn[c].peer # None /\ conn[c].req # None
  /\ conn[c].pc \in {"starting", "running"} \/ command[c] # "none" =>
       conn[c].peer # None /\ Verdict(c) = "EXECUTE"

\* Nothing is decided, and nobody told anything, before the command has ended.
Staged(c) ==
  /\ conn[c].pc \in {"free", "dialled", "accepted", "received", "starting", "running"}
       \/ command[c] \in {"running", "cut"} => conn[c].reply = None /\ conn[c].decision = None
  /\ conn[c].pc \in {"free", "dialled", "accepted", "received", "starting"} => command[c] = "none"
  /\ conn[c].pc = "running" => command[c] = "running"
  /\ command[c] = "running" => conn[c].pc \in {"running", "dead"}
  /\ conn[c].pc = "logging" => conn[c].reply = None /\ conn[c].decision # None

\* What is decided is what has happened.
Decided(c) ==
  /\ conn[c].decision \in Refusals \cup {"APPROVED", None}
  /\ conn[c].decision = "APPROVED" =>
       /\ conn[c].exit \in ExitCodes
       /\ command[c] = "ended" \/ (command[c] = "none" /\ (conn[c].exit = 127 \/ IsPing(c)))
  /\ conn[c].decision \in Refusals => conn[c].exit = None /\ command[c] = "none"

\* What is told is what was decided, or that the audit has failed.
Told(c) ==
  /\ conn[c].reply = "APPROVED" =>
       /\ conn[c].decision = "APPROVED"
       /\ \E p \in acked : p.entry = Event(c, "APPROVED", conn[c].exit) /\ p.shape = "line"
  /\ conn[c].reply \in Refusals \cup {"BROKER_UNAVAILABLE"} => command[c] = "none"
  /\ conn[c].reply # None /\ conn[c].decision # None =>
       conn[c].reply \in {conn[c].decision, "AUDIT_FAILED"}

ConnOK(c) == CallMatches(c) /\ Admitted(c) /\ Staged(c) /\ Decided(c) /\ Told(c)

\* Every record is that of a connection whose decision has been made.
RecordsMatch ==
  \A i \in DOMAIN file : \E c \in Callers :
    conn[c].decision # None /\ file[i].entry = Event(c, conn[c].decision, conn[c].exit)

\* The inductive invariant.
BrokerInv ==
  /\ LogInv /\ TypeOK
  /\ disk \in [policy : PolicyFiles, trust : TrustFiles] /\ DOMAIN booted = Loggers
  /\ \A c \in Callers : ConnOK(c)
  /\ RecordsMatch

-----------------------------------------------------------------------------
(***************************************************************************)
(* The decision, of which only its range matters here.                     *)
(***************************************************************************)
\* Process executes, answers a ping, or refuses.
LEMMA ProcessRange ==
  ASSUME NEW rules, NEW clients, NEW req
  PROVE  /\ Process(rules, clients, Store, req).decision \in {"EXECUTE", "APPROVED"} \cup Refusals
         /\ Process(rules, clients, Store, req).decision = "APPROVED" => req.type = "ping"
  <1> DEFINE known(reply) == reply.decision \in {"EXECUTE"} \cup Refusals
  <1>1. \A d \in Refusals : known(Decline(d)) /\ known(Retryable(d))
    BY DEF Decline, Retryable
  <1>2. ShapeRefusal(req) = None \/ known(ShapeRefusal(req))
    BY <1>1 DEF ShapeRefusal, Refusals
  <1>3. ArtifactRefusal(Store, req) = None \/ known(ArtifactRefusal(Store, req))
    BY <1>1 DEF ArtifactRefusal, Refusals
  <1>4. known(NoRuleRefusal(req))
    BY <1>1 DEF NoRuleRefusal, Refusals
  <1>5. ASSUME NEW rule, NEW risks PROVE known(RuleVerdict(rule, req, risks))
    BY DEF RuleVerdict, Decline, Execute, Refusals
  <1>6. Pong.decision = "APPROVED" /\ "APPROVED" \notin {"EXECUTE"} \cup Refusals
    BY DEF Pong, Refusals
  <1>7. CASE req.type = "ping"
    BY <1>6, <1>7 DEF Process
  <1>8. CASE req.type # "ping"
    <2>1. known(Process(rules, clients, Store, req))
      <3> DEFINE rule == MatchedRule(rules, Store, req)
      <3>1. known(Decline("DENIED")) /\ known(Decline("CLIENT_NOT_TRUSTED"))
            /\ known(Retryable("REASON_INVALID"))
        BY <1>1 DEF Refusals
      <3> HIDE DEF known, rule
      <3> QED
        BY <1>2, <1>3, <1>4, <1>5, <1>8, <3>1 DEF Process, rule
    <2> QED
      BY <1>6, <1>8, <2>1
  <1> QED
    BY <1>7, <1>8

\* So does the decision with what the broker has observed of its peer.
LEMMA VerdictRange ==
  ASSUME NEW c \in Callers, conn[c].req \in Requests
  PROVE  /\ Verdict(c) \in {"EXECUTE", "APPROVED"} \cup Refusals
         /\ Verdict(c) = "APPROVED" => IsPing(c)
  <1> DEFINE req == conn[c].req
             obs == ApplyObserved(req, conn[c].peer)
  <1>1. obs.type = req.type
    BY RequestsAreRecords DEF ApplyObserved
  <1>2. Decline("CLIENT_NOT_TRUSTED").decision = "CLIENT_NOT_TRUSTED"
    BY DEF Decline
  <1> HIDE DEF obs
  <1>3. ASSUME NEW rules, NEW clients
        PROVE  LET d == Decide(rules, clients, Store, req, conn[c].peer).decision
               IN  d \in {"EXECUTE", "APPROVED"} \cup Refusals /\ (d = "APPROVED" => req.type = "ping")
    BY <1>1, <1>2, ProcessRange DEF Decide, Refusals, obs
  <1> QED
    BY <1>3 DEF Verdict, IsPing

-----------------------------------------------------------------------------
(***************************************************************************)
(* The broker's steps as steps of the audit log.                           *)
(***************************************************************************)
\* auditEventFrom makes an event of every decision.
LEMMA EventType ==
  ASSUME NEW c \in Callers, NEW d \in Refusals \cup {"APPROVED"}, NEW x,
         IF d = "APPROVED" THEN x \in ExitCodes ELSE x = None
  PROVE  Event(c, d, x) \in Events
  BY DEF Events

\* What a handler gives to Append.
LEMMA HandlersLog ==
  ASSUME BrokerInv, NEW c \in Callers, Refuse(c) \/ StartFails(c) \/ CommandEnds(c)
  PROVE  \E d \in Refusals \cup {"APPROVED"}, x \in ExitCodes \cup {None} :
           /\ Log(c, d, x) /\ IF d = "APPROVED" THEN x \in ExitCodes ELSE x = None
           /\ Refuse(c) => d = Verdict(c) /\ (d = "APPROVED" => IsPing(c))
           /\ StartFails(c) => d = "APPROVED" /\ x = 127
           /\ CommandEnds(c) => d = "APPROVED"
  <1>1. CASE Refuse(c)
    <2>1. conn[c].req \in Requests
      BY <1>1 DEF Refuse, BrokerInv, ConnOK, Admitted, TypeOK
    <2>2. Verdict(c) \in Refusals \cup {"APPROVED"} /\ (Verdict(c) = "APPROVED" => IsPing(c))
      BY <1>1, <2>1, VerdictRange DEF Refuse
    <2>3. ~StartFails(c) /\ ~CommandEnds(c)
      BY <1>1 DEF Refuse, StartFails, CommandEnds
    <2> QED
      BY <1>1, <2>2, <2>3, SuccessIsAnExitCode DEF Refuse
  <1>2. CASE StartFails(c)
    <2>1. ~Refuse(c) /\ ~CommandEnds(c)
      BY <1>2 DEF Refuse, StartFails, CommandEnds
    <2> QED
      BY <1>2, <2>1, SuccessIsAnExitCode DEF StartFails
  <1>3. CASE CommandEnds(c)
    <2>1. ~Refuse(c) /\ ~StartFails(c)
      BY <1>3 DEF Refuse, StartFails, CommandEnds
    <2> QED
      BY <1>3, <2>1 DEF CommandEnds
  <1> QED
    BY <1>1, <1>2, <1>3

\* And a call of Append it is.
LEMMA LogIsCall ==
  ASSUME BrokerInv, NEW c \in Callers, NEW d \in Refusals \cup {"APPROVED"}, NEW x,
         IF d = "APPROVED" THEN x \in ExitCodes ELSE x = None, Log(c, d, x)
  PROVE  LogNext
  <1>1. Event(c, d, x) \in Entries /\ conn[c].broker \in Loggers
    BY EventType, EventsAreEntries DEF BrokerInv, TypeOK
  <1> QED
    BY <1>1 DEF Log, LogNext

\* A step of the broker is to the log one of its own steps, or none.
LEMMA StepOfLog == BrokerInv /\ [Next]_vars => [LogNext]_logVars
  <1> SUFFICES ASSUME BrokerInv, [Next]_vars PROVE [LogNext]_logVars
    OBVIOUS
  <1>1. CASE New
    BY <1>1 DEF New, LogNext
  <1>2. ASSUME NEW b \in Loggers, Exit(b) PROVE LogNext
    BY <1>2 DEF Exit, LogNext
  <1>3. CASE MachineStops
    BY <1>3 DEF MachineStops, PowerOff, LogNext
  <1>4. ASSUME NEW c \in Callers, Refuse(c) \/ StartFails(c) \/ CommandEnds(c) PROVE LogNext
    BY <1>4, HandlersLog, LogIsCall
  <1>5. ASSUME NEW c \in Callers, Logged(c) PROVE LogNext
    BY <1>5 DEF Logged, LogNext
  <1>6. ASSUME NEW c \in Callers, LogStep(c) PROVE LogNext
    BY <1>6 DEF LogStep, LogNext
  <1>7. CASE EditDisk \/ \E b \in Loggers : Serve(b) \/ ServeFails(b) \/ StopServing(b)
    BY <1>7 DEF EditDisk, Serve, ServeFails, StopServing
  <1>8. ASSUME NEW c \in Callers,
               \/ Dial(c) \/ DialFails(c) \/ Garbage(c) \/ Accept(c) \/ Receive(c) \/ Approve(c)
               \/ Start(c) \/ Reply(c) \/ OrphanEnds(c)
        PROVE  UNCHANGED logVars
    BY <1>8 DEF Dial, DialFails, Garbage, Accept, Receive, Approve, Start, Reply, OrphanEnds
  <1>9. CASE UNCHANGED vars
    BY <1>9 DEF vars, logVars
  <1> QED
    BY <1>1, <1>2, <1>3, <1>4, <1>5, <1>6, <1>7, <1>8, <1>9 DEF Next, Exchange, Handle

\* Hence the invariant of the log.
LEMMA StepLogInv == BrokerInv /\ [Next]_vars => LogInv'
  BY StepOfLog, LogNext_LogInv DEF BrokerInv

\* What the log's steps do to the records: they come from callers that write, and what is
\* acknowledged stays so.
LEMMA WhereRecordsComeFrom ==
  ASSUME LogInv, [LogNext]_logVars
  PROVE  /\ acked \subseteq acked' /\ made <= made' /\ made \in Nat /\ made' \in Nat
         /\ \A i \in DOMAIN file' :
              \/ \E j \in DOMAIN file : file'[i].entry = file[j].entry
              \/ \E c \in Callers : call[c].pc = "writing" /\ file'[i].entry = call[c].entry
  <1>1. /\ file \in Seq(Pieces) /\ DOMAIN file = 1..Len(file) /\ Len(file) \in Nat /\ made \in Nat
    BY LenProperties DEF LogInv, LogTypeOK
  <1>2. CASE NewLogger
    BY <1>1, <1>2 DEF NewLogger
  <1>3. CASE \E c \in Callers, l \in Loggers, e \in Entries : Call(c, l, e)
    BY <1>1, <1>3 DEF Call
  <1>4. ASSUME NEW c \in Callers, NEW shape \in {"line", "unended", "torn"},
               call[c].pc = "writing", file' = Append(file, Piece(c, shape)),
               made' = made, acked' = acked
        PROVE  /\ acked \subseteq acked' /\ made <= made' /\ made' \in Nat
               /\ \A i \in DOMAIN file' :
                    \/ \E j \in DOMAIN file : file'[i].entry = file[j].entry
                    \/ \E d \in Callers : call[d].pc = "writing" /\ file'[i].entry = call[d].entry
    <2>1. Piece(c, shape) \in Pieces /\ Piece(c, shape).entry = call[c].entry
      BY <1>4, PieceType DEF Piece
    <2>2. /\ DOMAIN file' = 1..Len(file) + 1 /\ \A i \in 1..Len(file) : file'[i] = file[i]
          /\ file'[Len(file) + 1] = Piece(c, shape)
      BY <1>1, <1>4, <2>1, Appended
    <2> QED
      BY <1>1, <1>4, <2>1, <2>2
  <1>5. ASSUME NEW c \in Callers, AppendStep(c) \/ Collect(c)
        PROVE  /\ acked \subseteq acked' /\ made <= made' /\ made' \in Nat
               /\ \A i \in DOMAIN file' :
                    \/ \E j \in DOMAIN file : file'[i].entry = file[j].entry
                    \/ \E d \in Callers : call[d].pc = "writing" /\ file'[i].entry = call[d].entry
    <2>1. CASE WriteLine(c)
      BY <1>4, <2>1 DEF WriteLine
    <2>2. CASE WriteFails(c)
      <3>1. CASE file' = file
        BY <1>1, <2>2, <3>1 DEF WriteFails
      <3>2. CASE \E shape \in Cuts("line") : file' = Append(file, Piece(c, shape))
        BY <1>4, <2>2, <3>2 DEF WriteFails, Cuts
      <3> QED
        BY <2>2, <3>1, <3>2 DEF WriteFails
    <2>3. CASE Sync(c)
      BY <1>1, <2>3 DEF Sync
    <2>4. CASE Acquire(c) \/ DirFails(c) \/ Number(c) \/ SyncFails(c) \/ Collect(c)
      BY <1>1, <2>4 DEF Acquire, DirFails, Number, SyncFails, Collect
    <2> QED
      BY <1>5, <2>1, <2>2, <2>3, <2>4 DEF AppendStep
  <1>6. ASSUME NEW l \in Loggers, Kill(l)
        PROVE  /\ acked \subseteq acked' /\ made <= made' /\ made' \in Nat
               /\ \A i \in DOMAIN file' :
                    \/ \E j \in DOMAIN file : file'[i].entry = file[j].entry
                    \/ \E d \in Callers : call[d].pc = "writing" /\ file'[i].entry = call[d].entry
    <2>1. CASE file' = file
      BY <1>1, <1>6, <2>1 DEF Kill
    <2>2. CASE \E c \in Callers, shape \in Cuts("line") :
                 call[c].pc = "writing" /\ file' = Append(file, Piece(c, shape))
      BY <1>4, <1>6, <2>2 DEF Kill, Cuts
    <2> QED
      BY <1>6, <2>1, <2>2 DEF Kill
  <1>7. CASE PowerLoss
    <2>1. /\ Len(file') \in Nat /\ DOMAIN file' = 1..Len(file') /\ Len(file') <= Len(file)
          /\ \A i \in DOMAIN file' : file'[i].entry = file[i].entry
      BY <1>1, <1>7, PowerLoss_File DEF LogInv, LogTypeOK
    <2> QED
      BY <1>1, <1>7, <2>1 DEF PowerLoss
  <1>8. CASE UNCHANGED logVars
    BY <1>1, <1>8 DEF logVars
  <1> QED
    BY <1>1, <1>2, <1>3, <1>5, <1>6, <1>7, <1>8 DEF LogNext

-----------------------------------------------------------------------------
(***************************************************************************)
(* What stays.                                                             *)
(***************************************************************************)
Conns ==
  [pc : Pcs, broker : Loggers, peer : Peers \cup {None}, req : Requests \cup {None},
   decision : Replies \cup {None}, exit : ExitCodes \cup {None}, reply : Replies \cup {None}]

\* A step keeps what is acknowledged, and what the brokers made so far have loaded.
LEMMA StepKeeps ==
  ASSUME BrokerInv, [Next]_vars
  PROVE  /\ acked \subseteq acked' /\ made <= made' /\ made \in Nat /\ made' \in Nat
         /\ DOMAIN booted' = Loggers /\ \A b \in 1..made : booted'[b] = booted[b]
  <1>1. /\ acked \subseteq acked' /\ made <= made' /\ made \in Nat /\ made' \in Nat
    BY StepOfLog, WhereRecordsComeFrom DEF BrokerInv
  <1>2. CASE New
    BY <1>1, <1>2 DEF New, BrokerInv
  <1>3. CASE ~New
    <2>1. booted' = booted
      BY <1>3 DEF Next, vars, EditDisk, MachineStops, PowerOff, Serve, ServeFails, StopServing, Exit,
             Exchange, Handle, Dial, DialFails, Garbage, Accept, Receive, Approve, Refuse,
             StartFails, Start, Logged, Reply, CommandEnds, OrphanEnds, LogStep, brokerVars
    <2> QED
      BY <1>1, <2>1 DEF BrokerInv
  <1> QED
    BY <1>1, <1>2, <1>3

\* A connection that a step leaves alone stays as it should be.
LEMMA Untouched ==
  ASSUME BrokerInv, [Next]_vars, NEW d \in Callers, conn'[d] = conn[d], command'[d] = command[d],
         call'[d] = call[d] \/ (call[d].pc = "idle" /\ call'[d].pc = "idle")
  PROVE  ConnOK(d)'
  <1>1. acked \subseteq acked' /\ 1..made \subseteq 1..made' /\ \A b \in 1..made : booted'[b] = booted[b]
    BY StepKeeps
  <1>2. CallMatches(d)'
    BY <1>1 DEF BrokerInv, ConnOK, CallMatches, Piece
  <1>3. Admitted(d)'
    <2>1. conn[d].broker \in 1..made => Verdict(d)' = Verdict(d)
      BY <1>1 DEF Verdict
    <2> QED
      BY <1>1, <2>1 DEF BrokerInv, ConnOK, Admitted
  <1>4. Staged(d)' /\ Decided(d)'
    BY DEF BrokerInv, ConnOK, Staged, Decided, IsPing
  <1>5. Told(d)'
    BY <1>1 DEF BrokerInv, ConnOK, Told
  <1> QED
    BY <1>2, <1>3, <1>4, <1>5 DEF ConnOK

\* A step of one connection need be looked at for that connection only.
LEMMA OneAtATime ==
  ASSUME BrokerInv, [Next]_vars, NEW c \in Callers, ConnOK(c)',
         \A d \in Callers \ {c} :
           conn'[d] = conn[d] /\ command'[d] = command[d] /\ call'[d] = call[d]
  PROVE  \A d \in Callers : ConnOK(d)'
  BY Untouched

-----------------------------------------------------------------------------
(***************************************************************************)
(* The steps of a connection, each with what it makes of the connection.   *)
(***************************************************************************)
\* The types that the steps need.
LEMMA ConnTypes ==
  ASSUME BrokerInv
  PROVE  /\ conn \in [Callers -> Conns] /\ call \in [Callers -> Calls]
         /\ command \in [Callers -> {"none", "running", "ended", "cut"}]
         /\ socket \in 0..made /\ 1..made \subseteq Loggers
  BY AuditBounds DEF BrokerInv, TypeOK, Conns, LogInv, LogTypeOK, Loggers

\* Steps that leave the log and the command alone: no answer is given up, no verdict
\* is changed.
LEMMA QuietStep ==
  ASSUME BrokerInv, [Next]_vars, NEW c \in Callers, NEW k \in Conns,
         conn' = [conn EXCEPT ![c] = k], UNCHANGED <<command, logVars>>,
         k.decision = conn[c].decision, k.exit = conn[c].exit, k.pc # "logging", conn[c].pc # "logging",
         k.pc \in {"free", "dialled", "accepted", "received", "starting"} => command[c] = "none",
         k.pc = "running" <=> conn[c].pc = "running",
         k.pc \in {"free", "dialled", "accepted", "received", "starting", "running"} =>
           k.reply = None /\ k.decision = None,
         k.reply # conn[c].reply =>
           /\ k.reply \in Refusals \cup {"BROKER_UNAVAILABLE"} /\ command[c] = "none"
           /\ conn[c].decision = None,
         k.pc \in {"dialled", "accepted", "received", "starting", "running"} => k.broker \in 1..made,
         k.pc = "received" => k.peer # None /\ k.req # None,
         k.pc = "starting" => k.peer # None /\ Verdict(c)' = "EXECUTE",
         k.pc = "running" \/ command[c] # "none" =>
           k.peer = conn[c].peer /\ k.req = conn[c].req /\ k.broker = conn[c].broker,
         conn[c].decision # None => k.req = conn[c].req,
         command[c] = "running" => k.pc \in {"running", "dead"}
  PROVE  ConnOK(c)' /\ conn' \in [Callers -> Conns] /\ \A d \in Callers : ConnOK(d)'
  <1>1. /\ conn \in [Callers -> Conns] /\ conn'[c] = k /\ \A d \in Callers \ {c} : conn'[d] = conn[d]
        /\ conn' \in [Callers -> Conns]
    BY ConnTypes
  <1>2. CallMatches(c)'
    BY <1>1 DEF BrokerInv, ConnOK, CallMatches, logVars
  <1>3. \A b \in 1..made : booted'[b] = booted[b]
    BY StepKeeps
  <1>4. Admitted(c)'
    <2>1. made' = made /\ command'[c] = command[c]
      BY DEF logVars
    <2>2. k.pc = "running" \/ command[c] # "none" => conn[c].broker \in 1..made /\ conn[c].peer # None
            /\ Verdict(c) = "EXECUTE"
      BY DEF BrokerInv, ConnOK, Admitted
    <2>3. k.pc = "running" \/ command[c] # "none" => Verdict(c)' = Verdict(c)
      BY <1>1, <1>3, <2>2 DEF Verdict
    <2> QED
      BY <1>1, <2>1, <2>2, <2>3 DEF Admitted
  <1>5. Staged(c)'
    BY <1>1 DEF BrokerInv, ConnOK, Staged
  <1>6. Decided(c)'
    <2>1. IsPing(c) /\ conn[c].decision # None => IsPing(c)'
      BY <1>1 DEF IsPing
    <2> QED
      BY <1>1, <2>1, NoneIsNoReply DEF BrokerInv, ConnOK, Decided, Refusals, Replies
  <1>7. Told(c)'
    BY <1>1, NoneIsNoReply DEF BrokerInv, ConnOK, Told, logVars, Refusals, Replies
  <1>8. ConnOK(c)'
    BY <1>2, <1>4, <1>5, <1>6, <1>7 DEF ConnOK
  <1>9. \A d \in Callers \ {c} :
          conn'[d] = conn[d] /\ command'[d] = command[d] /\ call'[d] = call[d]
    BY <1>1 DEF logVars
  <1> QED
    BY <1>1, <1>8, <1>9, OneAtATime

\* Those steps: dialling, accepting, reading, approving, and what ends a connection early.
LEMMA Quiet ==
  ASSUME BrokerInv, [Next]_vars, NEW c \in Callers,
         Dial(c) \/ DialFails(c) \/ Garbage(c) \/ Accept(c) \/ Receive(c) \/ Approve(c) \/ Reply(c)
  PROVE  conn' \in [Callers -> Conns] /\ \A d \in Callers : ConnOK(d)'
  <1> DEFINE old == conn[c]
  <1>1. /\ old \in Conns /\ old = [f \in DOMAIN old |-> old[f]]
        /\ socket \in 0..made /\ 1..made \subseteq Loggers
    BY ConnTypes DEF Conns
  <1>2. Admitted(c) /\ Staged(c)
    BY DEF BrokerInv, ConnOK
  <1>3. CASE Dial(c)
    <2>1. PICK req \in Requests \cup {None} :
            conn' = [conn EXCEPT ![c] = [old EXCEPT !.pc = "dialled", !.broker = socket, !.req = req]]
      BY <1>3, ConnTypes DEF Dial, Conns
    <2>2. old.pc = "free" /\ socket \in 1..made /\ socket \in Loggers /\ UNCHANGED <<command, logVars>>
      BY <1>1, <1>3, StepKeeps DEF Dial
    <2>3. PICK k \in Conns :
            /\ k.pc = "dialled" /\ k.broker = socket /\ k.req = req
            /\ k.decision = old.decision /\ k.exit = old.exit /\ k.reply = old.reply /\ k.peer = old.peer
            /\ k = [old EXCEPT !.pc = "dialled", !.broker = socket, !.req = req]
      BY <1>1, <2>2 DEF Conns, Pcs, Open
    <2>4. conn' = [conn EXCEPT ![c] = k]
      BY <2>1, <2>3
    <2> QED
      BY <1>2, <2>2, <2>3, <2>4, QuietStep DEF Staged
  <1>4. ASSUME NEW k \in Conns, conn' = [conn EXCEPT ![c] = k], UNCHANGED <<command, booted, logVars>>,
               k.broker = old.broker, k.req = old.req, k.decision = old.decision, k.exit = old.exit,
               \/ /\ old.pc = "free" /\ k.pc = "closed" /\ k.reply = "BROKER_UNAVAILABLE"
                  /\ k.peer = old.peer
               \/ old.pc = "dialled" /\ k.pc = "accepted" /\ k.reply = old.reply
               \/ /\ old.pc = "accepted" /\ k.pc = "replying" /\ k.peer = old.peer
                  /\ k.reply \in {"DENIED", "CLIENT_NOT_TRUSTED"}
               \/ /\ old.pc = "accepted" /\ k.pc = "received" /\ k.reply = old.reply
                  /\ k.peer = old.peer /\ k.peer # None /\ k.req # None
               \/ /\ old.pc = "received" /\ k.pc = "starting" /\ k.reply = old.reply
                  /\ k.peer = old.peer /\ Verdict(c) = "EXECUTE"
               \/ old.pc = "replying" /\ k.pc = "closed" /\ k.reply = old.reply /\ k.peer = old.peer
        PROVE  conn' \in [Callers -> Conns] /\ \A d \in Callers : ConnOK(d)'
    <2>1. k.peer = old.peer => Verdict(c)' = Verdict(c)
      BY <1>1, <1>4, ConnTypes DEF Verdict
    <2> QED
      BY <1>2, <1>4, <2>1, QuietStep DEF Staged, Admitted, Refusals
  <1>5. CASE DialFails(c)
    <2> DEFINE k == [old EXCEPT !.pc = "closed", !.reply = "BROKER_UNAVAILABLE"]
    <2>1. k \in Conns /\ conn' = [conn EXCEPT ![c] = k]
      BY <1>1, <1>5, ConnTypes DEF DialFails, Conns, Pcs, Replies
    <2> QED
      BY <1>1, <1>4, <1>5, <2>1 DEF DialFails, Conns
  <1>6. CASE Accept(c)
    <2>1. PICK p \in Peers : conn' = [conn EXCEPT ![c] = [old EXCEPT !.pc = "accepted", !.peer = p]]
      BY <1>6, ConnTypes DEF Accept, Conns
    <2> DEFINE k == [old EXCEPT !.pc = "accepted", !.peer = p]
    <2>2. k \in Conns /\ conn' = [conn EXCEPT ![c] = k]
      BY <1>1, <2>1 DEF Conns, Pcs, Open
    <2> QED
      BY <1>1, <1>4, <1>6, <2>2 DEF Accept, Conns
  <1>7. ASSUME NEW reply \in {"DENIED", "CLIENT_NOT_TRUSTED"}, Answer(c, reply), old.pc = "accepted",
               UNCHANGED <<command, booted, logVars>>
        PROVE  conn' \in [Callers -> Conns] /\ \A d \in Callers : ConnOK(d)'
    <2> DEFINE k == [old EXCEPT !.pc = "replying", !.reply = reply]
    <2>1. k \in Conns /\ conn' = [conn EXCEPT ![c] = k]
      BY <1>1, <1>7, ConnTypes DEF Answer, Conns, Pcs, Open, Replies, Refusals
    <2> QED
      BY <1>1, <1>4, <1>7, <2>1 DEF Conns
  <1>8. ASSUME NEW pc \in {"received", "starting", "closed"}, Moved(c, pc),
               UNCHANGED <<command, booted, logVars>>,
               \/ old.pc = "accepted" /\ pc = "received" /\ old.peer # None /\ old.req # None
               \/ old.pc = "received" /\ pc = "starting" /\ Verdict(c) = "EXECUTE"
               \/ old.pc = "replying" /\ pc = "closed"
        PROVE  conn' \in [Callers -> Conns] /\ \A d \in Callers : ConnOK(d)'
    <2> DEFINE k == [old EXCEPT !.pc = pc]
    <2>1. k \in Conns /\ conn' = [conn EXCEPT ![c] = k]
      BY <1>1, <1>8, ConnTypes DEF Moved, Conns, Pcs, Open
    <2> QED
      BY <1>1, <1>4, <1>8, <2>1 DEF Conns
  <1>9. CASE Garbage(c)
    BY <1>7, <1>9 DEF Garbage
  <1>10. CASE Receive(c)
    BY <1>7, <1>8, <1>10 DEF Receive
  <1>11. CASE Approve(c)
    BY <1>8, <1>11 DEF Approve
  <1>12. CASE Reply(c)
    BY <1>8, <1>12 DEF Reply
  <1> QED
    BY <1>3, <1>5, <1>6, <1>9, <1>10, <1>11, <1>12

\* The command is started by what the broker admits, and ends unheard if its broker is gone.
LEMMA CommandStep ==
  ASSUME BrokerInv, [Next]_vars, NEW c \in Callers, Start(c) \/ OrphanEnds(c)
  PROVE  conn' \in [Callers -> Conns] /\ \A d \in Callers : ConnOK(d)'
  <1> DEFINE old == conn[c]
  <1>1. old \in Conns /\ \A b \in 1..made : booted'[b] = booted[b]
    BY ConnTypes, StepKeeps
  <1>2. ConnOK(c)
    BY DEF BrokerInv
  <1>3. CASE Start(c)
    <2>1. PICK k \in Conns :
            /\ k.pc = "running" /\ k.broker = old.broker /\ k.req = old.req /\ k.peer = old.peer
            /\ k.decision = old.decision /\ k.exit = old.exit /\ k.reply = old.reply
            /\ k = [old EXCEPT !.pc = "running"]
      BY <1>1 DEF Conns, Pcs, Open
    <2>2. conn' = [conn EXCEPT ![c] = k]
      BY <1>3, <2>1, ConnTypes DEF Start, Moved
    <2>3. /\ conn' \in [Callers -> Conns] /\ conn'[c] = k /\ command'[c] = "running"
          /\ UNCHANGED <<call, acked, made>> /\ old.pc = "starting"
          /\ \A d \in Callers \ {c} : conn'[d] = conn[d] /\ command'[d] = command[d]
      BY <1>3, <2>2, ConnTypes DEF Start, logVars
    <2>4. Verdict(c)' = Verdict(c)
      BY <1>1, <1>2, <2>1, <2>3 DEF Verdict, ConnOK, Admitted
    <2>5. CallMatches(c)' /\ Admitted(c)'
      BY <1>2, <2>1, <2>3, <2>4 DEF ConnOK, CallMatches, Admitted
    <2>6. Staged(c)' /\ Decided(c)' /\ Told(c)'
      BY <1>2, <2>1, <2>3, NoneIsNoReply DEF ConnOK, Staged, Decided, Told, Refusals, Replies
    <2> QED
      BY <2>3, <2>5, <2>6, OneAtATime DEF ConnOK
  <1>4. CASE OrphanEnds(c)
    <2>1. /\ conn' = conn /\ command'[c] = "ended" /\ UNCHANGED <<booted, call, acked, made>>
          /\ old.pc = "dead" /\ command[c] = "running"
          /\ \A d \in Callers \ {c} : command'[d] = command[d]
      BY <1>4, ConnTypes DEF OrphanEnds, logVars
    <2>2. CallMatches(c)' /\ Admitted(c)'
      BY <1>2, <2>1 DEF ConnOK, CallMatches, Admitted, Verdict
    <2>3. Staged(c)' /\ Decided(c)' /\ Told(c)'
      BY <1>2, <2>1, NoneIsNoReply DEF ConnOK, Staged, Decided, Told, Refusals, Replies
    <2> QED
      BY <2>1, <2>2, <2>3, ConnTypes, OneAtATime DEF ConnOK
  <1> QED
    BY <1>3, <1>4

\* A decision goes to the log, with the command ended or never started.
LEMMA DecisionStep ==
  ASSUME BrokerInv, [Next]_vars, NEW c \in Callers, Refuse(c) \/ StartFails(c) \/ CommandEnds(c)
  PROVE  conn' \in [Callers -> Conns] /\ \A d \in Callers : ConnOK(d)'
  <1> DEFINE old == conn[c]
  <1>1. old \in Conns /\ \A b \in 1..made : booted'[b] = booted[b]
    BY ConnTypes, StepKeeps
  <1>2. ConnOK(c) /\ UNCHANGED <<acked, made>>
    BY DEF BrokerInv, Refuse, StartFails, CommandEnds, Log, Call
  <1>3. PICK d \in Refusals \cup {"APPROVED"}, x \in ExitCodes \cup {None} :
          /\ Log(c, d, x) /\ IF d = "APPROVED" THEN x \in ExitCodes ELSE x = None
          /\ Refuse(c) => d = Verdict(c) /\ (d = "APPROVED" => IsPing(c))
          /\ StartFails(c) => d = "APPROVED" /\ x = 127
          /\ CommandEnds(c) => d = "APPROVED"
    BY HandlersLog
  <1>4. PICK k \in Conns :
          /\ k.pc = "logging" /\ k.decision = d /\ k.exit = x
          /\ k.broker = old.broker /\ k.req = old.req /\ k.peer = old.peer /\ k.reply = old.reply
          /\ k = [old EXCEPT !.pc = "logging", !.decision = d, !.exit = x]
    BY <1>1 DEF Conns, Pcs, Open, Replies
  <1>5. /\ conn' \in [Callers -> Conns] /\ conn'[c] = k
        /\ \A e \in Callers \ {c} : conn'[e] = conn[e] /\ call'[e] = call[e]
        /\ call'[c] = [pc |-> "waiting", logger |-> old.broker, entry |-> Event(c, d, x), number |-> 0]
    <2>1. conn' = [conn EXCEPT ![c] = k]
      BY <1>3, <1>4, ConnTypes DEF Log
    <2>2. call' = [call EXCEPT ![c] = [pc |-> "waiting", logger |-> old.broker,
                                       entry |-> Event(c, d, x), number |-> 0]]
      BY <1>3 DEF Log, Call
    <2>3. conn' \in [Callers -> Conns] /\ conn'[c] = k /\ \A e \in Callers \ {c} : conn'[e] = conn[e]
      BY <2>1, ConnTypes
    <2> QED
      BY <2>2, <2>3, ConnTypes
  <1>6. /\ \A e \in Callers \ {c} : command'[e] = command[e]
        /\ CASE CommandEnds(c) -> old.pc = "running" /\ command'[c] = "ended"
             [] OTHER -> old.pc \in {"received", "starting"} /\ command'[c] = command[c]
    BY ConnTypes DEF Refuse, StartFails, CommandEnds
  <1>7. CallMatches(c)'
    BY <1>4, <1>5 DEF CallMatches
  <1>8. old.pc \in {"received", "starting"} => command[c] = "none"
    BY <1>2 DEF ConnOK, Staged
  <1>9. Admitted(c)'
    <2>1. conn[c].broker \in 1..made => Verdict(c)' = Verdict(c)
      BY <1>1, <1>4, <1>5 DEF Verdict
    <2> QED
      BY <1>2, <1>4, <1>5, <1>6, <1>8, <2>1 DEF ConnOK, Admitted
  <1>10. Staged(c)'
    BY <1>2, <1>4, <1>5, <1>6, <1>8, NoneIsNoReply DEF ConnOK, Staged, Replies
  <1>11. Decided(c)'
    <2>1. IsPing(c)' = IsPing(c)
      BY <1>4, <1>5 DEF IsPing
    <2>2. CASE CommandEnds(c)
      BY <1>3, <1>4, <1>5, <1>6, <2>1, <2>2 DEF Decided, Refusals
    <2>3. CASE ~CommandEnds(c)
      BY <1>3, <1>4, <1>5, <1>6, <1>8, <2>1, <2>3 DEF Decided, Refusals
    <2> QED
      BY <2>2, <2>3
  <1>12. Told(c)'
    <2>1. old.reply = None
      BY <1>2, <1>6 DEF ConnOK, Staged
    <2> QED
      BY <1>4, <1>5, <2>1, NoneIsNoReply DEF Told, Replies
  <1> QED
    BY <1>5, <1>6, <1>7, <1>9, <1>10, <1>11, <1>12, OneAtATime DEF ConnOK

\* A step of Append: "ok" comes with the record, acknowledged.
LEMMA AppendingStep ==
  ASSUME BrokerInv, [Next]_vars, NEW c \in Callers, LogStep(c)
  PROVE  conn' \in [Callers -> Conns] /\ \A d \in Callers : ConnOK(d)'
  <1>1. ConnOK(c) /\ call[c] \in Calls /\ UNCHANGED brokerVars /\ AppendStep(c)
    BY ConnTypes DEF BrokerInv, LogStep
  <1>2. /\ call[c].pc \in {"waiting", "opening", "writing", "syncing"} /\ call'[c].pc # "idle"
        /\ call'[c].logger = call[c].logger /\ call'[c].entry = call[c].entry
        /\ \A d \in Callers \ {c} : call'[d] = call[d]
    BY <1>1, ConnTypes DEF AppendStep, Acquire, DirFails, Number, WriteFails, WriteLine, Sync, SyncFails,
           Return, Calls
  <1>3. call'[c].pc = "ok" => Piece(c, "line")' \in acked'
    <2>1. CASE Sync(c)
      <3>1. Piece(c, "line")' = Piece(c, "line")
        BY <1>1, <2>1, ConnTypes DEF Sync, Return, Piece, Calls
      <3> QED
        BY <2>1, <3>1 DEF Sync
    <2>2. CASE ~Sync(c)
      BY <1>1, <2>2, ConnTypes DEF AppendStep, Acquire, DirFails, Number, WriteFails, WriteLine, SyncFails,
             Return, Calls
    <2> QED
      BY <2>1, <2>2
  <1>4. CallMatches(c)'
    BY <1>1, <1>2, <1>3 DEF ConnOK, CallMatches, brokerVars
  <1>5. acked \subseteq acked' /\ 1..made \subseteq 1..made'
    BY StepKeeps
  <1>6. Admitted(c)' /\ Staged(c)' /\ Decided(c)' /\ Told(c)'
    <2>1. Verdict(c)' = Verdict(c) /\ IsPing(c)' = IsPing(c)
      BY <1>1 DEF Verdict, IsPing, brokerVars
    <2> QED
      BY <1>1, <1>5, <2>1 DEF ConnOK, Admitted, Staged, Decided, Told, brokerVars
  <1> QED
    BY <1>1, <1>2, <1>4, <1>6, ConnTypes, OneAtATime DEF ConnOK, brokerVars

\* Append has returned, and its caller tells the client: of success only what is acknowledged.
LEMMA LoggedStep ==
  ASSUME BrokerInv, [Next]_vars, NEW c \in Callers, Logged(c)
  PROVE  conn' \in [Callers -> Conns] /\ \A d \in Callers : ConnOK(d)'
  <1> DEFINE old == conn[c]
             answer == ReplyAfter(old.decision, call[c].pc)
  <1>1. /\ ConnOK(c) /\ old \in Conns /\ old.pc = "logging" /\ call[c].pc \in {"ok", "failed"}
        /\ UNCHANGED <<command, booted, made, acked>>
    BY ConnTypes DEF BrokerInv, Logged, Collect
  <1>2. old.decision \in Refusals \cup {"APPROVED"} /\ old.reply = None
    BY <1>1 DEF ConnOK, Staged, Decided
  <1>3. /\ answer \in {old.decision, "AUDIT_FAILED"} /\ answer \in Replies
        /\ answer = "APPROVED" => old.decision = "APPROVED" /\ call[c].pc = "ok"
        /\ answer \in Refusals => old.decision \in Refusals
        /\ answer # "BROKER_UNAVAILABLE"
    BY <1>1, <1>2 DEF ReplyAfter, Refusals, Replies
  <1> HIDE DEF answer
  <1>4. PICK k \in Conns :
          /\ k.pc = "replying" /\ k.reply = answer
          /\ k.broker = old.broker /\ k.req = old.req /\ k.peer = old.peer
          /\ k.decision = old.decision /\ k.exit = old.exit
          /\ k = [old EXCEPT !.pc = "replying", !.reply = answer]
    BY <1>1, <1>3 DEF Conns, Pcs, Open
  <1>5. conn' = [conn EXCEPT ![c] = k]
    BY <1>4, ConnTypes DEF Logged, Answer, answer
  <1>6. /\ conn' \in [Callers -> Conns] /\ conn'[c] = k /\ call'[c] = NoCall
        /\ \A d \in Callers \ {c} : conn'[d] = conn[d] /\ call'[d] = call[d]
    BY <1>5, ConnTypes DEF Logged, Collect
  <1>7. CallMatches(c)'
    BY <1>4, <1>6 DEF CallMatches, NoCall
  <1>8. Admitted(c)' /\ Staged(c)' /\ Decided(c)'
    <2>1. Verdict(c)' = Verdict(c) /\ IsPing(c)' = IsPing(c)
      BY <1>1, <1>4, <1>6 DEF Verdict, IsPing
    <2>2. Admitted(c)'
      BY <1>1, <1>4, <1>6, <2>1 DEF ConnOK, Admitted
    <2>3. Decided(c)'
      BY <1>1, <1>4, <1>6, <2>1 DEF ConnOK, Decided
    <2>4. Staged(c)'
      BY <1>1, <1>2, <1>4, <1>6, NoneIsNoReply DEF ConnOK, Staged, Replies
    <2> QED
      BY <2>2, <2>3, <2>4
  <1>9. Told(c)'
    <2>1. answer = "APPROVED" =>
            \E p \in acked : p.entry = Event(c, "APPROVED", old.exit) /\ p.shape = "line"
      BY <1>1, <1>3 DEF ConnOK, CallMatches, Piece
    <2>2. answer \in Refusals \cup {"BROKER_UNAVAILABLE"} => command[c] = "none"
      BY <1>1, <1>3 DEF ConnOK, Decided
    <2> QED
      BY <1>1, <1>3, <1>4, <1>6, <2>1, <2>2 DEF Told
  <1> QED
    BY <1>1, <1>6, <1>7, <1>8, <1>9, OneAtATime DEF ConnOK

-----------------------------------------------------------------------------
(***************************************************************************)
(* The steps of brokers and of the machine.                                *)
(***************************************************************************)
\* A connection that breaks: nothing is told, and its command is orphaned or cut.
LEMMA Broken ==
  ASSUME BrokerInv, [Next]_vars, NEW d \in Callers, conn'[d] = [conn[d] EXCEPT !.pc = "dead"],
         command'[d] = command[d] \/ (command[d] = "running" /\ command'[d] = "cut"),
         call'[d].pc = "idle"
  PROVE  ConnOK(d)'
  <1>1. ConnOK(d) /\ conn[d] \in Conns
    BY ConnTypes DEF BrokerInv
  <1>2. PICK k : /\ k = conn'[d] /\ k.pc = "dead" /\ k.broker = conn[d].broker /\ k.req = conn[d].req
                 /\ k.peer = conn[d].peer /\ k.decision = conn[d].decision /\ k.exit = conn[d].exit
                 /\ k.reply = conn[d].reply
    BY <1>1 DEF Conns
  <1>3. acked \subseteq acked' /\ 1..made \subseteq 1..made' /\ \A b \in 1..made : booted'[b] = booted[b]
    BY StepKeeps
  <1>4. CallMatches(d)'
    BY <1>2 DEF CallMatches
  <1>5. Admitted(d)'
    <2>1. conn[d].broker \in 1..made => Verdict(d)' = Verdict(d)
      BY <1>2, <1>3 DEF Verdict
    <2> QED
      BY <1>1, <1>2, <1>3, <2>1 DEF ConnOK, Admitted
  <1>6. Staged(d)' /\ Decided(d)'
    <2>1. IsPing(d)' = IsPing(d)
      BY <1>2 DEF IsPing
    <2>2. Staged(d)'
      BY <1>1, <1>2 DEF ConnOK, Staged
    <2>3. command'[d] = command[d] \/ conn[d].decision = None
      BY <1>1 DEF ConnOK, Staged
    <2> QED
      BY <1>1, <1>2, <2>1, <2>2, <2>3, NoneIsNoReply DEF ConnOK, Decided, Refusals, Replies
  <1>7. Told(d)'
    <2>1. command'[d] = command[d] \/ conn[d].reply = None
      BY <1>1 DEF ConnOK, Staged
    <2> QED
      BY <1>1, <1>2, <1>3, <2>1, NoneIsNoReply DEF ConnOK, Told, Refusals, Replies
  <1> QED
    BY <1>4, <1>5, <1>6, <1>7 DEF ConnOK

\* A broker comes or starts to listen, or the operator edits the files.
LEMMA BrokerStep ==
  ASSUME BrokerInv, [Next]_vars,
         EditDisk \/ New \/ \E b \in Loggers : Serve(b) \/ ServeFails(b)
  PROVE  conn' \in [Callers -> Conns] /\ \A d \in Callers : ConnOK(d)'
  <1>1. UNCHANGED <<conn, command, call>>
    BY DEF EditDisk, New, NewLogger, Serve, ServeFails, logVars
  <1> QED
    BY <1>1, ConnTypes, Untouched

\* Connections of a broker break when it stops, its process ends or the machine stops.
LEMMA BreakingStep ==
  ASSUME BrokerInv, [Next]_vars, NEW brokers \in SUBSET Loggers, NEW stages \in SUBSET Open,
         Severed(brokers, stages),
         \/ UNCHANGED <<command, call>> /\ stages = {"dialled"}
         \/ command' = command /\ Dropped(brokers) /\ stages = Open
         \/ /\ command' = [c \in Callers |-> IF command[c] = "running" THEN "cut" ELSE command[c]]
            /\ Dropped(brokers) /\ stages = Open /\ brokers = Loggers
  PROVE  conn' \in [Callers -> Conns] /\ \A d \in Callers : ConnOK(d)'
  <1>1. \A d \in Callers : [conn[d] EXCEPT !.pc = "dead"] \in Conns
    BY ConnTypes DEF Conns, Pcs
  <1>2. conn' \in [Callers -> Conns]
    BY <1>1, ConnTypes DEF Severed
  <1>3. ASSUME NEW d \in Callers PROVE ConnOK(d)'
    <2>1. /\ ConnOK(d) /\ conn[d] \in Conns /\ call[d] \in Calls
          /\ command[d] \in {"none", "running", "ended", "cut"}
      BY ConnTypes DEF BrokerInv
    <2>2. CASE conn[d].broker \in brokers /\ conn[d].pc \in stages
      <3>1. conn'[d] = [conn[d] EXCEPT !.pc = "dead"]
        BY <2>2 DEF Severed
      <3>2. call'[d].pc = "idle"
        <4>1. CASE UNCHANGED <<command, call>> /\ stages = {"dialled"}
          BY <2>1, <2>2, <4>1 DEF ConnOK, CallMatches
        <4>2. CASE Dropped(brokers)
          BY <2>1, <2>2, <4>2 DEF Dropped, NoCall, ConnOK, CallMatches
        <4> QED
          BY <4>1, <4>2
      <3>3. command'[d] = command[d] \/ (command[d] = "running" /\ command'[d] = "cut")
        BY <2>1
      <3> QED
        BY <3>1, <3>2, <3>3, Broken
    <2>3. CASE ~(conn[d].broker \in brokers /\ conn[d].pc \in stages)
      <3>1. conn'[d] = conn[d]
        BY <2>3 DEF Severed
      <3>2. call'[d] = call[d] \/ (call[d].pc = "idle" /\ call'[d].pc = "idle")
        <4>1. CASE UNCHANGED <<command, call>> /\ stages = {"dialled"}
          BY <4>1
        <4>2. CASE Dropped(brokers) /\ stages = Open
          BY <2>1, <2>3, <4>2 DEF Dropped, NoCall, ConnOK, CallMatches, Open
        <4> QED
          BY <4>1, <4>2
      <3>3. CASE command'[d] = command[d]
        BY <3>1, <3>2, <3>3, Untouched
      <3>4. CASE command'[d] # command[d]
        <4>1. /\ command[d] = "running" /\ command'[d] = "cut" /\ stages = Open /\ brokers = Loggers
              /\ Dropped(brokers)
          BY <2>1, <3>4
        <4>2. conn[d].pc = "dead"
          BY <2>1, <2>3, <4>1 DEF ConnOK, Staged, Conns, Open
        <4>3. conn[d] = [conn[d] EXCEPT !.pc = "dead"]
          BY <2>1, <4>2 DEF Conns
        <4>4. call'[d].pc = "idle"
          BY <2>1, <4>1, <4>2 DEF Dropped, NoCall, ConnOK, CallMatches
        <4> QED
          BY <3>1, <4>1, <4>3, <4>4, Broken
      <3> QED
        BY <3>3, <3>4
    <2> QED
      BY <2>2, <2>3
  <1> QED
    BY <1>2, <1>3

\* Every step keeps every connection as it should be.
LEMMA StepConns ==
  ASSUME BrokerInv, [Next]_vars
  PROVE  conn' \in [Callers -> Conns] /\ \A d \in Callers : ConnOK(d)'
  <1>1. ASSUME NEW b \in Loggers, StopServing(b)
        PROVE  conn' \in [Callers -> Conns] /\ \A d \in Callers : ConnOK(d)'
    <2>1. Severed({b}, {"dialled"}) /\ UNCHANGED <<command, call>> /\ {"dialled"} \subseteq Open
      BY <1>1 DEF StopServing, logVars, Open
    <2> QED
      BY <2>1, BreakingStep
  <1>2. ASSUME NEW b \in Loggers, Exit(b)
        PROVE  conn' \in [Callers -> Conns] /\ \A d \in Callers : ConnOK(d)'
    <2>1. Severed({b}, Open) /\ command' = command /\ Dropped({b})
      BY <1>2 DEF Exit, Kill
    <2> QED
      BY <2>1, BreakingStep
  <1>3. CASE MachineStops
    BY <1>3, BreakingStep DEF MachineStops, PowerOff, PowerLoss
  <1>4. CASE UNCHANGED vars
    BY <1>4, ConnTypes, Untouched DEF vars, logVars
  <1> QED
    BY <1>1, <1>2, <1>3, <1>4, BrokerStep, Quiet, CommandStep, DecisionStep, AppendingStep, LoggedStep
    DEF Next, Exchange, Handle

\* A decision that has been made is never made again.
LEMMA DecisionsStay ==
  ASSUME BrokerInv, [Next]_vars, NEW c \in Callers, conn[c].decision # None
  PROVE  conn'[c].decision = conn[c].decision /\ conn'[c].exit = conn[c].exit
  <1>1. conn \in [Callers -> Conns] /\ \A d \in Callers : Staged(d)
    BY ConnTypes DEF BrokerInv, ConnOK
  <1>2. ASSUME NEW d \in Callers, Refuse(d) \/ StartFails(d) \/ CommandEnds(d)
        PROVE  conn'[c] = conn[c]
    <2>1. conn[d].decision = None
      BY <1>1, <1>2 DEF Staged, Refuse, StartFails, CommandEnds
    <2> QED
      BY <1>1, <1>2, <2>1 DEF Refuse, StartFails, CommandEnds, Log
  <1>3. ASSUME NEW brokers, NEW stages, Severed(brokers, stages)
        PROVE  conn'[c].decision = conn[c].decision /\ conn'[c].exit = conn[c].exit
    BY <1>1, <1>3 DEF Severed, Conns
  <1>4. ASSUME NEW d \in Callers,
               \/ Dial(d) \/ DialFails(d) \/ Garbage(d) \/ Accept(d) \/ Receive(d) \/ Approve(d)
               \/ Start(d) \/ Logged(d) \/ Reply(d)
        PROVE  conn'[c].decision = conn[c].decision /\ conn'[c].exit = conn[c].exit
    BY <1>1, <1>4 DEF Dial, DialFails, Garbage, Accept, Receive, Approve, Start, Logged, Reply, Answer,
           Moved, Conns
  <1>5. ASSUME NEW d \in Callers, OrphanEnds(d) \/ LogStep(d)
        PROVE  conn'[c] = conn[c]
    BY <1>5 DEF OrphanEnds, LogStep, brokerVars
  <1>6. CASE EditDisk \/ New \/ MachineStops
    BY <1>3, <1>6 DEF EditDisk, New, MachineStops, PowerOff
  <1>7. ASSUME NEW b \in Loggers, Serve(b) \/ ServeFails(b) \/ StopServing(b) \/ Exit(b)
        PROVE  conn'[c].decision = conn[c].decision /\ conn'[c].exit = conn[c].exit
    BY <1>3, <1>7 DEF Serve, ServeFails, StopServing, Exit
  <1>8. CASE UNCHANGED vars
    BY <1>8 DEF vars
  <1> QED
    BY <1>2, <1>4, <1>5, <1>6, <1>7, <1>8 DEF Next, Exchange, Handle

\* Every record of a step's file is that of a decision.
LEMMA StepRecords == BrokerInv /\ [Next]_vars => RecordsMatch'
  <1> SUFFICES ASSUME BrokerInv, [Next]_vars, NEW i \in DOMAIN file'
               PROVE  \E c \in Callers : conn'[c].decision # None
                        /\ file'[i].entry = Event(c, conn'[c].decision, conn'[c].exit)
    BY DEF RecordsMatch
  <1>1. \/ \E j \in DOMAIN file : file'[i].entry = file[j].entry
        \/ \E c \in Callers : call[c].pc = "writing" /\ file'[i].entry = call[c].entry
    BY StepOfLog, WhereRecordsComeFrom DEF BrokerInv
  <1>2. \E c \in Callers : /\ conn[c].decision # None
                           /\ file'[i].entry = Event(c, conn[c].decision, conn[c].exit)
    <2>1. CASE \E j \in DOMAIN file : file'[i].entry = file[j].entry
      BY <2>1 DEF BrokerInv, RecordsMatch
    <2>2. CASE \E c \in Callers : call[c].pc = "writing" /\ file'[i].entry = call[c].entry
      BY <2>2 DEF BrokerInv, ConnOK, CallMatches, Staged
    <2> QED
      BY <1>1, <2>1, <2>2
  <1> QED
    BY <1>2, DecisionsStay

\* The types of what brokers keep.
Loaded ==
  [rules : {LoadPolicy(f).rules : f \in {g \in PolicyFiles : LoadPolicy(g) # None}},
   clients : {LoadTrust(f) : f \in TrustFiles}]

\* The types after a step.
LEMMA StepTypes ==
  ASSUME BrokerInv, [Next]_vars
  PROVE  /\ listener' \in [Loggers -> {"none", "open", "closed"}] /\ socket' \in 0..made'
         /\ \A b \in Loggers : listener'[b] = "open" => b \in live'
         /\ command' \in [Callers -> {"none", "running", "ended", "cut"}]
         /\ disk' \in [policy : PolicyFiles, trust : TrustFiles]
         /\ \A b \in 1..made' : booted'[b] \in Loaded
  <1>1. /\ listener \in [Loggers -> {"none", "open", "closed"}] /\ socket \in 0..made
        /\ \A b \in Loggers : listener[b] = "open" => b \in live
        /\ command \in [Callers -> {"none", "running", "ended", "cut"}]
        /\ disk \in [policy : PolicyFiles, trust : TrustFiles] /\ DOMAIN booted = Loggers
        /\ \A b \in 1..made : booted[b] \in Loaded
        /\ made \in 0..MaxLogger /\ live \subseteq 1..made /\ MaxLogger \in Nat
    BY AuditBounds DEF BrokerInv, TypeOK, Loaded, LogInv, LogTypeOK
  <1>2. ASSUME UNCHANGED <<booted, made>>
        PROVE  \A b \in 1..made' : booted'[b] \in Loaded
    BY <1>1, <1>2
  <1>3. CASE New
    <2>1. /\ made' = made + 1 /\ live' = live \cup {made + 1} /\ made + 1 \in Loggers
          /\ UNCHANGED <<disk, listener, socket, command>>
      BY <1>1, <1>3 DEF New, NewLogger, Loggers
    <2> DEFINE loaded == [rules |-> LoadPolicy(disk.policy).rules, clients |-> LoadTrust(disk.trust)]
    <2>2. loaded \in Loaded
      BY <1>1, <1>3 DEF New, Loaded
    <2> HIDE DEF loaded
    <2>3. booted' = [booted EXCEPT ![made + 1] = loaded]
      BY <1>3 DEF New, loaded
    <2>4. \A b \in 1..made' : booted'[b] \in Loaded
      BY <1>1, <2>1, <2>2, <2>3 DEF Loggers
    <2> QED
      BY <1>1, <2>1, <2>4
  <1>4. CASE EditDisk
    BY <1>1, <1>2, <1>4 DEF EditDisk, logVars
  <1>5. CASE MachineStops
    <2>1. UNCHANGED <<booted, made, socket, disk>> /\ live' \subseteq live
      BY <1>5 DEF MachineStops, PowerOff, PowerLoss, Dropped
    <2>2. listener' = [b \in Loggers |-> IF b <= made THEN "closed" ELSE "none"]
      BY <1>5 DEF MachineStops, PowerOff
    <2>3. command' \in [Callers -> {"none", "running", "ended", "cut"}]
      BY <1>1, <1>5 DEF MachineStops, PowerOff
    <2> QED
      BY <1>1, <1>2, <2>1, <2>2, <2>3
  <1>6. ASSUME NEW b \in Loggers, Serve(b) \/ ServeFails(b) \/ StopServing(b)
        PROVE  /\ UNCHANGED <<booted, made, live, disk, command>>
               /\ \/ listener' = [listener EXCEPT ![b] = "closed"] /\ socket' \in {socket, 0}
                  \/ listener' = [listener EXCEPT ![b] = "open"] /\ socket' = b /\ b \in live
    BY <1>6 DEF Serve, ServeFails, StopServing, logVars
  <1>7. ASSUME NEW b \in Loggers, Exit(b)
        PROVE  /\ UNCHANGED <<booted, made, disk, command, socket>> /\ live' = live \ {b}
               /\ listener' = [listener EXCEPT ![b] = "closed"]
    BY <1>7 DEF Exit, Kill, Dropped
  <1>8. ASSUME NEW c \in Callers, Exchange(c)
        PROVE  /\ UNCHANGED <<booted, made, live, disk, listener, socket>>
               /\ command' \in [Callers -> {"none", "running", "ended", "cut"}]
    BY <1>1, <1>8 DEF Exchange, Handle, Dial, DialFails, Garbage, Accept, Receive, Approve, Refuse,
             StartFails, Start, Logged, Reply, CommandEnds, OrphanEnds, LogStep, brokerVars, logVars,
             Log, Call, Collect, AppendStep, Acquire, DirFails, Number, WriteFails, WriteLine, Sync, SyncFails
  <1>9. CASE UNCHANGED vars
    BY <1>1, <1>2, <1>9 DEF vars, logVars
  <1>10. CASE \E b \in Loggers : Serve(b) \/ ServeFails(b) \/ StopServing(b) \/ Exit(b)
    <2>1. PICK b \in Loggers : Serve(b) \/ ServeFails(b) \/ StopServing(b) \/ Exit(b)
      BY <1>10
    <2>2. CASE Exit(b)
      BY <1>1, <1>2, <1>7, <2>2
    <2>3. CASE ~Exit(b)
      <3>1. /\ UNCHANGED <<booted, made, live, disk, command>>
            /\ \/ listener' = [listener EXCEPT ![b] = "closed"] /\ socket' \in {socket, 0}
               \/ listener' = [listener EXCEPT ![b] = "open"] /\ socket' = b /\ b \in live
        BY <1>6, <2>1, <2>3
      <3>2. made \in Nat /\ {socket, 0} \subseteq 0..made /\ live \subseteq 0..made
        BY <1>1
      <3>3. socket' \in 0..made'
        BY <3>1, <3>2
      <3> QED
        BY <1>1, <1>2, <3>1, <3>3
    <2> QED
      BY <2>2, <2>3
  <1>11. CASE \E c \in Callers : Exchange(c)
    BY <1>1, <1>2, <1>8, <1>11
  <1> QED
    BY <1>3, <1>4, <1>5, <1>9, <1>10, <1>11 DEF Next

\* Every step preserves the invariant.
LEMMA StepInv == BrokerInv /\ [Next]_vars => BrokerInv'
  <1> SUFFICES ASSUME BrokerInv, [Next]_vars PROVE BrokerInv'
    OBVIOUS
  <1>1. LogInv' /\ LogTypeOK'
    BY StepLogInv DEF LogInv
  <1>2. TypeOK'
    BY <1>1, StepConns, StepTypes DEF TypeOK, Conns, Loaded
  <1> QED
    BY <1>1, <1>2, StepConns, StepTypes, StepKeeps, StepRecords DEF BrokerInv

\* And it holds at first.
LEMMA InitInv == Init => BrokerInv
  <1> SUFFICES ASSUME Init PROVE BrokerInv
    OBVIOUS
  <1>1. LogInv /\ LogTypeOK
    BY LogInit_LogInv DEF Init, LogInv
  <1>2. TypeOK
    <2>1. NoConn \in Conns
      BY AuditBounds DEF NoConn, Conns, Pcs, Loggers
    <2> QED
      BY <1>1, <2>1 DEF Init, TypeOK, Conns, LogInit
  <1>3. ASSUME NEW c \in Callers PROVE ConnOK(c)
    BY NoneIsNoReply DEF Init, LogInit, NoConn, NoCall, ConnOK, CallMatches, Admitted, Staged, Decided, Told,
         Refusals, Replies
  <1>4. RecordsMatch
    BY DEF Init, LogInit, RecordsMatch
  <1> QED
    BY <1>1, <1>2, <1>3, <1>4 DEF Init, BrokerInv

-----------------------------------------------------------------------------
(***************************************************************************)
(* The theorems.                                                           *)
(***************************************************************************)
\* The strengthened invariant, for every reachable state.
THEOREM BrokerInvariant == Spec => []BrokerInv
  BY InitInv, StepInv, PTL DEF Spec

\* Type correctness of brokers, connections, commands and the log.
THEOREM BrokerTypeCorrect == Spec => []TypeOK
  <1>1. BrokerInv => TypeOK
    BY DEF BrokerInv
  <1> QED
    BY <1>1, BrokerInvariant, PTL

\* Success is claimed only of what the audit log holds on stable storage.
LEMMA ToldIsRecorded ==
  ASSUME BrokerInv, NEW c \in Callers, conn[c].reply = "APPROVED"
  PROVE  conn[c].decision = "APPROVED" /\ Recorded(Event(c, "APPROVED", conn[c].exit))
  <1>1. conn[c].decision = "APPROVED"
        /\ \E p \in acked : p.entry = Event(c, "APPROVED", conn[c].exit) /\ p.shape = "line"
    BY DEF BrokerInv, ConnOK, Told
  <1> QED
    BY <1>1 DEF BrokerInv, LogInv, AckedDurable, Recorded

\* A client is told of success only when the record of it is on stable storage: no crash, no
\* restart and no other broker takes it back.
THEOREM SuccessIsRecorded == Spec => []ApprovedIsRecorded
  <1>1. BrokerInv => ApprovedIsRecorded
    BY ToldIsRecorded DEF ApprovedIsRecorded
  <1> QED
    BY <1>1, BrokerInvariant, PTL

\* What a record says of its connection.
LEMMA RecordOf ==
  ASSUME BrokerInv, NEW i \in DOMAIN file
  PROVE  \E c \in Callers :
           /\ file[i].entry = Event(c, conn[c].decision, conn[c].exit) /\ file[i].entry.id = c
           /\ file[i].entry.decision = conn[c].decision /\ file[i].entry.exit = conn[c].exit
           /\ conn[c].decision \in Refusals \cup {"APPROVED"} /\ Decided(c) /\ Told(c) /\ Staged(c)
  <1>1. PICK c \in Callers : /\ conn[c].decision # None
                             /\ file[i].entry = Event(c, conn[c].decision, conn[c].exit)
    BY DEF BrokerInv, RecordsMatch
  <1>2. Decided(c) /\ Told(c) /\ Staged(c)
    BY DEF BrokerInv, ConnOK
  <1>3. conn[c].decision \in Refusals \cup {"APPROVED"}
    BY <1>1, <1>2 DEF Decided
  <1>4. /\ file[i].entry.id = c
        /\ file[i].entry.decision = conn[c].decision /\ file[i].entry.exit = conn[c].exit
    BY <1>1 DEF Event
  <1> QED
    BY <1>1, <1>2, <1>3, <1>4

\* No record claims success of a command that has not ended or a refusal of one that has run,
\* and the client hears what the record says or that the audit has failed.
THEOREM RecordsAreTrue == Spec => []RecordIsTrue
  <1>1. ASSUME BrokerInv, NEW i \in DOMAIN file
        PROVE  LET e == file[i].entry
                   c == e.id
               IN  /\ conn[c].reply \in {None, e.decision, "AUDIT_FAILED"}
                   /\ e.decision = "APPROVED" =>
                        command[c] = "ended" \/ e.exit = 127 \/ IsPing(c)
                   /\ e.decision # "APPROVED" => command[c] = "none"
    <2>1. PICK c \in Callers :
            /\ file[i].entry.id = c
            /\ file[i].entry.decision = conn[c].decision /\ file[i].entry.exit = conn[c].exit
            /\ conn[c].decision \in Refusals \cup {"APPROVED"} /\ Decided(c) /\ Told(c)
      BY <1>1, RecordOf
    <2>2. conn[c].decision # None
      BY <2>1, NoneIsNoReply DEF Replies
    <2> QED
      BY <2>1, <2>2 DEF Decided, Told
  <1>2. BrokerInv => RecordIsTrue
    BY <1>1 DEF RecordIsTrue
  <1> QED
    BY <1>2, BrokerInvariant, PTL

\* What runs was admitted by the policy and the clients that its own broker has loaded.
THEOREM CommandsAreAdmitted == Spec => []RunsByOwnPolicy
  <1>1. BrokerInv => RunsByOwnPolicy
    BY DEF BrokerInv, ConnOK, Admitted, RunsByOwnPolicy
  <1> QED
    BY <1>1, BrokerInvariant, PTL

-----------------------------------------------------------------------------
(***************************************************************************)
(* The broker implements BrokeredExecution.                                *)
(***************************************************************************)
\* A step that syncs nothing leaves the ledger as it is, and none makes it smaller.
LEMMA LedgerOf ==
  ASSUME BrokerInv, [Next]_vars
  PROVE  synced' = synced => Ledger' = Ledger
  <1>1. \A i \in 1..synced : file'[i] = file[i]
    BY StepOfLog, SyncedKept DEF BrokerInv
  <1> QED
    BY <1>1 DEF Ledger

\* What a sync or a loss of power adds to the ledger is true.
LEMMA LedgerGrows ==
  ASSUME BrokerInv, [Next]_vars, (\E c \in Callers : Sync(c)) \/ PowerLoss,
         UNCHANGED <<command, file>> \/ MachineStops
  PROVE  Abstract!Grow
  <1>1. /\ synced \in Nat /\ synced <= Len(file') /\ synced' = Len(file') /\ Len(file') \in Nat
        /\ \A i \in 1..synced : file'[i] = file[i]
        /\ DOMAIN file' = 1..Len(file')
    <2>1. file' \in Seq(Pieces) /\ synced <= Len(file') /\ \A i \in 1..synced : file'[i] = file[i]
      BY StepOfLog, SyncedKept DEF BrokerInv
    <2>2. synced' = Len(file')
      BY DEF Sync, PowerLoss
    <2>3. synced \in Nat
      BY LenProperties DEF BrokerInv, LogInv, LogTypeOK
    <2> QED
      BY <2>1, <2>2, <2>3, LenProperties
  <1>2. Ledger \subseteq Ledger'
    BY <1>1 DEF Ledger
  <1>3. ASSUME NEW e \in Ledger'
        PROVE  e \in Events /\ Abstract!True(e)
    <2>1. PICK i \in DOMAIN file' : file'[i].entry = e
      BY <1>1 DEF Ledger
    <2>2. PICK c \in Callers : /\ e = Event(c, conn[c].decision, conn[c].exit) /\ e.id = c
                               /\ e.decision = conn[c].decision /\ e.exit = conn[c].exit
                               /\ conn[c].decision \in Refusals \cup {"APPROVED"} /\ Decided(c)
      <3>1. PICK j \in DOMAIN file : file[j].entry = e
        <4>1. CASE UNCHANGED file
          BY <2>1, <4>1
        <4>2. CASE PowerLoss
          <5>1. /\ file'[i].entry = file[i].entry /\ i \in 1..Len(file') /\ Len(file') \in Nat
                /\ Len(file') <= Len(file) /\ DOMAIN file = 1..Len(file) /\ Len(file) \in Nat
            BY <1>1, <2>1, <4>2, PowerLoss_File, LenProperties DEF BrokerInv, LogInv, LogTypeOK
          <5> QED
            BY <2>1, <5>1
        <4> QED
          BY <4>1, <4>2 DEF MachineStops, PowerOff
      <3> QED
        BY <3>1, RecordOf
    <2>3. e \in Events
      BY <2>2 DEF Events, Decided
    <2>4. Abstract!True(e)
      BY <2>2 DEF Abstract!True, Decided, Refusals
    <2> QED
      BY <2>3, <2>4
  <1> QED
    BY <1>2, <1>3 DEF Abstract!Grow

\* Every step is one of the abstract specification, or none.
LEMMA StepImplements ==
  ASSUME BrokerInv, [Next]_vars
  PROVE  [Abstract!Next]_Abstract!avars
  <1> DEFINE answers == [d \in Callers |-> conn[d].reply]
             Same == UNCHANGED <<command, Ledger, answers>>
             Tells(c, answer) == /\ UNCHANGED <<command, Ledger>> /\ conn[c].reply = None
                                 /\ answers' = [answers EXCEPT ![c] = answer]
                                 /\ answer = "APPROVED" =>
                                      \E e \in Ledger : e.id = c /\ e.decision = "APPROVED"
                                 /\ answer \in Refusals \cup {"BROKER_UNAVAILABLE"} => command[c] = "none"
  <1>1. ASSUME Same PROVE [Abstract!Next]_Abstract!avars
    BY <1>1 DEF Abstract!avars
  <1>2. ASSUME NEW c \in Callers, NEW answer \in Replies, Tells(c, answer)
        PROVE  Abstract!Next
    <2>1. Abstract!Tell(c, answer)
      BY <1>2 DEF Abstract!Tell
    <2> QED
      BY <2>1 DEF Abstract!Next, Replies
  <1>3. /\ \A d \in Callers : conn[d] \in Conns
        /\ conn \in [Callers -> Conns] /\ conn' \in [Callers -> Conns]
        /\ command \in [Callers -> {"none", "running", "ended", "cut"}]
    BY ConnTypes, StepConns
  <1>4. synced' = synced => Ledger' = Ledger
    BY LedgerOf
  <1>5. ASSUME NEW brokers, NEW stages, Severed(brokers, stages) PROVE answers' = answers
    <2>1. \A d \in Callers : conn'[d].reply = conn[d].reply
      BY <1>3, <1>5 DEF Severed, Conns
    <2> QED
      BY <2>1
  <1>6. CASE EditDisk \/ New
    BY <1>1, <1>4, <1>6 DEF EditDisk, New, NewLogger, logVars
  <1>7. ASSUME NEW b \in Loggers, Serve(b) \/ ServeFails(b) \/ StopServing(b) \/ Exit(b)
        PROVE  [Abstract!Next]_Abstract!avars
    <2>1. UNCHANGED <<command, synced>>
      BY <1>7 DEF Serve, ServeFails, StopServing, Exit, Kill, logVars
    <2>2. answers' = answers
      BY <1>5, <1>7 DEF Serve, ServeFails, StopServing, Exit
    <2> QED
      BY <1>1, <1>4, <2>1, <2>2
  <1>8. CASE MachineStops
    <2>1. Abstract!Grow
      BY <1>8, LedgerGrows DEF MachineStops, PowerOff
    <2>2. answers' = answers
      BY <1>5, <1>8 DEF MachineStops, PowerOff
    <2> QED
      BY <1>8, <2>1, <2>2 DEF MachineStops, PowerOff, Abstract!Next, Abstract!Crash
  <1>9. ASSUME NEW c \in Callers, LogStep(c) PROVE [Abstract!Next]_Abstract!avars
    <2>1. UNCHANGED <<command, conn>>
      BY <1>9 DEF LogStep, brokerVars
    <2>2. CASE Sync(c)
      <3>1. Abstract!Grow
        BY <2>1, <2>2, LedgerGrows DEF Sync
      <3> QED
        BY <2>1, <3>1 DEF Abstract!Next, Abstract!Persist
    <2>3. CASE ~Sync(c)
      <3>1. synced' = synced
        BY <1>9, <2>3 DEF LogStep, AppendStep, Acquire, DirFails, Number, WriteFails, WriteLine, SyncFails
      <3> QED
        BY <1>1, <1>4, <2>1, <3>1
    <2> QED
      BY <2>2, <2>3
  <1>10. ASSUME NEW c \in Callers, Dial(c) \/ Accept(c) \/ Approve(c) \/ Reply(c) \/ Refuse(c) \/ StartFails(c)
         PROVE  [Abstract!Next]_Abstract!avars
    <2>1. \A d \in Callers : conn'[d].reply = conn[d].reply
      BY <1>3, <1>10 DEF Dial, Accept, Approve, Reply, Moved, Refuse, StartFails, Log, Conns
    <2>2. answers' = answers /\ UNCHANGED <<command, synced>>
      BY <1>10, <2>1 DEF Dial, Accept, Approve, Reply, Refuse, StartFails, Log, Call, logVars
    <2> QED
      BY <1>1, <1>4, <2>2
  <1>11. ASSUME NEW c \in Callers, Start(c) PROVE [Abstract!Next]_Abstract!avars
    <2>1. conn[c].pc = "starting" /\ Staged(c)
      BY <1>11 DEF Start, BrokerInv, ConnOK
    <2>2. ASSUME NEW e \in Ledger PROVE e.id # c
      <3>1. PICK i \in DOMAIN file : file[i].entry = e
        <4>1. 1..synced \subseteq DOMAIN file
          BY LenProperties DEF BrokerInv, LogInv, LogTypeOK
        <4> QED
          BY <4>1 DEF Ledger
      <3>2. PICK d \in Callers : e.id = d /\ conn[d].decision \in Refusals \cup {"APPROVED"}
        BY <3>1, RecordOf
      <3> QED
        BY <2>1, <3>2, NoneIsNoReply DEF Staged, Replies
    <2>3. UNCHANGED <<answers, synced>>
      <3>1. \A d \in Callers : conn'[d].reply = conn[d].reply
        BY <1>3, <1>11 DEF Start, Moved, Conns
      <3> QED
        BY <1>11, <3>1 DEF Start, logVars
    <2>4. Abstract!Begin(c)
      BY <1>4, <1>11, <2>1, <2>2, <2>3 DEF Start, Staged, Abstract!Begin
    <2> QED
      BY <2>4 DEF Abstract!Next
  <1>12. ASSUME NEW c \in Callers, CommandEnds(c) \/ OrphanEnds(c) PROVE [Abstract!Next]_Abstract!avars
    <2>1. command[c] = "running" /\ command' = [command EXCEPT ![c] = "ended"] /\ synced' = synced
      BY <1>12 DEF CommandEnds, OrphanEnds, Log, Call, logVars, BrokerInv, ConnOK, Staged
    <2>2. \A d \in Callers : conn'[d].reply = conn[d].reply
      BY <1>3, <1>12 DEF CommandEnds, OrphanEnds, Log, Conns
    <2>3. answers' = answers
      BY <2>2
    <2> QED
      BY <1>4, <2>1, <2>3 DEF Abstract!Next, Abstract!End
  <1>13. ASSUME NEW c \in Callers, NEW answer \in Refusals \cup {"BROKER_UNAVAILABLE"},
                UNCHANGED <<command, synced>>, answers' = [answers EXCEPT ![c] = answer],
                conn[c].pc \in {"free", "accepted"}
         PROVE  [Abstract!Next]_Abstract!avars
    <2>1. conn[c].reply = None /\ command[c] = "none"
      BY <1>13 DEF BrokerInv, ConnOK, Staged
    <2>2. Tells(c, answer) /\ answer \in Replies
      BY <1>4, <1>13, <2>1 DEF Refusals, Replies
    <2> QED
      BY <1>2, <2>2
  <1>14. ASSUME NEW c \in Callers, NEW answer, Answer(c, answer)
         PROVE  answers' = [answers EXCEPT ![c] = answer]
    <2>1. \A d \in Callers : conn'[d].reply = IF d = c THEN answer ELSE conn[d].reply
      BY <1>3, <1>14 DEF Answer, Conns
    <2> QED
      BY <2>1
  <1>15. ASSUME NEW c \in Callers, DialFails(c) PROVE [Abstract!Next]_Abstract!avars
    <2>1. \A d \in Callers : conn'[d].reply = IF d = c THEN "BROKER_UNAVAILABLE" ELSE conn[d].reply
      BY <1>3, <1>15 DEF DialFails, Conns
    <2>2. answers' = [answers EXCEPT ![c] = "BROKER_UNAVAILABLE"]
      BY <2>1
    <2> QED
      BY <1>13, <1>15, <2>2 DEF DialFails, logVars
  <1>16. ASSUME NEW c \in Callers, Garbage(c) \/ Receive(c) PROVE [Abstract!Next]_Abstract!avars
    <2>1. CASE Garbage(c) \/ conn[c].peer = None
      <3>1. PICK answer \in {"DENIED", "CLIENT_NOT_TRUSTED"} : Answer(c, answer)
        BY <1>16, <2>1 DEF Garbage, Receive
      <3> QED
        BY <1>13, <1>14, <1>16, <3>1 DEF Garbage, Receive, logVars, Refusals
    <2>2. CASE Receive(c) /\ conn[c].peer # None
      <3>1. \A d \in Callers : conn'[d].reply = conn[d].reply
        BY <1>3, <2>2 DEF Receive, Moved, Conns
      <3>2. answers' = answers
        BY <3>1
      <3> QED
        BY <1>1, <1>4, <2>2, <3>2 DEF Receive, logVars
    <2> QED
      BY <1>16, <2>1, <2>2
  <1>17. ASSUME NEW c \in Callers, Logged(c) PROVE [Abstract!Next]_Abstract!avars
    <2> DEFINE answer == ReplyAfter(conn[c].decision, call[c].pc)
    <2>1. answers' = [answers EXCEPT ![c] = answer]
      BY <1>14, <1>17 DEF Logged
    <2>2. /\ conn[c].pc = "logging" /\ call[c].pc \in {"ok", "failed"} /\ UNCHANGED <<command, synced>>
          /\ CallMatches(c) /\ Staged(c) /\ Decided(c)
      BY <1>17 DEF Logged, Collect, BrokerInv, ConnOK
    <2>3. conn[c].reply = None /\ conn[c].decision \in Refusals \cup {"APPROVED"}
      BY <2>2 DEF Staged, Decided
    <2>4. /\ answer \in Replies
          /\ answer = "APPROVED" => conn[c].decision = "APPROVED" /\ call[c].pc = "ok"
          /\ answer \in Refusals \cup {"BROKER_UNAVAILABLE"} => conn[c].decision \in Refusals
      BY <2>2, <2>3 DEF ReplyAfter, Replies, Refusals
    <2> HIDE DEF answer
    <2>5. ASSUME answer = "APPROVED" PROVE \E e \in Ledger : e.id = c /\ e.decision = "APPROVED"
      <3>1. /\ Piece(c, "line") \in acked /\ Piece(c, "line").shape = "line"
            /\ Piece(c, "line").entry = Event(c, "APPROVED", conn[c].exit)
        BY <2>2, <2>4, <2>5 DEF CallMatches, Piece
      <3>2. PICK i \in 1..synced : file[i] = Piece(c, "line")
        BY <3>1 DEF BrokerInv, LogInv, AckedDurable
      <3>3. Event(c, "APPROVED", conn[c].exit) \in Ledger
        BY <3>1, <3>2 DEF Ledger
      <3> QED
        BY <3>3 DEF Event
    <2>6. answer \in Refusals \cup {"BROKER_UNAVAILABLE"} => command[c] = "none"
      BY <2>2, <2>4 DEF Decided
    <2> QED
      BY <1>2, <1>4, <2>1, <2>2, <2>3, <2>4, <2>5, <2>6
  <1>18. CASE UNCHANGED vars
    BY <1>1, <1>4, <1>18 DEF vars, logVars
  <1> QED
    BY <1>1, <1>6, <1>7, <1>8, <1>9, <1>10, <1>11, <1>12, <1>15, <1>16, <1>17, <1>18
    DEF Next, Exchange, Handle

\* The broker implements BrokeredExecution, whatever brokers come and go and whatever fails: no
\* command before its admission or after its answer, no refusal of what has run, no success
\* without its record, and no record that is untrue.
THEOREM BrokersExecuteAsPromised == Spec => ImplementsBrokeredExecution
  <1>1. Init => Abstract!Init
    <2> SUFFICES ASSUME Init PROVE Abstract!Init
      OBVIOUS
    <2>1. Ledger = {} /\ [c \in Callers |-> conn[c].reply] = [c \in Callers |-> None]
      BY DEF Init, LogInit, Ledger, NoConn
    <2> QED
      BY <2>1 DEF Init, Abstract!Init
  <1>2. BrokerInv /\ [Next]_vars => [Abstract!Next]_Abstract!avars
    BY StepImplements
  <1> QED
    BY <1>1, <1>2, BrokerInvariant, PTL DEF Spec, ImplementsBrokeredExecution, Abstract!Spec

-----------------------------------------------------------------------------
(***************************************************************************)
(* What SendReturns rests on: a handler can go on, unless its peer is      *)
(* silent, its command runs, or it waits for another handler of the same   *)
(* broker, which is inside Append and waits for nobody.  The bound on the  *)
(* calls of Append is none: there is always room for one more.             *)
(***************************************************************************)
\* A connection that is open leads to a process that runs, and one that is not accepted yet to
\* one that accepts.
Lives(c) ==
  conn[c].pc \in Open =>
    /\ conn[c].broker \in live
    /\ conn[c].pc = "dialled" => listener[conn[c].broker] = "open"

\* The connections that have called Append of this logger.
DecidedBy(l) == {c \in Callers : conn[c].broker = l /\ conn[c].decision # None}

\* Each of them has been given a number, or is yet to get one, at most once.
CallsAreCounted ==
  \A l \in Loggers : seq[l] + Cardinality(Unnumbered(l)) <= Cardinality(DecidedBy(l))

WaitInv == HolderWorks /\ (\A c \in Callers : Lives(c)) /\ CallsAreCounted

\* What Call asks for.
CanLog(c) ==
  LET l == conn[c].broker
  IN  call[c].pc = "idle" /\ l \in live /\ seq[l] + Cardinality(Unnumbered(l)) < MaxSeq

\* What its handler does next needs nobody else.
HandlerCanGoOn(c) ==
  \/ conn[c].pc = "dialled" /\ listener[conn[c].broker] = "open"
  \/ conn[c].pc = "accepted" /\ conn[c].req # None
  \/ conn[c].pc = "received" /\ (Verdict(c) = "EXECUTE" \/ CanLog(c))
  \/ conn[c].pc = "starting" /\ CanLog(c)
  \/ conn[c].pc = "logging" /\ (Inside(c) \/ call[c].pc \in {"ok", "failed"})
  \/ conn[c].pc = "logging" /\ call[c].pc = "waiting" /\ holder[conn[c].broker] = Nobody
  \/ conn[c].pc = "replying"

\* It waits in Append for one that goes on.
WaitsForAnother(c) ==
  /\ conn[c].pc = "logging" /\ call[c].pc = "waiting"
  /\ \E d \in Callers \ {c} :
       /\ holder[conn[c].broker] = d /\ Inside(d)
       /\ conn[d].pc = "logging" /\ conn[d].broker = conn[c].broker

HandlersGoOn ==
  \A c \in Callers : conn[c].pc \in Open =>
    \/ HandlerCanGoOn(c) \/ WaitsForAnother(c)
    \/ conn[c].pc = "accepted" /\ conn[c].req = None
    \/ conn[c].pc = "running" /\ CanLog(c)

-----------------------------------------------------------------------------
\* What a step does to the brokers that run, to the listeners and to the connections.
LEMMA LivesStep ==
  ASSUME BrokerInv, \A c \in Callers : Lives(c), [Next]_vars
  PROVE  \A c \in Callers : Lives(c)'
<1>1. /\ conn \in [Callers -> Conns] /\ socket \in 0..made /\ 1..made \subseteq Loggers
      /\ listener \in [Loggers -> {"none", "open", "closed"}]
      /\ \A b \in Loggers : listener[b] = "open" => b \in live
  BY ConnTypes DEF BrokerInv, TypeOK
<1>2. ASSUME live \subseteq live', \A b \in Loggers : listener[b] = "open" => listener'[b] = "open",
             NEW c \in Callers,
             \A d \in Callers :
               \/ conn'[d].pc \notin Open
               \/ /\ conn[d].pc \in Open /\ conn'[d].broker = conn[d].broker
                  /\ conn'[d].pc = "dialled" => conn[d].pc = "dialled"
      PROVE  Lives(c)'
  BY <1>1, <1>2 DEF Lives, Open, Conns
<1>3. ASSUME NEW c \in Callers, Dial(c), NEW d \in Callers PROVE Lives(d)'
  <2>1. socket \in Loggers /\ socket \in live
    BY <1>1, <1>3 DEF Dial
  <2>2. /\ conn'[c].broker = socket /\ \A e \in Callers \ {c} : conn'[e] = conn[e]
    BY <1>1, <1>3 DEF Dial, Conns
  <2>3. UNCHANGED <<live, listener>>
    BY <1>3 DEF Dial, logVars
  <2> QED
    BY <1>3, <2>1, <2>2, <2>3 DEF Dial, Lives
<1>4. ASSUME NEW c \in Callers,
             \/ Garbage(c) \/ Accept(c) \/ Receive(c) \/ Approve(c) \/ Refuse(c) \/ StartFails(c)
             \/ Start(c) \/ CommandEnds(c) \/ Logged(c),
             NEW d \in Callers
      PROVE  Lives(d)'
  <2>1. /\ conn[c].pc \in Open
        /\ conn'[c].pc \in Open \ {"dialled"} /\ conn'[c].broker = conn[c].broker
        /\ \A e \in Callers \ {c} : conn'[e] = conn[e]
    BY <1>1, <1>4 DEF Garbage, Accept, Receive, Approve, Refuse, StartFails, Start, CommandEnds, Logged,
           Answer, Moved, Log, Open, Conns
  <2>2. UNCHANGED <<live, listener>>
    BY <1>4 DEF Garbage, Accept, Receive, Approve, Refuse, StartFails, Start, CommandEnds, Logged,
           Log, Call, Collect, logVars
  <2> QED
    BY <1>2, <2>1, <2>2
<1>5. ASSUME NEW c \in Callers, DialFails(c) \/ Reply(c) \/ OrphanEnds(c) \/ LogStep(c), NEW d \in Callers
      PROVE  Lives(d)'
  <2>1. /\ conn'[c].pc \notin Open \/ conn'[c] = conn[c]
        /\ \A e \in Callers \ {c} : conn'[e] = conn[e]
    BY <1>1, <1>5 DEF DialFails, Reply, OrphanEnds, LogStep, brokerVars, Moved, Open, Conns
  <2>2. UNCHANGED <<live, listener>>
    BY <1>5 DEF DialFails, Reply, OrphanEnds, LogStep, brokerVars, logVars, AppendStep, Acquire, DirFails,
           Number, WriteFails, WriteLine, Sync, SyncFails
  <2> QED
    BY <1>2, <2>1, <2>2
<1>6. ASSUME NEW d \in Callers, EditDisk \/ New \/ UNCHANGED vars PROVE Lives(d)'
  <2>1. conn' = conn /\ listener' = listener /\ live \subseteq live'
    BY <1>6 DEF EditDisk, New, NewLogger, vars, logVars
  <2> QED
    BY <1>2, <2>1
<1>7. ASSUME NEW b \in Loggers, Serve(b) \/ ServeFails(b), NEW d \in Callers PROVE Lives(d)'
  <2>1. /\ conn' = conn /\ live' = live
        /\ \A k \in Loggers : listener[k] = "open" => listener'[k] = "open"
    BY <1>1, <1>7 DEF Serve, ServeFails, logVars
  <2> QED
    BY <1>2, <2>1
<1>8. ASSUME NEW b \in Loggers, StopServing(b), NEW d \in Callers PROVE Lives(d)'
  <2>1. /\ live' = live /\ \A k \in Loggers \ {b} : listener'[k] = listener[k]
        /\ conn'[d] = IF conn[d].broker = b /\ conn[d].pc = "dialled"
                      THEN [conn[d] EXCEPT !.pc = "dead"] ELSE conn[d]
    BY <1>1, <1>8 DEF StopServing, Severed, logVars
  <2>2. CASE conn[d].broker = b /\ conn[d].pc = "dialled"
    BY <1>1, <2>1, <2>2 DEF Lives, Open, Conns
  <2>3. CASE ~(conn[d].broker = b /\ conn[d].pc = "dialled")
    BY <1>1, <2>1, <2>3 DEF Lives, Conns
  <2> QED
    BY <2>2, <2>3
<1>9. ASSUME NEW b \in Loggers, Exit(b), NEW d \in Callers PROVE Lives(d)'
  <2>1. /\ live' = live \ {b} /\ \A k \in Loggers \ {b} : listener'[k] = listener[k]
        /\ conn'[d] = IF conn[d].broker = b /\ conn[d].pc \in Open
                      THEN [conn[d] EXCEPT !.pc = "dead"] ELSE conn[d]
    BY <1>1, <1>9 DEF Exit, Kill, Dropped, Severed
  <2>2. CASE conn[d].broker = b /\ conn[d].pc \in Open
    BY <1>1, <2>1, <2>2 DEF Lives, Open, Conns
  <2>3. CASE ~(conn[d].broker = b /\ conn[d].pc \in Open)
    BY <1>1, <2>1, <2>3 DEF Lives, Conns
  <2> QED
    BY <2>2, <2>3
<1>10. ASSUME MachineStops, NEW d \in Callers PROVE Lives(d)'
  <2>1. conn'[d] = IF conn[d].pc \in Open THEN [conn[d] EXCEPT !.pc = "dead"] ELSE conn[d]
    BY <1>1, <1>10 DEF MachineStops, PowerOff, Severed, Conns
  <2> QED
    BY <1>1, <2>1 DEF Lives, Open, Conns
<1> QED
  BY <1>3, <1>4, <1>5, <1>6, <1>7, <1>8, <1>9, <1>10 DEF Next, Exchange, Handle

\* Sets of connections can be counted.
LEMMA Countable ==
  ASSUME NEW S \in SUBSET Callers
  PROVE  IsFiniteSet(S) /\ Cardinality(S) \in Nat /\ Cardinality(S) <= Cardinality(Callers)
BY OneAppendPerConnection, FS_Subset, FS_CardinalityType

\* A larger set has no fewer members.
LEMMA Larger ==
  ASSUME NEW S \in SUBSET Callers, NEW T \in SUBSET S
  PROVE  Cardinality(T) <= Cardinality(S)
BY Countable, FS_Subset

LEMMA OneMore ==
  ASSUME NEW S \in SUBSET Callers, NEW c \in Callers \ S
  PROVE  Cardinality(S \cup {c}) = Cardinality(S) + 1
<1>1. IsFiniteSet(S)
  BY Countable
<1> QED
  BY <1>1, FS_AddElement, Zenon

\* Who has decided once has decided, by the same broker.
LEMMA DecidedStay ==
  ASSUME BrokerInv, [Next]_vars, NEW l \in Loggers
  PROVE  DecidedBy(l) \subseteq DecidedBy(l)'
<1> SUFFICES ASSUME NEW c \in Callers, conn[c].broker = l, conn[c].decision # None
             PROVE  conn'[c].broker = l /\ conn'[c].decision # None
  BY DEF DecidedBy
<1>1. conn \in [Callers -> Conns] /\ \A d \in Callers : Staged(d)
  BY ConnTypes DEF BrokerInv, ConnOK
<1>2. conn'[c].decision # None
  BY DecisionsStay
<1>3. ASSUME NEW d \in Callers, Exchange(d) PROVE conn'[c].broker = l
  <2>1. CASE Dial(d)
    <3>1. c # d
      BY <1>1, <2>1 DEF Dial, Staged
    <3> QED
      BY <1>1, <2>1, <3>1 DEF Dial, Conns
  <2>2. CASE \/ DialFails(d) \/ Garbage(d) \/ Accept(d) \/ Receive(d) \/ Approve(d) \/ Refuse(d)
             \/ StartFails(d) \/ Start(d) \/ CommandEnds(d) \/ Logged(d) \/ Reply(d)
    BY <1>1, <2>2 DEF DialFails, Garbage, Accept, Receive, Approve, Refuse, StartFails, Start,
           CommandEnds, Logged, Reply, Answer, Moved, Log, Conns
  <2>3. CASE OrphanEnds(d) \/ LogStep(d)
    BY <2>3 DEF OrphanEnds, LogStep, brokerVars
  <2> QED
    BY <1>3, <2>1, <2>2, <2>3 DEF Exchange, Handle
<1>4. ASSUME NEW brokers, NEW stages, Severed(brokers, stages) PROVE conn'[c].broker = l
  BY <1>1, <1>4 DEF Severed, Conns
<1>5. ASSUME EditDisk \/ New \/ MachineStops \/ UNCHANGED vars PROVE conn'[c].broker = l
  BY <1>4, <1>5 DEF EditDisk, New, MachineStops, PowerOff, vars
<1>6. ASSUME NEW b \in Loggers, Serve(b) \/ ServeFails(b) \/ StopServing(b) \/ Exit(b)
      PROVE  conn'[c].broker = l
  BY <1>4, <1>6 DEF Serve, ServeFails, StopServing, Exit
<1> QED
  BY <1>2, <1>3, <1>5, <1>6 DEF Next

\* Where no call begins, the calls of a logger are as many as before or fewer.
LEMMA NoMoreCalls ==
  ASSUME LogTypeOK, [LogNext]_logVars, NEW l \in Loggers,
         ~\E c \in Callers, e \in Entries : Call(c, l, e)
  PROVE  seq'[l] + Cardinality(Unnumbered(l)') <= seq[l] + Cardinality(Unnumbered(l))
<1>1. /\ call \in [Callers -> Calls] /\ seq \in [Loggers -> Nat] /\ 1 \in Loggers
      /\ Unnumbered(l) \in SUBSET Callers /\ Unnumbered(l)' \in SUBSET Callers
  BY AuditBounds DEF LogTypeOK, Unnumbered, Loggers
<1>2. Cardinality(Unnumbered(l)) \in Nat /\ Cardinality(Unnumbered(l)') \in Nat
  BY <1>1, Countable
<1>3. ASSUME seq' = seq,
             \A c \in Callers : call'[c].logger = l /\ call'[c].pc \in {"waiting", "opening"} =>
               call[c].logger = l /\ call[c].pc \in {"waiting", "opening"}
      PROVE  seq'[l] + Cardinality(Unnumbered(l)') <= seq[l] + Cardinality(Unnumbered(l))
  <2>1. Unnumbered(l)' \subseteq Unnumbered(l)
    BY <1>3 DEF Unnumbered
  <2>2. Cardinality(Unnumbered(l)') <= Cardinality(Unnumbered(l))
    BY <1>1, <2>1, Larger
  <2> QED
    BY <1>1, <1>2, <1>3, <2>2
<1>4. ASSUME NEW c \in Callers, Number(c)
      PROVE  seq'[l] + Cardinality(Unnumbered(l)') <= seq[l] + Cardinality(Unnumbered(l))
  <2>1. /\ call'[c].pc = "writing" /\ \A d \in Callers \ {c} : call'[d] = call[d]
        /\ seq' = [seq EXCEPT ![call[c].logger] = @ + 1] /\ call[c].pc = "opening"
    BY <1>1, <1>4 DEF Number
  <2>2. Unnumbered(l)' = Unnumbered(l) \ {c}
    BY <2>1 DEF Unnumbered
  <2>3. CASE call[c].logger = l
    <3>1. c \in Unnumbered(l)
      BY <2>1, <2>3 DEF Unnumbered
    <3>2. (Unnumbered(l) \ {c}) \cup {c} = Unnumbered(l)
      BY <3>1
    <3>3. Cardinality(Unnumbered(l)) = Cardinality(Unnumbered(l)') + 1
      BY <1>1, <2>2, <3>2, OneMore
    <3>4. seq'[l] = seq[l] + 1
      BY <1>1, <2>1, <2>3
    <3> QED
      BY <1>1, <1>2, <3>3, <3>4
  <2>4. CASE call[c].logger # l
    <3>1. Unnumbered(l)' = Unnumbered(l) /\ seq'[l] = seq[l]
      BY <1>1, <2>1, <2>2, <2>4 DEF Unnumbered
    <3> QED
      BY <1>1, <1>2, <3>1
  <2> QED
    BY <2>3, <2>4
<1>5. ASSUME NEW c \in Callers, NEW k \in Loggers, NEW e \in Entries, Call(c, k, e)
      PROVE  seq'[l] + Cardinality(Unnumbered(l)') <= seq[l] + Cardinality(Unnumbered(l))
  <2>1. k # l
    BY <1>5
  <2>2. call'[c].logger = k /\ (\A d \in Callers \ {c} : call'[d] = call[d]) /\ seq' = seq
    BY <1>1, <1>5 DEF Call
  <2> QED
    BY <1>3, <2>1, <2>2
<1>6. ASSUME NEW c \in Callers,
             Acquire(c) \/ DirFails(c) \/ WriteFails(c) \/ WriteLine(c) \/ Sync(c) \/ SyncFails(c) \/ Collect(c)
      PROVE  seq'[l] + Cardinality(Unnumbered(l)') <= seq[l] + Cardinality(Unnumbered(l))
  <2>1. /\ seq' = seq /\ \A d \in Callers \ {c} : call'[d] = call[d]
        /\ \/ call[c].pc = "waiting" /\ call'[c].logger = call[c].logger
           \/ call'[c].pc \notin {"waiting", "opening"}
    BY <1>1, <1>6 DEF Acquire, DirFails, WriteFails, WriteLine, Sync, SyncFails, Collect, Return, NoCall, Calls
  <2> QED
    BY <1>3, <2>1
<1>7. ASSUME NEW loggers, Dropped(loggers), seq' = seq
      PROVE  seq'[l] + Cardinality(Unnumbered(l)') <= seq[l] + Cardinality(Unnumbered(l))
  <2>1. \A c \in Callers : call'[c] = NoCall \/ call'[c] = call[c]
    BY <1>7 DEF Dropped
  <2> QED
    BY <1>3, <1>7, <2>1 DEF NoCall
<1>8. CASE NewLogger \/ UNCHANGED logVars
  BY <1>3, <1>8 DEF NewLogger, logVars
<1> QED
  BY <1>4, <1>5, <1>6, <1>7, <1>8 DEF LogNext, AppendStep, Kill, PowerLoss

\* A call of Append begins with a decision, of a connection that had none.
LEMMA CallDecides ==
  ASSUME BrokerInv, [Next]_vars, NEW c \in Callers, NEW l \in Loggers,
         call[c].pc = "idle", call'[c].pc = "waiting", call'[c].logger = l
  PROVE  conn[c].decision = None /\ conn'[c].decision # None /\ conn'[c].broker = l
<1>1. /\ conn \in [Callers -> Conns] /\ \A d \in Callers : Staged(d) /\ CallMatches(d)
      /\ call \in [Callers -> Calls] /\ NoCall.pc = "idle"
  BY ConnTypes DEF BrokerInv, ConnOK, NoCall
<1>2. ASSUME NEW d \in Callers, Refuse(d) \/ StartFails(d) \/ CommandEnds(d)
      PROVE  conn[c].decision = None /\ conn'[c].decision # None /\ conn'[c].broker = l
  <2>1. PICK dec \in Refusals \cup {"APPROVED"}, x \in ExitCodes \cup {None} : Log(d, dec, x)
    BY <1>2, HandlersLog
  <2>2. d = c /\ conn[c].broker = l
    BY <1>1, <2>1 DEF Log, Call
  <2>3. conn[c].decision = None
    BY <1>1, <1>2, <2>2 DEF Refuse, StartFails, CommandEnds, Staged
  <2>4. dec # None
    BY NoneIsNoReply DEF Replies
  <2> QED
    BY <1>1, <2>1, <2>2, <2>3, <2>4 DEF Log, Conns
<1>3. ASSUME NEW d \in Callers, Logged(d) \/ LogStep(d) PROVE FALSE
  <2>1. CASE Logged(d)
    BY <1>1, <2>1 DEF Logged, Collect
  <2>2. CASE LogStep(d)
    BY <1>1, <2>2 DEF LogStep, AppendStep, Acquire, DirFails, Number, WriteFails, WriteLine, Sync,
           SyncFails, Return
  <2> QED
    BY <1>3, <2>1, <2>2
<1>4. ASSUME \/ call' = call
             \/ \A d \in Callers : call'[d] = call[d] \/ call'[d] = NoCall
      PROVE  FALSE
  BY <1>1, <1>4
<1>5. CASE EditDisk \/ New \/ MachineStops \/ UNCHANGED vars
  BY <1>4, <1>5 DEF EditDisk, New, NewLogger, MachineStops, PowerOff, PowerLoss, Dropped, vars, logVars
<1>6. ASSUME NEW b \in Loggers, Serve(b) \/ ServeFails(b) \/ StopServing(b) \/ Exit(b) PROVE FALSE
  BY <1>4, <1>6 DEF Serve, ServeFails, StopServing, Exit, Kill, Dropped, logVars
<1>7. ASSUME NEW d \in Callers,
             \/ Dial(d) \/ DialFails(d) \/ Garbage(d) \/ Accept(d) \/ Receive(d) \/ Approve(d)
             \/ Start(d) \/ Reply(d) \/ OrphanEnds(d)
      PROVE  FALSE
  BY <1>4, <1>7 DEF Dial, DialFails, Garbage, Accept, Receive, Approve, Start, Reply, OrphanEnds, logVars
<1> QED
  BY <1>2, <1>3, <1>5, <1>6, <1>7 DEF Next, Exchange, Handle

\* Only a decision begins a call, and it is counted.
LEMMA CountStep == BrokerInv /\ CallsAreCounted /\ [Next]_vars => CallsAreCounted'
<1> SUFFICES ASSUME BrokerInv, CallsAreCounted, [Next]_vars, NEW l \in Loggers
             PROVE  seq'[l] + Cardinality(Unnumbered(l)') <= Cardinality(DecidedBy(l)')
  BY DEF CallsAreCounted
<1>1. /\ LogTypeOK /\ [LogNext]_logVars /\ LogTypeOK'
      /\ seq \in [Loggers -> Nat] /\ call \in [Callers -> Calls] /\ seq' \in [Loggers -> Nat]
  BY StepOfLog, StepLogInv DEF BrokerInv, LogInv, LogTypeOK
<1>2. /\ Unnumbered(l) \in SUBSET Callers /\ Unnumbered(l)' \in SUBSET Callers
      /\ DecidedBy(l) \in SUBSET Callers /\ DecidedBy(l)' \in SUBSET Callers
      /\ DecidedBy(l) \subseteq DecidedBy(l)'
  BY DecidedStay DEF Unnumbered, DecidedBy
<1>3. /\ Cardinality(Unnumbered(l)) \in Nat /\ Cardinality(Unnumbered(l)') \in Nat
      /\ Cardinality(DecidedBy(l)) \in Nat /\ Cardinality(DecidedBy(l)') \in Nat
      /\ Cardinality(DecidedBy(l)) <= Cardinality(DecidedBy(l)')
  BY <1>2, Countable, Larger
<1>4. seq[l] + Cardinality(Unnumbered(l)) <= Cardinality(DecidedBy(l))
  BY DEF CallsAreCounted
<1>5. CASE ~\E c \in Callers, e \in Entries : Call(c, l, e)
  <2>1. seq'[l] + Cardinality(Unnumbered(l)') <= seq[l] + Cardinality(Unnumbered(l))
    BY <1>1, <1>5, NoMoreCalls
  <2> QED
    BY <1>1, <1>3, <1>4, <2>1
<1>6. ASSUME NEW c \in Callers, NEW e \in Entries, Call(c, l, e)
      PROVE  seq'[l] + Cardinality(Unnumbered(l)') <= Cardinality(DecidedBy(l)')
  <2>1. /\ seq' = seq /\ call[c].pc = "idle" /\ call'[c].pc = "waiting" /\ call'[c].logger = l
        /\ \A d \in Callers \ {c} : call'[d] = call[d]
    BY <1>1, <1>6 DEF Call
  <2>2. c \notin Unnumbered(l) /\ Unnumbered(l)' = Unnumbered(l) \cup {c}
    BY <2>1 DEF Unnumbered
  <2>3. conn[c].decision = None /\ conn'[c].decision # None /\ conn'[c].broker = l
    BY <1>6, <2>1, CallDecides
  <2>4. c \notin DecidedBy(l) /\ DecidedBy(l) \cup {c} \subseteq DecidedBy(l)'
    BY <1>2, <2>3 DEF DecidedBy
  <2>5. Cardinality(DecidedBy(l)) + 1 <= Cardinality(DecidedBy(l)')
    BY <1>2, <2>4, OneMore, Larger
  <2>6. Cardinality(Unnumbered(l)') = Cardinality(Unnumbered(l)) + 1
    BY <1>2, <2>2, OneMore
  <2> QED
    BY <1>1, <1>3, <1>4, <2>1, <2>5, <2>6
<1> QED
  BY <1>5, <1>6

\* Every step keeps what the handlers wait for in order.
LEMMA WaitStep == BrokerInv /\ WaitInv /\ [Next]_vars => WaitInv'
<1> SUFFICES ASSUME BrokerInv, WaitInv, [Next]_vars PROVE WaitInv'
  OBVIOUS
<1>1. HolderWorks'
  BY StepOfLog, HolderStep DEF WaitInv, BrokerInv, LogInv
<1> QED
  BY <1>1, LivesStep, CountStep DEF WaitInv

LEMMA WaitInit == Init => WaitInv
<1> SUFFICES ASSUME Init PROVE WaitInv
  OBVIOUS
<1>1. HolderWorks /\ \A c \in Callers : Lives(c)
  BY DEF Init, LogInit, HolderWorks, Lives, NoConn, Open
<1>2. ASSUME NEW l \in Loggers PROVE seq[l] + Cardinality(Unnumbered(l)) <= Cardinality(DecidedBy(l))
  <2>1. Unnumbered(l) = {} /\ seq[l] = 0
    BY <1>2 DEF Init, LogInit, NoCall, Unnumbered
  <2>2. Cardinality(DecidedBy(l)) \in Nat
    BY Countable DEF DecidedBy
  <2> QED
    BY <2>1, <2>2, FS_EmptySet
<1> QED
  BY <1>1, <1>2 DEF WaitInv, CallsAreCounted

\* There is room in the log of its broker for a connection that has not used it yet.
LEMMA RoomToLog ==
  ASSUME BrokerInv, WaitInv, NEW c \in Callers, conn[c].pc \in {"received", "starting", "running"}
  PROVE  CanLog(c)
<1>1. /\ conn[c].broker \in Loggers /\ conn[c].broker \in live /\ call[c].pc = "idle"
      /\ conn[c].decision = None /\ seq \in [Loggers -> Nat]
  BY ConnTypes DEF BrokerInv, WaitInv, Lives, Open, ConnOK, CallMatches, Staged, LogInv, LogTypeOK, Conns
<1> DEFINE l == conn[c].broker
<1>2. DecidedBy(l) \in SUBSET Callers /\ Unnumbered(l) \in SUBSET Callers /\ c \notin DecidedBy(l)
  BY <1>1 DEF DecidedBy, Unnumbered
<1>3. Cardinality(DecidedBy(l)) + 1 <= Cardinality(Callers)
  <2>1. DecidedBy(l) \cup {c} \in SUBSET Callers
    BY <1>2
  <2>2. Cardinality(DecidedBy(l) \cup {c}) = Cardinality(DecidedBy(l)) + 1
    BY <1>2, OneMore
  <2> QED
    BY <2>1, <2>2, Countable
<1>4. /\ Cardinality(DecidedBy(l)) \in Nat /\ Cardinality(Unnumbered(l)) \in Nat
      /\ Cardinality(Callers) \in Nat
  BY <1>2, Countable
<1>5. seq[l] + Cardinality(Unnumbered(l)) <= Cardinality(DecidedBy(l))
  BY <1>1 DEF WaitInv, CallsAreCounted
<1>6. seq[l] + Cardinality(Unnumbered(l)) < MaxSeq
  BY <1>1, <1>3, <1>4, <1>5, OneAppendPerConnection, AuditBounds
<1> QED
  BY <1>1, <1>6 DEF CanLog

\* For any numbers of connections, brokers and faults: no handler waits for ever but for its peer's
\* request or its command, and where two brokers live side by side, neither waits for the other.
THEOREM NoHandlerHangs == Spec => []HandlersGoOn
<1>1. BrokerInv /\ WaitInv => HandlersGoOn
  <2> SUFFICES ASSUME BrokerInv, WaitInv, NEW c \in Callers, conn[c].pc \in Open
               PROVE  \/ HandlerCanGoOn(c) \/ WaitsForAnother(c)
                      \/ conn[c].pc = "accepted" /\ conn[c].req = None
                      \/ conn[c].pc = "running" /\ CanLog(c)
    BY DEF HandlersGoOn
  <2>1. CASE conn[c].pc \in {"received", "starting", "running"}
    BY <2>1, RoomToLog DEF HandlerCanGoOn
  <2>2. CASE conn[c].pc \in {"dialled", "accepted", "replying"}
    BY <2>2 DEF HandlerCanGoOn, WaitInv, Lives, Open
  <2>3. CASE conn[c].pc = "logging"
    <3>1. /\ call[c].pc # "idle" /\ call[c].logger = conn[c].broker /\ conn[c].broker \in Loggers
          /\ call \in [Callers -> Calls] /\ holder \in [Loggers -> Callers \cup {Nobody}]
      BY <2>3, ConnTypes DEF BrokerInv, ConnOK, CallMatches, Conns, LogInv, LogTypeOK
    <3>2. call[c].pc \in {"waiting", "opening", "writing", "syncing", "ok", "failed"}
      BY <3>1 DEF Calls
    <3>3. ASSUME call[c].pc = "waiting", holder[conn[c].broker] # Nobody
          PROVE  WaitsForAnother(c)
      <4>1. PICK d \in Callers : d = holder[conn[c].broker]
        BY <3>1, <3>3
      <4>2. call[d].logger = conn[c].broker /\ Inside(d)
        BY <3>1, <3>3, <4>1 DEF WaitInv, HolderWorks
      <4>3. d # c
        BY <3>3, <4>2 DEF Inside
      <4>4. conn[d].pc = "logging" /\ conn[d].broker = conn[c].broker
        BY <4>2 DEF BrokerInv, ConnOK, CallMatches, Inside
      <4> QED
        BY <2>3, <3>3, <4>1, <4>2, <4>3, <4>4 DEF WaitsForAnother
    <3> QED
      BY <2>3, <3>2, <3>3 DEF HandlerCanGoOn, Inside
  <2> QED
    BY <2>1, <2>2, <2>3 DEF Open
<1>2. Spec => []WaitInv
  <2>1. BrokerInv /\ WaitInv /\ [Next]_vars => WaitInv'
    BY WaitStep
  <2> QED
    BY <2>1, WaitInit, BrokerInvariant, PTL DEF Spec
<1> QED
  BY <1>1, <1>2, BrokerInvariant, PTL

-----------------------------------------------------------------------------
(***************************************************************************)
(* And there are finitely many steps: each takes its connection on.        *)
(***************************************************************************)
\* How far a connection has come, Append included.
StageOf ==
  [free |-> 0, dialled |-> 1, accepted |-> 2, received |-> 3, starting |-> 4, running |-> 5,
   logging |-> 6, replying |-> 11, closed |-> 12, dead |-> 12]
StageOfCall ==
  [idle |-> 0, waiting |-> 0, opening |-> 1, writing |-> 2, syncing |-> 3, ok |-> 4, failed |-> 4]

Stage(c) == StageOf[conn[c].pc] + IF conn[c].pc = "logging" THEN StageOfCall[call[c].pc] ELSE 0

\* No connection goes back, and what its handler does takes it on.
HandlersLeadOn ==
  \A c \in Callers :
    /\ Stage(c) <= Stage(c)'
    /\ Dial(c) \/ DialFails(c) \/ Garbage(c) \/ Handle(c) \/ CommandEnds(c) \/ LogStep(c) =>
         Stage(c) < Stage(c)'

LEMMA Stages ==
  /\ \A pc \in Pcs : StageOf[pc] \in 0..12
  /\ \A pc \in {"idle", "waiting", "opening", "writing", "syncing", "ok", "failed"} :
       StageOfCall[pc] \in 0..4
<1>1. ASSUME NEW pc \in Pcs PROVE StageOf[pc] \in 0..12
  BY <1>1 DEF Pcs, Open, StageOf
<1>2. ASSUME NEW pc \in {"idle", "waiting", "opening", "writing", "syncing", "ok", "failed"}
      PROVE  StageOfCall[pc] \in 0..4
  BY <1>2 DEF StageOfCall
<1> QED
  BY <1>1, <1>2

LEMMA StageIsNumber ==
  ASSUME BrokerInv, NEW c \in Callers
  PROVE  /\ Stage(c) \in 0..12
         /\ conn[c].pc # "logging" => Stage(c) = StageOf[conn[c].pc]
         /\ conn[c].pc = "logging" => Stage(c) = 6 + StageOfCall[call[c].pc]
         /\ conn[c].pc \in Open => Stage(c) <= 11
<1>1. conn[c].pc \in Pcs /\ call[c].pc \in {"idle", "waiting", "opening", "writing", "syncing", "ok", "failed"}
  BY ConnTypes DEF Conns, Calls
<1>2. CASE conn[c].pc = "logging"
  <2>1. StageOfCall[call[c].pc] \in 0..4
    BY <1>1, Stages
  <2>2. StageOf["logging"] = 6
    BY DEF StageOf
  <2> QED
    BY <1>2, <2>1, <2>2 DEF Stage
<1>3. CASE conn[c].pc # "logging"
  <2>1. StageOf[conn[c].pc] \in 0..12
    BY <1>1, Stages
  <2>2. Stage(c) = StageOf[conn[c].pc]
    BY <1>3, <2>1 DEF Stage
  <2>3. conn[c].pc \in Open => StageOf[conn[c].pc] <= 11
    BY <1>3 DEF Open, StageOf
  <2> QED
    BY <1>3, <2>1, <2>2, <2>3
<1> QED
  BY <1>2, <1>3

\* A move between two stages outside Append.
LEMMA StageMoves ==
  ASSUME BrokerInv, BrokerInv', NEW c \in Callers, conn'[c].pc # "logging", conn[c].pc # "logging",
         StageOf[conn[c].pc] < StageOf[conn'[c].pc]
  PROVE  Stage(c) < Stage(c)'
<1>1. Stage(c) = StageOf[conn[c].pc]
  BY StageIsNumber
<1>2. Stage(c)' = StageOf[conn'[c].pc]
  BY DEF Stage, StageOf, BrokerInv, TypeOK, Pcs, Open
<1> QED
  BY <1>1, <1>2

\* What happens on a connection takes it on.
LEMMA ExchangeLeadsOn ==
  ASSUME BrokerInv, BrokerInv', [Next]_vars, NEW c \in Callers,
         Dial(c) \/ DialFails(c) \/ Garbage(c) \/ Handle(c) \/ CommandEnds(c) \/ LogStep(c)
  PROVE  Stage(c) < Stage(c)'
<1>1. conn \in [Callers -> Conns] /\ call \in [Callers -> Calls]
  BY ConnTypes
<1>2. ASSUME \/ Dial(c) \/ DialFails(c) \/ Garbage(c) \/ Accept(c) \/ Receive(c) \/ Approve(c)
             \/ Start(c) \/ Reply(c)
      PROVE  Stage(c) < Stage(c)'
  <2>1. /\ conn[c].pc # "logging" /\ conn'[c].pc # "logging"
        /\ StageOf[conn[c].pc] < StageOf[conn'[c].pc]
    BY <1>1, <1>2 DEF Dial, DialFails, Garbage, Accept, Receive, Approve, Start, Reply, Answer, Moved,
           StageOf, Conns
  <2> QED
    BY <2>1, StageMoves
<1>3. ASSUME Refuse(c) \/ StartFails(c) \/ CommandEnds(c) PROVE Stage(c) < Stage(c)'
  <2>1. conn[c].pc \in {"received", "starting", "running"} /\ Stage(c) <= 5
    BY <1>3, StageIsNumber DEF Refuse, StartFails, CommandEnds, StageOf
  <2>2. conn'[c].pc = "logging" /\ call'[c].pc = "waiting"
    <3>1. PICK d \in Refusals \cup {"APPROVED"}, x \in ExitCodes \cup {None} : Log(c, d, x)
      BY <1>3, HandlersLog
    <3> QED
      BY <1>1, <3>1 DEF Log, Call
  <2>3. Stage(c)' = 6
    BY <2>2 DEF Stage, StageOf, StageOfCall
  <2> QED
    BY <2>1, <2>3, StageIsNumber
<1>4. ASSUME Logged(c) PROVE Stage(c) < Stage(c)'
  <2>1. conn[c].pc = "logging" /\ call[c].pc \in {"ok", "failed"} /\ Stage(c) = 10
    BY <1>4, StageIsNumber DEF Logged, Collect, StageOfCall
  <2>2. conn'[c].pc = "replying"
    BY <1>1, <1>4 DEF Logged, Answer
  <2>3. Stage(c)' = 11
    BY <2>2 DEF Stage, StageOf
  <2> QED
    BY <2>1, <2>3
<1>5. ASSUME LogStep(c) PROVE Stage(c) < Stage(c)'
  <2>1. call[c].pc \in {"waiting", "opening", "writing", "syncing"}
    BY <1>5 DEF LogStep, AppendStep, Acquire, DirFails, Number, WriteFails, WriteLine, Sync, SyncFails
  <2>2. conn[c].pc = "logging" /\ conn' = conn
    BY <1>5, <2>1 DEF BrokerInv, ConnOK, CallMatches, LogStep, brokerVars
  <2>3. StageOfCall[call[c].pc] < StageOfCall[call'[c].pc]
    BY <1>1, <1>5 DEF LogStep, AppendStep, Acquire, DirFails, Number, WriteFails, WriteLine, Sync, SyncFails,
           Return, StageOfCall, Calls
  <2>4. StageOfCall[call[c].pc] \in Nat /\ StageOfCall[call'[c].pc] \in Nat
    BY <1>1, <1>5 DEF LogStep, AppendStep, Acquire, DirFails, Number, WriteFails, WriteLine, Sync, SyncFails,
           Return, StageOfCall, Calls
  <2>5. Stage(c) = 6 + StageOfCall[call[c].pc] /\ Stage(c)' = 6 + StageOfCall[call'[c].pc]
    BY <2>2 DEF Stage, StageOf
  <2> QED
    BY <2>3, <2>4, <2>5
<1> QED
  BY <1>2, <1>3, <1>4, <1>5 DEF Handle

\* A connection that breaks, or is left alone.
LEMMA StageStays ==
  ASSUME BrokerInv, NEW c \in Callers,
         \/ conn'[c] = conn[c] /\ (conn[c].pc = "logging" => call'[c] = call[c])
         \/ conn'[c].pc = "dead"
  PROVE  Stage(c) <= Stage(c)'
<1>1. Stage(c) \in 0..12
  BY StageIsNumber
<1>2. CASE conn'[c] = conn[c] /\ (conn[c].pc = "logging" => call'[c] = call[c])
  <2>1. Stage(c)' = Stage(c)
    BY <1>2 DEF Stage
  <2> QED
    BY <1>1, <2>1
<1>3. CASE conn'[c].pc = "dead"
  <2>1. Stage(c)' = 12
    BY <1>3 DEF Stage, StageOf
  <2> QED
    BY <1>1, <2>1
<1> QED
  BY <1>2, <1>3

LEMMA StepLeadsOn == BrokerInv /\ BrokerInv' /\ [Next]_vars => HandlersLeadOn
<1> SUFFICES ASSUME BrokerInv, BrokerInv', [Next]_vars, NEW c \in Callers PROVE Stage(c) <= Stage(c)'
  BY ExchangeLeadsOn DEF HandlersLeadOn
<1>1. conn \in [Callers -> Conns] /\ call \in [Callers -> Calls] /\ Stage(c) \in 0..12
  BY ConnTypes, StageIsNumber
<1>2. CASE Dial(c) \/ DialFails(c) \/ Garbage(c) \/ Handle(c) \/ CommandEnds(c) \/ LogStep(c)
  <2>1. Stage(c) < Stage(c)'
    BY <1>2, ExchangeLeadsOn
  <2>2. Stage(c)' \in Int
    <3>1. /\ conn'[c].pc \in Pcs
          /\ call'[c].pc \in {"idle", "waiting", "opening", "writing", "syncing", "ok", "failed"}
      BY DEF BrokerInv, TypeOK, LogTypeOK, Calls
    <3>2. StageOf[conn'[c].pc] \in Int /\ StageOfCall[call'[c].pc] \in Int
      BY <3>1, Stages
    <3> QED
      BY <3>2 DEF Stage
  <2> QED
    BY <1>1, <2>1, <2>2
<1>3. ASSUME NEW d \in Callers \ {c}, Exchange(d) PROVE Stage(c) <= Stage(c)'
  <2>1. conn'[c] = conn[c] /\ call'[c] = call[c]
    BY <1>1, <1>3 DEF Exchange, Handle, Dial, DialFails, Garbage, Accept, Receive, Approve, Refuse,
           StartFails, Start, CommandEnds, OrphanEnds, Logged, Reply, Answer, Moved, Log, Call, Collect,
           LogStep, AppendStep, Acquire, DirFails, Number, WriteFails, WriteLine, Sync, SyncFails, Return,
           logVars, brokerVars
  <2> QED
    BY <2>1, StageStays
<1>4. CASE OrphanEnds(c) \/ EditDisk \/ New \/ UNCHANGED vars
  BY <1>4, StageStays DEF OrphanEnds, EditDisk, New, NewLogger, vars, logVars
<1>5. ASSUME NEW b \in Loggers, Serve(b) \/ ServeFails(b) \/ StopServing(b) PROVE Stage(c) <= Stage(c)'
  BY <1>1, <1>5, StageStays DEF Serve, ServeFails, StopServing, Severed, logVars, Conns
<1>6. ASSUME NEW b \in Loggers, Exit(b) PROVE Stage(c) <= Stage(c)'
  <2>1. CASE conn[c].broker = b /\ conn[c].pc \in Open
    <3>1. conn'[c].pc = "dead"
      BY <1>1, <1>6, <2>1 DEF Exit, Severed, Conns
    <3> QED
      BY <3>1, StageStays
  <2>2. CASE ~(conn[c].broker = b /\ conn[c].pc \in Open)
    <3>1. conn'[c] = conn[c]
      BY <1>1, <1>6, <2>2 DEF Exit, Severed
    <3>2. conn[c].pc = "logging" => call[c].logger # b
      BY <2>2 DEF BrokerInv, ConnOK, CallMatches, Open
    <3>3. conn[c].pc = "logging" => call'[c] = call[c]
      BY <1>6, <3>2 DEF Exit, Kill, Dropped
    <3> QED
      BY <3>1, <3>3, StageStays
  <2> QED
    BY <2>1, <2>2
<1>7. CASE MachineStops
  <2>1. CASE conn[c].pc \in Open
    <3>1. conn'[c].pc = "dead"
      BY <1>1, <1>7, <2>1 DEF MachineStops, PowerOff, Severed, Conns
    <3> QED
      BY <3>1, StageStays
  <2>2. CASE conn[c].pc \notin Open
    <3>1. conn'[c] = conn[c] /\ conn[c].pc # "logging"
      BY <1>1, <1>7, <2>2 DEF MachineStops, PowerOff, Severed, Open
    <3> QED
      BY <3>1, StageStays
  <2> QED
    BY <2>1, <2>2
<1> QED
  BY <1>2, <1>3, <1>4, <1>5, <1>6, <1>7 DEF Next, Exchange

\* For any numbers of connections, brokers and faults: no step takes a connection back, and each of its
\* handler's takes it on, through twelve stages at most.
THEOREM HandlersComeToAnEnd == Spec => [][HandlersLeadOn]_vars
<1>1. BrokerInv /\ BrokerInv' /\ [Next]_vars => [HandlersLeadOn]_vars
  BY StepLeadsOn
<1> QED
  BY <1>1, BrokerInvariant, PTL DEF Spec
=============================================================================
