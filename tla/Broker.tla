------------------------------- MODULE Broker -------------------------------
(***************************************************************************)
(* The broker at work: internal/broker's New, ServeWithOptions, handleConn *)
(* and ProcessWithPeer, over the decision procedure of Decision.tla and    *)
(* the audit log of AuditLog.tla.                                          *)
(*                                                                         *)
(* A broker is one value of type Broker with the logger it owns, so        *)
(* brokers and loggers share their numbers; several may run at once (a     *)
(* restart that overlaps the old one, a second `broker serve`).  A         *)
(* connection carries one request of one call of Send and has one handler  *)
(* goroutine, which is the caller of Append.  Send returns when its        *)
(* connection is "closed", with the reply, or "dead", with an error.  A    *)
(* command runs in a process group of its own and outlives the broker that *)
(* started it.                                                             *)
(***************************************************************************)
EXTENDS Decision, AuditLog

CONSTANTS
  Requests,     \* what clients may send
  Peers,        \* what peer.Observe may find; None when it fails
  PolicyFiles,  \* what the policy file may hold
  TrustFiles,   \* what the trust file may hold: a set of clients, or no valid JSON
  Store,        \* the artifact store
  ExitCodes     \* the exit codes of Execution.tla

VARIABLES
  disk,      \* the policy and trust files
  booted,    \* the policy and clients each broker has loaded
  listener,  \* the listener of each broker: "none" yet, "open" while it accepts, "closed"
  socket,    \* the broker whose listener the socket path leads to; 0 for no path
  conn,      \* the connections, with what was sent and the local state of their handlers
  command    \* the command started for each connection

brokerVars == <<disk, booted, listener, socket, conn, command>>
vars == <<disk, booted, listener, socket, conn, command, logVars>>

NoConn ==
  [pc |-> "free", broker |-> 1, peer |-> None, req |-> None, decision |-> None,
   exit |-> None, reply |-> None]

\* auditEventFrom: an exit code only for what was approved.
Event(c, decision, exit) == [id |-> c, decision |-> decision, exit |-> exit]

Refusals ==
  {"DENIED", "REVIEW_REQUIRED", "REASON_INVALID", "POLICY_MISMATCH", "CLIENT_NOT_TRUSTED",
   "ARTIFACT_UNVERIFIED", "SCOPE_TOO_BROAD"}

\* What a client can be told; AUDIT_FAILED is DENIED with "refusing to claim success",
\* BROKER_UNAVAILABLE is Send's own answer.
Replies == Refusals \cup {"APPROVED", "AUDIT_FAILED", "BROKER_UNAVAILABLE"}

Events ==
  {Event(c, d, None) : c \in Callers, d \in Refusals} \cup
  {Event(c, "APPROVED", x) : c \in Callers, x \in ExitCodes}

ASSUME EventsAreEntries == Events \subseteq Entries
ASSUME OneAppendPerConnection == IsFiniteSet(Callers) /\ MaxSeq >= Cardinality(Callers)
ASSUME SuccessIsAnExitCode == {0, 127} \subseteq ExitCodes /\ None \notin ExitCodes
ASSUME RequestsAreRecords ==
  \A r \in Requests : r = [f \in DOMAIN r |-> r[f]] /\ {"type", "peer"} \subseteq DOMAIN r
ASSUME NoneIsNoReply == None \notin Replies

Init ==
  /\ LogInit
  /\ disk \in [policy : PolicyFiles, trust : TrustFiles]
  /\ booted = [b \in Loggers |-> None]
  /\ listener = [b \in Loggers |-> "none"] /\ socket = 0
  /\ conn = [c \in Callers |-> NoConn]
  /\ command = [c \in Callers |-> "none"]

-----------------------------------------------------------------------------
(***************************************************************************)
(* The life of a broker.                                                   *)
(***************************************************************************)
\* The operator edits a file while brokers run: `install`, `trust add`, an editor.
EditDisk ==
  /\ disk' \in [policy : PolicyFiles, trust : TrustFiles]
  /\ \/ disk'.policy = disk.policy
     \/ disk'.trust = disk.trust
  /\ UNCHANGED <<booted, listener, socket, conn, command, logVars>>

\* Mutant of New: the broker serves before it has loaded its files.
NewUnloaded ==
  /\ NewLogger
  /\ UNCHANGED <<disk, booted, listener, socket, conn, command>>

\* New: the broker keeps what the files hold now.
New ==
  /\ LoadPolicy(disk.policy) # None /\ disk.trust # UnparsableFile
  /\ NewLogger
  /\ booted' = [booted EXCEPT ![made + 1] =
                  [rules |-> LoadPolicy(disk.policy).rules, clients |-> LoadTrust(disk.trust)]]
  /\ UNCHANGED <<disk, listener, socket, conn, command>>

\* ServeWithOptions up to the Accept loop: it removes whatever is at the path and listens.
Serve(b) ==
  /\ b \in live /\ listener[b] = "none"
  /\ listener' = [listener EXCEPT ![b] = "open"] /\ socket' = b
  /\ UNCHANGED <<disk, booted, conn, command, logVars>>

\* A directory or the path cannot be had, or the listener cannot be set up once the path is gone.
ServeFails(b) ==
  /\ b \in live /\ listener[b] = "none"
  /\ listener' = [listener EXCEPT ![b] = "closed"] /\ socket' \in {socket, 0}
  /\ UNCHANGED <<disk, booted, conn, command, logVars>>

\* Connections to these brokers break while they are in one of these stages.
Severed(brokers, stages) ==
  conn' = [c \in Callers |->
             IF conn[c].broker \in brokers /\ conn[c].pc \in stages
             THEN [conn[c] EXCEPT !.pc = "dead"] ELSE conn[c]]

\* The context is cancelled or Accept fails; closing the listener unlinks the path, whoever
\* listens there by now, and drops what has not been accepted.  The handlers go on.
StopServing(b) ==
  /\ b \in live /\ listener[b] = "open"
  /\ listener' = [listener EXCEPT ![b] = "closed"] /\ socket' = 0
  /\ Severed({b}, {"dialled"})
  /\ UNCHANGED <<disk, booted, command, logVars>>

Open == {"dialled", "accepted", "received", "starting", "running", "logging", "replying"}

\* The process ends: killed, or `broker serve` returning without a wait for its handlers.
Exit(b) ==
  /\ Kill(b)
  /\ listener' = [listener EXCEPT ![b] = "closed"]
  /\ Severed({b}, Open)
  /\ UNCHANGED <<disk, booted, socket, command>>

\* The power goes; what that does to the files of policy and trust is another matter.
PowerOff ==
  /\ PowerLoss
  /\ listener' = [b \in Loggers |-> IF b <= made THEN "closed" ELSE "none"]
  /\ Severed(Loggers, Open)
  /\ command' = [c \in Callers |-> IF command[c] = "running" THEN "cut" ELSE command[c]]
  /\ UNCHANGED <<booted, socket>>

MachineStops == PowerOff /\ UNCHANGED disk

-----------------------------------------------------------------------------
(***************************************************************************)
(* The life of a connection: Send and handleConn.                          *)
(***************************************************************************)
Moved(c, pc) == conn' = [conn EXCEPT ![c].pc = pc]

\* Send connects and writes its request at once.  Others connect too, and what they write,
\* if anything, is no request.
Dial(c) ==
  /\ conn[c].pc = "free" /\ socket # 0 /\ listener[socket] = "open"
  /\ \E req \in Requests \cup {None} :
       conn' = [conn EXCEPT ![c].pc = "dialled", ![c].broker = socket, ![c].req = req]
  /\ UNCHANGED <<disk, booted, listener, socket, command, logVars>>

\* Nobody listens, or the backlog is full until Send's context ends: retryable, nothing ran.
DialFails(c) ==
  /\ conn[c].pc = "free"
  /\ conn' = [conn EXCEPT ![c].pc = "closed", ![c].reply = "BROKER_UNAVAILABLE"]
  /\ UNCHANGED <<disk, booted, listener, socket, command, logVars>>

\* Accept, and peer.Observe before anything is read.
Accept(c) ==
  /\ conn[c].pc = "dialled"
  /\ \E p \in Peers : conn' = [conn EXCEPT ![c].pc = "accepted", ![c].peer = p]
  /\ UNCHANGED <<disk, booted, listener, socket, command, logVars>>

Answer(c, reply) == conn' = [conn EXCEPT ![c].pc = "replying", ![c].reply = reply]

\* What comes is no JSON, or the peer hangs up: answered without a record.  A silent peer
\* keeps its handler for ever.
Garbage(c) ==
  /\ conn[c].pc = "accepted" /\ conn[c].req = None
  /\ Answer(c, "DENIED")
  /\ UNCHANGED <<disk, booted, listener, socket, command, logVars>>

\* Mutant of Receive: the handler of a peer that could not be observed waits for a better one.
ReceiveObserved(c) ==
  /\ conn[c].pc = "accepted" /\ conn[c].req # None /\ conn[c].peer # None
  /\ Moved(c, "received")
  /\ UNCHANGED <<disk, booted, listener, socket, command, logVars>>

\* A peer that could not be observed is refused without a record.
Receive(c) ==
  /\ conn[c].pc = "accepted" /\ conn[c].req # None
  /\ IF conn[c].peer = None THEN Answer(c, "CLIENT_NOT_TRUSTED") ELSE Moved(c, "received")
  /\ UNCHANGED <<disk, booted, listener, socket, command, logVars>>

Verdict(c) ==
  LET b == booted[conn[c].broker]
  IN  Decide(b.rules, b.clients, Store, conn[c].req, conn[c].peer).decision

\* Mutant of Approve: the policy and clients are those the newest broker has loaded.
ApproveByNewest(c) ==
  /\ conn[c].pc = "received"
  /\ LET b == booted[made]
     IN  Decide(b.rules, b.clients, Store, conn[c].req, conn[c].peer).decision = "EXECUTE"
  /\ Moved(c, "starting")
  /\ UNCHANGED <<disk, booted, listener, socket, command, logVars>>

\* Approval goes on to execute; everything else, a ping included, goes to the audit log.
Approve(c) ==
  /\ conn[c].pc = "received" /\ Verdict(c) = "EXECUTE"
  /\ Moved(c, "starting")
  /\ UNCHANGED <<disk, booted, listener, socket, command, logVars>>

\* The call of Append, with the event of this decision.
Log(c, decision, exit) ==
  /\ conn' = [conn EXCEPT ![c].pc = "logging", ![c].decision = decision, ![c].exit = exit]
  /\ Call(c, conn[c].broker, Event(c, decision, exit))

Refuse(c) ==
  /\ conn[c].pc = "received" /\ Verdict(c) # "EXECUTE"
  /\ Log(c, Verdict(c), IF Verdict(c) = "APPROVED" THEN 0 ELSE None)
  /\ UNCHANGED <<disk, booted, listener, socket, command>>

-----------------------------------------------------------------------------
(***************************************************************************)
(* execute, as Execution.tla promises it: a command that is started ends   *)
(* with one exit code.                                                     *)
(***************************************************************************)
StartFails(c) ==
  /\ conn[c].pc = "starting"
  /\ Log(c, "APPROVED", 127)
  /\ UNCHANGED <<disk, booted, listener, socket, command>>

\* Mutant of Start: the response is built before Wait returns.
StartDetached(c) ==
  /\ conn[c].pc = "starting"
  /\ command' = [command EXCEPT ![c] = "running"]
  /\ Log(c, "APPROVED", 0)
  /\ UNCHANGED <<disk, booted, listener, socket>>

Start(c) ==
  /\ conn[c].pc = "starting"
  /\ Moved(c, "running")
  /\ command' = [command EXCEPT ![c] = "running"]
  /\ UNCHANGED <<disk, booted, listener, socket, logVars>>

CommandEnds(c) ==
  /\ conn[c].pc = "running"
  /\ command' = [command EXCEPT ![c] = "ended"]
  /\ \E exit \in ExitCodes : Log(c, "APPROVED", exit)
  /\ UNCHANGED <<disk, booted, listener, socket>>

\* A command whose broker is gone ends unobserved.
OrphanEnds(c) ==
  /\ conn[c].pc = "dead" /\ command[c] = "running"
  /\ command' = [command EXCEPT ![c] = "ended"]
  /\ UNCHANGED <<disk, booted, listener, socket, conn, logVars>>

-----------------------------------------------------------------------------
\* Mutant of ReplyAfter: the error of Append is ignored.
ReplyTrusting(decision, result) == decision

\* ProcessWithPeer refuses to claim success for what it could not record.
ReplyAfter(decision, result) ==
  IF result = "failed" /\ decision = "APPROVED" THEN "AUDIT_FAILED" ELSE decision

Logged(c) ==
  /\ conn[c].pc = "logging"
  /\ Answer(c, ReplyAfter(conn[c].decision, call[c].pc))
  /\ Collect(c)
  /\ UNCHANGED <<disk, booted, listener, socket, command>>

\* Encode writes the response, if anyone still reads it.
Reply(c) ==
  /\ conn[c].pc = "replying"
  /\ Moved(c, "closed")
  /\ UNCHANGED <<disk, booted, listener, socket, command, logVars>>

\* Append, as AuditLog.tla has it.
LogStep(c) == AppendStep(c) /\ UNCHANGED brokerVars

Handle(c) ==
  \/ Accept(c) \/ Receive(c) \/ Approve(c) \/ Refuse(c) \/ StartFails(c) \/ Start(c)
  \/ Logged(c) \/ Reply(c)

\* What happens on a connection, and to its command.
Exchange(c) ==
  \/ Dial(c) \/ DialFails(c) \/ Garbage(c) \/ Handle(c)
  \/ CommandEnds(c) \/ OrphanEnds(c) \/ LogStep(c)

Next ==
  \/ EditDisk \/ New \/ MachineStops
  \/ \E b \in Loggers : Serve(b) \/ ServeFails(b) \/ StopServing(b) \/ Exit(b)
  \/ \E c \in Callers : Exchange(c)

(***************************************************************************)
(* The accept loop and a handler goroutine that can go on do, and so does  *)
(* Append; Go's mutex starves nobody.  Nobody has to dial, and the operator*)
(* and strangers owe nothing, nor do commands: Execution.tla shows which   *)
(* calls of execute return and which may not.                              *)
(***************************************************************************)
Fairness ==
  \A c \in Callers :
    /\ WF_vars(Handle(c))
    /\ WF_vars(LogStep(c)) /\ SF_vars(Acquire(c) /\ UNCHANGED brokerVars)

Spec == Init /\ [][Next]_vars /\ Fairness

-----------------------------------------------------------------------------
Pcs == Open \cup {"free", "closed", "dead"}

\* Type invariant.
TypeOK ==
  /\ LogTypeOK
  /\ listener \in [Loggers -> {"none", "open", "closed"}] /\ socket \in 0..made
  /\ \A b \in Loggers : listener[b] = "open" => b \in live
  /\ \A b \in 1..made :
       booted[b] \in [rules : {LoadPolicy(f).rules : f \in {g \in PolicyFiles : LoadPolicy(g) # None}},
                     clients : {LoadTrust(f) : f \in TrustFiles}]
  /\ conn \in [Callers -> [pc : Pcs, broker : Loggers, peer : Peers \cup {None},
                           req : Requests \cup {None}, decision : Replies \cup {None},
                           exit : ExitCodes \cup {None}, reply : Replies \cup {None}]]
  /\ command \in [Callers -> {"none", "running", "ended", "cut"}]

\* The records of a connection that are safe on disk.
Recorded(e) == \E i \in 1..synced : file[i].entry = e /\ file[i].shape = "line"

IsPing(c) == conn[c].req.type = "ping"

\* Success is claimed only for what is in the audit log, on stable storage, with the exit
\* code the command ended with; no later crash or broker takes the record back.
ApprovedIsRecorded ==
  \A c \in Callers : conn[c].reply = "APPROVED" => Recorded(Event(c, "APPROVED", conn[c].exit))

\* The audit log and the client hear the same: a record never claims success of a command that
\* has not ended, and a client told otherwise was told of the failed audit.
RecordIsTrue ==
  \A i \in DOMAIN file :
    LET e == file[i].entry
        c == e.id
    IN  /\ conn[c].reply \in {None, e.decision, "AUDIT_FAILED"}
        /\ e.decision = "APPROVED" =>
             command[c] = "ended" \/ e.exit = 127 \/ IsPing(c)
        /\ e.decision # "APPROVED" => command[c] = "none"

\* A command is started only if the policy and trust files that its own broker has loaded
\* admit it, whatever other brokers have loaded or the files hold by now.
RunsByOwnPolicy ==
  \A c \in Callers : command[c] # "none" =>
    /\ conn[c].peer # None
    /\ Verdict(c) = "EXECUTE"

\* Send has no deadline once it has connected, and needs none: it returns, with the reply or an
\* error, unless its command keeps execute from returning for ever.
SendReturns ==
  \A c \in Callers :
    conn[c].pc = "dialled" /\ conn[c].req # None
      ~> conn[c].pc \in {"closed", "dead"} \/ [](conn[c].pc = "running")

-----------------------------------------------------------------------------
Ledger == {file[i].entry : i \in {j \in 1..synced : file[j].shape = "line"}}

Abstract == INSTANCE BrokeredExecution WITH
  ledger <- Ledger,
  told <- [c \in Callers |-> conn[c].reply]

\* The broker implements BrokeredExecution: the ledger is the synced part of the log, the
\* answer is the response its handler has built.
ImplementsBrokeredExecution == Abstract!Spec

=============================================================================
