----------------------------- MODULE Supervisor -----------------------------
(***************************************************************************)
(* The root-smoke supervisor of internal/devtools: it runs a broker inside *)
(* its own process and obeys commands from a control socket, each in a     *)
(* goroutine of its own.                                                   *)
(*                                                                         *)
(* Actors are the goroutine of runRootSmokeSupervisor, Main, and the       *)
(* handlers of connections: a command each to the control socket, or a     *)
(* request to a broker, whose handler outlives it.  A broker is known by   *)
(* its number; its goroutine runs ServeWithOptions.  The socket path names *)
(* the broker that bound it last, which is who a client reaches: a broker  *)
(* whose path is gone still listens, but nobody finds it.                  *)
(***************************************************************************)
EXTENDS Naturals, FiniteSets

CONSTANTS Handlers, Main, None

ASSUME SupervisorConstants ==
  /\ IsFiniteSet(Handlers) /\ Main \notin Handlers
  /\ None \notin Handlers \cup {Main} \cup Nat

Actors == Handlers \cup {Main}
Numbers == 1 .. Cardinality(Handlers) + 1   \* main starts one broker, each handler at most one

VARIABLES
  mu,       \* who holds supervisor.mu
  tracked,  \* the broker that supervisor.cancel and supervisor.done belong to
  call,     \* what each actor is doing, with which broker, and what it has replied
  brokers,  \* the goroutine of each broker and what it has put into its done channel
  socket,   \* the broker that bound the socket path, None if there is no such file
  tree,     \* whether the disposable tree exists
  stopped,  \* whether stopByControl is closed
  trouble   \* history: a call has failed, a deadline passed, commands overlapped, the tree's
            \* removal failed, or a handler wrote to the tree while it was removed

vars == <<mu, tracked, call, brokers, socket, tree, stopped, trouble>>

Init ==
  /\ mu = None /\ tracked = None /\ socket = None
  /\ tree = TRUE /\ stopped = FALSE /\ trouble = {}
  /\ call = [a \in Actors |-> [pc |-> IF a = Main THEN "starting" ELSE "idle",
                               number |-> None, reply |-> "none"]]
  /\ brokers = [n \in Numbers |-> [pc |-> "unborn", cancelled |-> FALSE, done |-> "none"]]

Running == call[Main].pc # "exited"
At(a, pc) == Running /\ call[a].pc = pc
Goes(a, pc) == call' = [call EXCEPT ![a].pc = pc]
Replies(a, word) == call' = [call EXCEPT ![a].pc = "answered", ![a].reply = word]

Fault(word) == trouble' = trouble \cup {word}

\* How stop and start return, to main and to restart.  Main stops in the end, whatever stop
\* says, and if it cannot open the control socket.
AfterStop(a) ==
  Goes(a, IF a # Main THEN "configuring" ELSE IF call[a].reply = "FAIL" THEN "leaving" ELSE "removing")
AfterStart(a) == Goes(a, IF a = Main THEN "listening" ELSE "reporting")
AfterFailedStart(a) ==
  call' = [call EXCEPT ![a].pc = IF a = Main THEN "leaving" ELSE "answered", ![a].reply = "FAIL"]

\* Mutant of AfterFailedStop: an error of stop ends the supervisor.
AfterFailedStopExit(a) == IF a = Main THEN Goes(a, "leaving") ELSE Replies(a, "FAIL")

AfterFailedStop(a) == IF a = Main THEN AfterStop(a) ELSE Replies(a, "FAIL")

\* Inside start, stop or restart (a status command has no broker's number).
Changing(a) ==
  /\ call[a].pc \notin {"idle", "answered", "serving", "writing"}
  /\ ~(call[a].pc = "reporting" /\ call[a].number = None)

-----------------------------------------------------------------------------
(***************************************************************************)
(* start: it holds the mutex until the socket has appeared.                *)
(***************************************************************************)
Lock(a) ==
  /\ At(a, "starting") /\ mu = None
  /\ mu' = a /\ Goes(a, "creating")
  /\ UNCHANGED <<tracked, brokers, socket, tree, stopped, trouble>>

\* Mutant of AlreadyRunning: the mutex is kept.
AlreadyRunningLocked(a) ==
  /\ At(a, "creating") /\ tracked # None
  /\ AfterFailedStart(a)
  /\ UNCHANGED <<mu, tracked, brokers, socket, tree, stopped, trouble>>

AlreadyRunning(a) ==
  /\ At(a, "creating") /\ tracked # None
  /\ mu' = None /\ AfterFailedStart(a)
  /\ UNCHANGED <<tracked, brokers, socket, tree, stopped, trouble>>

\* Mutant of NewFails: the mutex is kept.
NewFailsLocked(a) ==
  /\ At(a, "creating") /\ tracked = None
  /\ AfterFailedStart(a) /\ Fault("failure")
  /\ UNCHANGED <<mu, tracked, brokers, socket, tree, stopped>>

\* The configuration is half written by another restart, or the paths are not safe.
NewFails(a) ==
  /\ At(a, "creating") /\ tracked = None
  /\ mu' = None /\ AfterFailedStart(a) /\ Fault("failure")
  /\ UNCHANGED <<tracked, brokers, socket, tree, stopped>>

Spawn(a) ==
  /\ At(a, "creating") /\ tracked = None
  /\ \E n \in Numbers :
       /\ brokers[n].pc = "unborn" /\ \A k \in Numbers : k < n => brokers[k].pc # "unborn"
       /\ brokers' = [brokers EXCEPT ![n].pc = "new"]
       /\ call' = [call EXCEPT ![a].pc = "waiting", ![a].number = n]
  /\ UNCHANGED <<mu, tracked, socket, tree, stopped, trouble>>

\* waitForSocket: a file under the socket's name will do ...
SocketAppears(a) ==
  /\ At(a, "waiting") /\ socket # None
  /\ mu' = None /\ tracked' = call[a].number /\ AfterStart(a)
  /\ UNCHANGED <<brokers, socket, tree, stopped, trouble>>

\* ... while there is none, an error of the broker ends the wait ...
BrokerFailed(a) ==
  /\ At(a, "waiting") /\ socket = None /\ brokers[call[a].number].done = "error"
  /\ brokers' = [brokers EXCEPT ![call[a].number].cancelled = TRUE]
  /\ mu' = None /\ AfterFailedStart(a)
  /\ UNCHANGED <<tracked, socket, tree, stopped, trouble>>

\* Mutant of SocketIsLate: the broker is not cancelled.
SocketIsLateUncancelled(a) ==
  /\ At(a, "waiting")
  /\ mu' = None /\ AfterFailedStart(a) /\ Fault("late")
  /\ UNCHANGED <<brokers, tracked, socket, tree, stopped>>

\* ... and so do three seconds.
SocketIsLate(a) ==
  /\ At(a, "waiting")
  /\ brokers' = [brokers EXCEPT ![call[a].number].cancelled = TRUE]
  /\ mu' = None /\ AfterFailedStart(a) /\ Fault("late")
  /\ UNCHANGED <<tracked, socket, tree, stopped>>

-----------------------------------------------------------------------------
(***************************************************************************)
(* stop: the mutex is given back before the broker is cancelled.           *)
(***************************************************************************)
\* Mutant of Take: the broker stays tracked.
TakeKeeping(a) ==
  /\ At(a, "stopping") /\ mu = None
  /\ IF tracked = None THEN AfterStop(a)
     ELSE call' = [call EXCEPT ![a].pc = "cancelling", ![a].number = tracked]
  /\ UNCHANGED <<mu, tracked, brokers, socket, tree, stopped, trouble>>

\* Mutant of Take: cancel is not compared with nil.
TakeUnchecked(a) ==
  /\ At(a, "stopping") /\ mu = None
  /\ call' = [call EXCEPT ![a].pc = "cancelling", ![a].number = tracked]
  /\ tracked' = None
  /\ UNCHANGED <<mu, brokers, socket, tree, stopped, trouble>>

Take(a) ==
  /\ At(a, "stopping") /\ mu = None
  /\ IF tracked = None THEN AfterStop(a)
     ELSE call' = [call EXCEPT ![a].pc = "cancelling", ![a].number = tracked]
  /\ tracked' = None
  /\ UNCHANGED <<mu, brokers, socket, tree, stopped, trouble>>

\* Mutant of Cancel: stop does not wait for the broker's end.
CancelOnly(a) ==
  /\ At(a, "cancelling")
  /\ brokers' = [brokers EXCEPT ![call[a].number].cancelled = TRUE]
  /\ AfterStop(a)
  /\ UNCHANGED <<mu, tracked, socket, tree, stopped, trouble>>

Cancel(a) ==
  /\ At(a, "cancelling")
  /\ brokers' = [brokers EXCEPT ![call[a].number].cancelled = TRUE]
  /\ Goes(a, "awaiting")
  /\ UNCHANGED <<mu, tracked, socket, tree, stopped, trouble>>

\* The file under the socket's name goes, whoever has bound it by now.
BrokerStopped(a) ==
  LET done == brokers[call[a].number].done
  IN  /\ At(a, "awaiting") /\ done # "none"
      /\ socket' = None
      /\ IF done = "nil" THEN AfterStop(a) ELSE AfterFailedStop(a)
      /\ UNCHANGED <<mu, tracked, brokers, tree, stopped, trouble>>

\* Two seconds have passed.
BrokerDidNotStop(a) ==
  /\ At(a, "awaiting")
  /\ AfterFailedStop(a) /\ Fault("late")
  /\ UNCHANGED <<mu, tracked, brokers, socket, tree, stopped>>

-----------------------------------------------------------------------------
(***************************************************************************)
(* The goroutine of a broker: ServeWithOptions.                            *)
(***************************************************************************)
Broker(n, pc) == Running /\ brokers[n].pc = pc
Becomes(n, pc) == brokers' = [brokers EXCEPT ![n].pc = pc]

\* EnsurePrivateDir makes the directories; then the path is looked up ...
MakeDirs(n) ==
  /\ Broker(n, "new")
  /\ tree' = TRUE
  /\ Becomes(n, IF socket = None THEN "binding" ELSE "removing")
  /\ UNCHANGED <<mu, tracked, call, socket, stopped, trouble>>

\* ... and removed, unless it has gone by itself.
RemoveOld(n) ==
  /\ Broker(n, "removing") /\ socket # None
  /\ socket' = None /\ Becomes(n, "binding")
  /\ UNCHANGED <<mu, tracked, call, tree, stopped, trouble>>

Listen(n) ==
  /\ Broker(n, "binding") /\ socket = None /\ tree
  /\ socket' = n /\ Becomes(n, "opening")
  /\ UNCHANGED <<mu, tracked, call, tree, stopped, trouble>>

\* Owner and mode of the path are set; a goroutine waits for the context, Accept for clients.
Open(n) ==
  /\ Broker(n, "opening") /\ socket # None
  /\ Becomes(n, "accepting")
  /\ UNCHANGED <<mu, tracked, call, socket, tree, stopped, trouble>>

\* What the steps above run into when somebody else uses the path: the file to remove or to
\* change is gone, the address is in use.
Collides(n) ==
  /\ \/ Broker(n, "removing") /\ socket = None
     \/ Broker(n, "binding") /\ (socket # None \/ ~tree)
     \/ Broker(n, "opening") /\ socket = None
  /\ Becomes(n, "failing")
  /\ UNCHANGED <<mu, tracked, call, socket, tree, stopped, trouble>>

\* Any call may fail; a listener that exists is closed, and its path removed.
Fails(n) ==
  /\ Running /\ brokers[n].pc \in {"new", "removing", "binding", "opening", "accepting"}
  /\ Fault("failure")
  /\ socket' = IF brokers[n].pc \in {"opening", "accepting"} THEN None ELSE socket
  /\ Becomes(n, IF brokers[n].pc = "accepting" /\ brokers[n].cancelled THEN "closing" ELSE "failing")
  /\ UNCHANGED <<mu, tracked, call, tree, stopped>>

\* Mutant of CloseOnCancel: nobody waits for the context.
CloseNever(n) == FALSE /\ n \in Numbers /\ UNCHANGED vars

\* Closing a Unix listener removes its path, whoever has bound it by now.
CloseOnCancel(n) ==
  /\ Broker(n, "accepting") /\ brokers[n].cancelled
  /\ socket' = None /\ Becomes(n, "closing")
  /\ UNCHANGED <<mu, tracked, call, tree, stopped, trouble>>

Return(n) ==
  /\ Running /\ brokers[n].pc \in {"closing", "failing"}
  /\ brokers' = [brokers EXCEPT ![n].pc = "ended",
                                ![n].done = IF brokers[n].pc = "closing" THEN "nil" ELSE "error"]
  /\ UNCHANGED <<mu, tracked, call, socket, tree, stopped, trouble>>

-----------------------------------------------------------------------------
(***************************************************************************)
(* The control commands, and main.                                         *)
(***************************************************************************)
ControlUp ==
  /\ call[Main].pc \in {"serving", "stopping", "cancelling", "awaiting", "removing", "leaving"}
  /\ call[Main].reply # "FAIL"

OpenControl ==
  /\ At(Main, "listening")
  /\ Goes(Main, "serving")
  /\ UNCHANGED <<mu, tracked, brokers, socket, tree, stopped, trouble>>

ControlFails ==
  /\ At(Main, "listening")
  /\ call' = [call EXCEPT ![Main].pc = "stopping", ![Main].reply = "FAIL"]
  /\ Fault("failure")
  /\ UNCHANGED <<mu, tracked, brokers, socket, tree, stopped>>

\* History: a restart overlaps when another, or the end of main, is under way.
AskRestart(h) ==
  /\ At(h, "idle") /\ ControlUp
  /\ Goes(h, "stopping")
  /\ IF \E a \in Actors \ {h} : Changing(a) THEN Fault("overlap") ELSE UNCHANGED trouble
  /\ UNCHANGED <<mu, tracked, brokers, socket, tree, stopped>>

AskStatus(h) ==
  /\ At(h, "idle") /\ ControlUp
  /\ Goes(h, "reporting")
  /\ UNCHANGED <<mu, tracked, brokers, socket, tree, stopped, trouble>>

\* tamper-artifact (who comes once the tree is gone writes after its removal, and so does a
\* request) ...
AskTamper(h) ==
  /\ At(h, "idle") /\ ControlUp
  /\ Goes(h, "writing")
  /\ IF call[Main].pc = "leaving" THEN Fault("writing") ELSE UNCHANGED trouble
  /\ UNCHANGED <<mu, tracked, brokers, socket, tree, stopped>>

\* ... and a request to a broker: the goroutine of handleConn does not end with the broker's.
Request(h) ==
  /\ At(h, "idle") /\ \E n \in Numbers : brokers[n].pc = "accepting"
  /\ Goes(h, "writing")
  /\ IF call[Main].pc = "leaving" THEN Fault("writing") ELSE UNCHANGED trouble
  /\ UNCHANGED <<mu, tracked, brokers, socket, tree, stopped>>

\* Both make the directories they write to: the artifact store's, the audit log's.
Write(h) ==
  /\ At(h, "writing")
  /\ tree' = TRUE /\ Replies(h, "OK")
  /\ UNCHANGED <<mu, tracked, brokers, socket, stopped, trouble>>

WriteFails(h) ==
  /\ At(h, "writing")
  /\ tree' \in {tree, TRUE} /\ Replies(h, "FAIL") /\ Fault("failure")
  /\ UNCHANGED <<mu, tracked, brokers, socket, stopped>>

AskStop(h) ==
  /\ At(h, "idle") /\ ControlUp
  /\ Replies(h, "OK") /\ stopped' = TRUE
  /\ UNCHANGED <<mu, tracked, brokers, socket, tree, trouble>>

\* restart writes the policy and the trust file between stop and start.
Configure(h) ==
  /\ At(h, "configuring") /\ tree
  /\ Goes(h, "starting")
  /\ UNCHANGED <<mu, tracked, brokers, socket, tree, stopped, trouble>>

ConfigureFails(h) ==
  /\ At(h, "configuring")
  /\ Replies(h, "FAIL") /\ Fault("failure")
  /\ UNCHANGED <<mu, tracked, brokers, socket, tree, stopped>>

Status(h) ==
  /\ At(h, "reporting") /\ mu = None
  /\ Replies(h, IF tracked # None THEN "OK" ELSE "FAIL")
  /\ UNCHANGED <<mu, tracked, brokers, socket, tree, stopped, trouble>>

\* A stop command or a signal.
MainStops ==
  /\ At(Main, "serving")
  /\ Goes(Main, "stopping") /\ stopped' = TRUE
  /\ IF \E h \in Handlers : Changing(h) THEN Fault("overlap") ELSE UNCHANGED trouble
  /\ UNCHANGED <<mu, tracked, brokers, socket, tree>>

\* The last directory goes; who is writing just now makes it again.
RemoveTree ==
  /\ At(Main, "removing")
  /\ tree' = FALSE /\ socket' = None /\ Goes(Main, "leaving")
  /\ IF \E h \in Handlers : call[h].pc = "writing" THEN Fault("writing") ELSE UNCHANGED trouble
  /\ UNCHANGED <<mu, tracked, brokers, stopped>>

\* The marker is missing, or something cannot be removed: main returns with a tree left.
RemoveFails ==
  /\ At(Main, "removing")
  /\ socket' \in {socket, None} /\ Goes(Main, "leaving") /\ Fault("unremoved")
  /\ UNCHANGED <<mu, tracked, brokers, tree, stopped>>

\* The process ends, and with it all its goroutines.
ExitMain ==
  /\ At(Main, "leaving")
  /\ Goes(Main, "exited")
  /\ UNCHANGED <<mu, tracked, brokers, socket, tree, stopped, trouble>>

-----------------------------------------------------------------------------
ActorSteps(a) ==
  \/ Lock(a) \/ AlreadyRunning(a) \/ NewFails(a) \/ Spawn(a)
  \/ SocketAppears(a) \/ BrokerFailed(a) \/ SocketIsLate(a)
  \/ Take(a) \/ Cancel(a) \/ BrokerStopped(a) \/ BrokerDidNotStop(a)

HandlerSteps(h) ==
  Configure(h) \/ ConfigureFails(h) \/ Status(h) \/ Write(h) \/ WriteFails(h)

MainSteps == OpenControl \/ ControlFails \/ RemoveTree \/ RemoveFails \/ ExitMain

Asks(h) == AskRestart(h) \/ AskStatus(h) \/ AskStop(h) \/ AskTamper(h) \/ Request(h)

BrokerSteps(n) ==
  MakeDirs(n) \/ RemoveOld(n) \/ Listen(n) \/ Open(n) \/ Collides(n) \/ CloseOnCancel(n) \/ Return(n)

GoesOn ==
  \/ \E a \in Actors : ActorSteps(a)
  \/ \E h \in Handlers : HandlerSteps(h)
  \/ \E n \in Numbers : BrokerSteps(n)
  \/ MainSteps
  \/ stopped /\ MainStops

Next ==
  \/ GoesOn \/ MainStops
  \/ \E h \in Handlers : Asks(h)
  \/ \E n \in Numbers : Fails(n)

\* Goroutines go on, the mutex included; nobody has to ask for anything and no call has to
\* fail.  Every goroutine takes finitely many steps, so that fairness of them all together is
\* fairness of each.
Fairness == WF_vars(GoesOn)

Spec == Init /\ [][Next]_vars /\ Fairness

-----------------------------------------------------------------------------
Phases == {"idle", "starting", "creating", "waiting", "stopping", "cancelling", "awaiting",
           "configuring", "reporting", "writing", "answered", "listening", "serving", "removing",
           "leaving", "exited"}
Troubles == {"failure", "late", "overlap", "writing", "unremoved"}

\* Type invariant; an actor that waits for a broker or cancels one has one.
TypeOK ==
  /\ mu \in Actors \cup {None} /\ tracked \in Numbers \cup {None}
  /\ socket \in Numbers \cup {None}
  /\ tree \in BOOLEAN /\ stopped \in BOOLEAN /\ trouble \subseteq Troubles
  /\ call \in [Actors -> [pc : Phases, number : Numbers \cup {None}, reply : {"none", "OK", "FAIL"}]]
  /\ \A a \in Actors : call[a].pc \in {"waiting", "cancelling", "awaiting"} => call[a].number \in Numbers
  /\ brokers \in [Numbers ->
       [pc : {"unborn", "new", "removing", "binding", "opening", "accepting", "closing",
              "failing", "ended"},
        cancelled : BOOLEAN, done : {"none", "nil", "error"}]]

Alive(n) == brokers[n].pc \notin {"unborn", "ended"}

\* Whatever fails, is late or overlaps: a broker that lives is tracked, being started, being
\* stopped, or has been cancelled.  None is left that no stop would reach.
NoStrayBroker ==
  \A n \in Numbers :
    Alive(n) /\ ~brokers[n].cancelled =>
      \/ tracked = n
      \/ \E a \in Actors : call[a].number = n /\ call[a].pc \in {"waiting", "cancelling"}

\* "root-smoke broker running" (status): as long as commands come one after the other and
\* nothing fails, clients reach the tracked broker; the end of the old one, which unlinks
\* the path once or twice, never hits the new one.
TrackedIsReachable == trouble = {} /\ tracked # None => socket = tracked

\* Restarts that come one after the other succeed if nothing fails.  (Of the commands, only a
\* restart has to do with a broker's number.)
SerialRestartSucceeds ==
  \A h \in Handlers :
    trouble = {} /\ call[h].pc = "answered" /\ call[h].number # None => call[h].reply = "OK"

\* "stopped and cleaned up": a supervisor that has served and ends leaves no tree, even if its
\* broker or a command has failed, provided that the removal itself has not, that no restart
\* overlapped the end, no deadline has passed, and nobody was writing to the tree, for a
\* tamper-artifact command or a request still in flight, when its last directory went.
LeavesNothing ==
  ~Running /\ call[Main].reply # "FAIL" /\ trouble \subseteq {"failure"} => ~tree /\ socket = None

\* A command that changes the supervisor is answered, or the supervisor ends first.
CommandAnswered ==
  \A h \in Handlers : Changing(h) ~> call[h].pc = "answered" \/ ~Running

\* stop ends the supervisor, whatever the brokers and the other commands do.
SupervisorStops == stopped ~> ~Running

\* A cancelled broker's goroutine ends, at whatever point of ServeWithOptions it is.
CancelledEnds ==
  \A n \in Numbers : brokers[n].cancelled ~> ~Alive(n) \/ ~Running
=============================================================================
