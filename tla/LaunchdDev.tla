----------------------------- MODULE LaunchdDev -----------------------------
(***************************************************************************)
(* The development install as a launchd service (internal/devtools/        *)
(* launchd_dev.go): a tree under /private/tmp that a marker file makes     *)
(* disposable, a plist that is recognised by its text, and the service.    *)
(*                                                                         *)
(* A terminal runs `sudo launchd-dev ...`, each command in a process of    *)
(* its own; a handler runs the same functions inside the root-smoke        *)
(* supervisor, under launchdMu.  launchd and the brokers it starts are     *)
(* modelled from how the code uses them: bootout returns before the broker *)
(* has ended, or the code would not wait for the socket to go.             *)
(***************************************************************************)
EXTENDS Naturals, Sequences, FiniteSets

CONSTANTS Terminals, Handlers, None,
          MaxCommands, \* how many commands are given
          MaxFaults,   \* how many calls fail, deadlines pass or processes are killed
          MaxBrokers   \* how many brokers launchd starts

ASSUME LaunchdConstants ==
  /\ Terminals \cap Handlers = {} /\ None \notin Terminals \cup Handlers \cup Nat
  /\ MaxCommands \in Nat /\ MaxFaults \in Nat /\ MaxBrokers \in Nat

Actors == Terminals \cup Handlers
Numbers == 1 .. MaxBrokers

VARIABLES
  tree,     \* what is under the root: "root" itself, the marker, the payload, files of others
  plist,    \* "none", "ours", "cut" (no longer or not yet recognised), "foreign"
  loaded,   \* the broker of the loaded service, None if it is not loaded
  brokers,  \* the processes launchd has started
  socket,   \* the broker that bound the socket path last
  mutex,    \* launchdMu
  call,     \* what each actor is doing
  given, faults, \* how many commands and faults there have been
  course    \* history: how the command of an actor has gone so far

vars == <<tree, plist, loaded, brokers, socket, mutex, call, given, faults, course>>
files == <<tree, plist>>
service == <<loaded, brokers, socket>>

Init ==
  /\ tree = {} /\ plist = "none" /\ loaded = None /\ socket = None /\ mutex = None
  /\ brokers = [n \in Numbers |-> [pc |-> "unborn", signalled |-> FALSE]]
  /\ call = [a \in Actors |-> [task |-> "none", rest |-> <<>>, pc |-> "idle", reply |-> "none"]]
  /\ given = 0 /\ faults = 0
  /\ course = [a \in Actors |-> "other"]

Busy(a) == call[a].pc \notin {"idle", "answered"}
At(a, pc) == call[a].pc = pc
Goes(a, pc) == call' = [call EXCEPT ![a].pc = pc]
Alive(n) == brokers[n].pc \notin {"unborn", "ended"}

\* safeRemoveLaunchdDev refuses a tree without the marker, and a plist must look owned.
Unmarked == "root" \in tree /\ "marker" \notin tree
Ours == plist \in {"none", "ours"}

-----------------------------------------------------------------------------
(***************************************************************************)
(* Commands, and how one function's end is the next one's beginning.       *)
(***************************************************************************)
TasksOf(cmd) ==
  IF cmd = "cycle" THEN <<"uninstall", "install", "check", "uninstall">> ELSE <<cmd>>

FirstStep(task) == IF task = "check" THEN "checking" ELSE "bootout"

\* What fails or is late; a fault in the middle of a step of a's own install is expected to be
\* cleaned up, any other spoils the history of all.
Fault == faults < MaxFaults /\ faults' = faults + 1
Spoilt == Fault /\ course' = [b \in Actors |-> "other"]
OwnFault(a) ==
  Fault /\ course' = [b \in Actors |-> IF b = a /\ course[a] = "clean" THEN "failed" ELSE "other"]
NoFault == UNCHANGED <<faults, course>>

\* a's own command fails although no call has.
Mishap(a) ==
  UNCHANGED faults /\ course' = [course EXCEPT ![a] = IF @ = "clean" THEN "failed" ELSE @]

\* History: a command starts clean if it is alone, what it finds can be removed and no broker
\* lives but the loaded one, at its socket (one that is just starting, or has lost its path, is
\* not seen by waitForPathGone, and unlinks the path of the next one when it ends).
Begin(a, cmd) ==
  /\ ~Busy(a) /\ given < MaxCommands /\ given' = given + 1
  /\ IF a \in Handlers THEN mutex = None /\ mutex' = a ELSE cmd # "cycle" /\ mutex' = mutex
  /\ call' = [call EXCEPT ![a] = [task |-> Head(TasksOf(cmd)), rest |-> Tail(TasksOf(cmd)),
                                  pc |-> FirstStep(Head(TasksOf(cmd))), reply |-> "none"]]
  /\ course' = [b \in Actors |->
       IF b = a /\ (\A c \in Actors : ~Busy(c)) /\ ~Unmarked /\ Ours
            /\ \A n \in Numbers : Alive(n) => loaded = n /\ socket = n
       THEN "clean" ELSE "other"]
  /\ UNCHANGED <<files, service, faults>>

\* Mutant of Ends: launchdMu is not unlocked after a failure.
EndsLocked(a, ok) ==
  /\ call' = [call EXCEPT ![a].pc = "answered", ![a].reply = IF ok THEN "OK" ELSE "FAIL"]
  /\ mutex' = IF mutex = a /\ ok THEN None ELSE mutex

\* A task ends.  The cycle does not look at how its first uninstall went.
Ends(a, ok) ==
  LET rest == call[a].rest
      goesOn == rest # <<>> /\ (ok \/ Len(rest) = 3)
  IN  /\ call' = [call EXCEPT ![a] =
           IF goesOn THEN [task |-> Head(rest), rest |-> Tail(rest),
                           pc |-> FirstStep(Head(rest)), reply |-> "none"]
                     ELSE [@ EXCEPT !.pc = "answered", !.reply = IF ok THEN "OK" ELSE "FAIL"]]
      /\ mutex' = IF mutex = a /\ ~goesOn THEN None ELSE mutex

\* installLaunchdDev fails; only the command, not the supervisor, asks for cleanup.
Fails(a) ==
  IF call[a].task = "install" /\ a \in Terminals
  THEN /\ call' = [call EXCEPT ![a].task = "cleanup", ![a].pc = "bootout"]
       /\ UNCHANGED mutex
  ELSE Ends(a, FALSE)

\* A step has been taken; what belongs to it (modes and owners) may still fail.
Done(a, pc) ==
  \/ Goes(a, pc) /\ NoFault /\ UNCHANGED mutex
  \/ Fails(a) /\ OwnFault(a)

-----------------------------------------------------------------------------
(***************************************************************************)
(* stopLaunchdDev.  Its result is looked at by nobody.                     *)
(***************************************************************************)
AfterStop(a) ==
  /\ Goes(a, IF call[a].task = "install" THEN "inspecting" ELSE "unlisting")
  /\ UNCHANGED mutex

NotLoaded(a) ==
  /\ At(a, "bootout") /\ loaded = None
  /\ AfterStop(a) /\ NoFault
  /\ UNCHANGED <<files, service, given>>

Bootout(a) ==
  /\ At(a, "bootout") /\ loaded # None
  /\ loaded' = None /\ brokers' = [brokers EXCEPT ![loaded].signalled = TRUE]
  /\ Goes(a, "settling") /\ NoFault
  /\ UNCHANGED <<files, socket, mutex, given>>

BootoutFails(a) ==
  /\ At(a, "bootout") /\ loaded # None
  /\ AfterStop(a) /\ OwnFault(a)
  /\ UNCHANGED <<files, service, given>>

\* Mutant of SocketGone: nobody waits.
SocketIgnored(a) ==
  /\ At(a, "settling")
  /\ AfterStop(a) /\ NoFault
  /\ UNCHANGED <<files, service, given>>

\* waitForPathGone, and its three seconds.
SocketGone(a) ==
  /\ At(a, "settling") /\ socket = None
  /\ AfterStop(a) /\ NoFault
  /\ UNCHANGED <<files, service, given>>

SocketStays(a) ==
  /\ At(a, "settling") /\ socket # None
  /\ AfterStop(a) /\ OwnFault(a)
  /\ UNCHANGED <<files, service, given>>

-----------------------------------------------------------------------------
(***************************************************************************)
(* removeLaunchdDevPlist and safeRemoveLaunchdDev, the latter also at the  *)
(* beginning of prepareLaunchdDev.                                         *)
(***************************************************************************)
\* ensureLaunchdDevPlistReplaceable, for the first time.
Inspect(a) ==
  /\ At(a, "inspecting") /\ NoFault
  /\ IF Ours THEN Goes(a, "clearing") /\ UNCHANGED mutex ELSE Fails(a)
  /\ UNCHANGED <<files, service, given>>

\* Uninstall ends at a plist it does not recognise, cleanup goes on.
Unlist(a) ==
  /\ At(a, "unlisting") /\ NoFault
  /\ plist' = IF Ours THEN "none" ELSE plist
  /\ IF Ours \/ call[a].task = "cleanup" THEN Goes(a, "clearing") /\ UNCHANGED mutex ELSE Ends(a, FALSE)
  /\ UNCHANGED <<tree, service, given>>

AfterRemoval(a) ==
  IF call[a].task = "cleanup" THEN Ends(a, FALSE)
  ELSE Goes(a, IF call[a].task = "install" THEN "making" ELSE "confirming") /\ UNCHANGED mutex

NoTree(a) ==
  /\ At(a, "clearing") /\ "root" \notin tree
  /\ AfterRemoval(a) /\ NoFault
  /\ UNCHANGED <<files, service, given>>

\* Mutant of Clear: the marker is not asked for.
ClearUnasked(a) ==
  /\ At(a, "clearing") /\ "root" \in tree
  /\ Goes(a, "erasing") /\ UNCHANGED mutex
  /\ NoFault
  /\ UNCHANGED <<files, service, given>>

Clear(a) ==
  /\ At(a, "clearing") /\ "root" \in tree
  /\ IF Unmarked THEN Fails(a) ELSE Goes(a, "erasing") /\ UNCHANGED mutex
  /\ NoFault
  /\ UNCHANGED <<files, service, given>>

\* os.RemoveAll takes one thing after the other, in the order of the directory.
Erase(a) ==
  /\ At(a, "erasing")
  /\ \/ \E part \in tree \ {"root"} : tree' = tree \ {part} /\ UNCHANGED socket
     \/ socket # None /\ socket' = None /\ UNCHANGED tree
  /\ NoFault
  /\ UNCHANGED <<plist, loaded, brokers, mutex, call, given>>

Erased(a) ==
  /\ At(a, "erasing") /\ tree \subseteq {"root"} /\ socket = None
  /\ tree' = {} /\ AfterRemoval(a) /\ NoFault
  /\ UNCHANGED <<plist, service, given>>

EraseFails(a) ==
  /\ At(a, "erasing")
  /\ Fails(a) /\ Spoilt
  /\ UNCHANGED <<files, service, given>>

-----------------------------------------------------------------------------
(***************************************************************************)
(* prepareLaunchdDev, writeLaunchdDevPlist, bootstrapLaunchdDev.           *)
(***************************************************************************)
MakeRoot(a) ==
  /\ At(a, "making")
  /\ tree' = tree \cup {"root"} /\ Done(a, "marking")
  /\ UNCHANGED <<plist, service, given>>

Mark(a) ==
  /\ At(a, "marking")
  /\ IF "root" \in tree THEN tree' = tree \cup {"marker"} /\ Done(a, "filling")
                        ELSE Fails(a) /\ NoFault /\ UNCHANGED tree
  /\ UNCHANGED <<plist, service, given>>

\* Binary, directories, configuration, artifact; the root is made again if it has gone.
Fill(a) ==
  /\ At(a, "filling")
  /\ tree' = tree \cup {"root", "payload"} /\ Done(a, "listing")
  /\ UNCHANGED <<plist, service, given>>

\* os.WriteFile truncates the plist ...
Truncate(a) ==
  /\ At(a, "listing")
  /\ IF Ours THEN plist' = "cut" /\ Done(a, "writing")
             ELSE Fails(a) /\ NoFault /\ UNCHANGED plist
  /\ UNCHANGED <<tree, service, given>>

\* ... and writes it, into a file that nobody finds if the path has been removed.
Write(a) ==
  /\ At(a, "writing")
  /\ IF plist = "none" THEN Fails(a) /\ NoFault /\ UNCHANGED plist
                       ELSE plist' = "ours" /\ Done(a, "starting")
  /\ UNCHANGED <<tree, service, given>>

\* A step fails before it has done anything.
StepFails(a) ==
  /\ call[a].pc \in {"making", "marking", "filling", "listing", "writing", "starting"}
  /\ Fails(a) /\ OwnFault(a)
  /\ UNCHANGED <<files, service, given>>

\* launchd takes a readable plist of a label that is not loaded, and runs the binary.
Bootstrap(a) ==
  /\ At(a, "starting") /\ NoFault
  /\ IF plist = "ours" /\ loaded = None
     THEN /\ \E n \in Numbers :
               /\ brokers[n].pc = "unborn" /\ \A k \in Numbers : k < n => brokers[k].pc # "unborn"
               /\ loaded' = n
               /\ brokers' = [brokers EXCEPT ![n].pc = IF "payload" \in tree THEN "new" ELSE "ended"]
          /\ Goes(a, "awaiting") /\ UNCHANGED mutex
     ELSE Fails(a) /\ UNCHANGED <<loaded, brokers>>
  /\ UNCHANGED <<files, socket, given>>

\* waitForLaunchdDevSocket, and its eight seconds.
SocketThere(a) ==
  /\ At(a, "awaiting") /\ socket # None
  /\ Goes(a, "checking") /\ NoFault
  /\ UNCHANGED <<files, service, mutex, given>>

SocketMissing(a) ==
  /\ At(a, "awaiting") /\ socket = None
  /\ Fails(a) /\ OwnFault(a)
  /\ UNCHANGED <<files, service, given>>

\* The broker has bound the socket and not set its owner and mode.
Unsecured == socket # None /\ brokers[socket].pc = "bound"

\* runLaunchdDevCheck: owner and mode of the socket are looked at, whoever sets them; the
\* tampered artifact makes whatever directory is missing, the root included.
Check(a) ==
  /\ At(a, "checking") /\ ~Unsecured /\ NoFault
  /\ tree' = tree \cup {"root"}
  /\ IF loaded # None /\ socket # None /\ brokers[socket].pc = "serving" /\ "payload" \in tree
     THEN Ends(a, TRUE) ELSE Fails(a)
  /\ UNCHANGED <<plist, service, given>>

\* The check comes before the broker's chmod, and fails though nothing else has.
CheckTooEarly(a) ==
  /\ At(a, "checking") /\ Unsecured
  /\ tree' = tree \cup {"root"} /\ Fails(a) /\ Mishap(a)
  /\ UNCHANGED <<plist, service, given>>

\* Mutant of Confirm: a service that is still loaded is not asked for.
ConfirmUnasked(a) ==
  /\ At(a, "confirming") /\ NoFault
  /\ Ends(a, socket = None)
  /\ UNCHANGED <<files, service, given>>

\* verifyLaunchdDevStopped: socket, service, process.
Confirm(a) ==
  /\ At(a, "confirming") /\ NoFault
  /\ Ends(a, socket = None /\ loaded = None /\ \A n \in Numbers : ~Alive(n))
  /\ UNCHANGED <<files, service, given>>

-----------------------------------------------------------------------------
(***************************************************************************)
(* The brokers, kills, and files that others put where nothing was.        *)
(***************************************************************************)
\* ServeWithOptions makes the run directory, the root included, and does not look at signals.
Listen(n) ==
  /\ brokers[n].pc = "new"
  /\ tree' = tree \cup {"root"} /\ socket' = n
  /\ brokers' = [brokers EXCEPT ![n].pc = "bound"]
  /\ UNCHANGED <<plist, loaded, mutex, call, given, faults, course>>

\* Owner and mode are set by the path; a broker whose path has gone gives up.
Secure(n) ==
  /\ brokers[n].pc = "bound"
  /\ brokers' = [brokers EXCEPT ![n].pc = IF socket = None THEN "closed" ELSE "serving"]
  /\ UNCHANGED <<files, loaded, socket, mutex, call, given, faults, course>>

\* Closing the listener removes the socket path, whoever has bound it by now.
Close(n) ==
  /\ brokers[n].pc = "serving" /\ brokers[n].signalled
  /\ socket' = None /\ brokers' = [brokers EXCEPT ![n].pc = "closed"]
  /\ UNCHANGED <<files, loaded, mutex, call, given, faults, course>>

\* A broker that is signalled early, or finds no configuration, never listens.
Exit(n) ==
  /\ \/ brokers[n].pc = "closed"
     \/ brokers[n].pc = "new" /\ (brokers[n].signalled \/ "payload" \notin tree)
  /\ brokers' = [brokers EXCEPT ![n].pc = "ended"]
  /\ UNCHANGED <<files, loaded, socket, mutex, call, given, faults, course>>

\* A process dies with its calls: a terminal's command, or the supervisor with all handlers.
Kill(dead) ==
  /\ \E a \in dead : Busy(a)
  /\ Spoilt
  /\ call' = [a \in Actors |-> IF a \in dead THEN [task |-> "none", rest |-> <<>>, pc |-> "idle", reply |-> "none"]
                               ELSE call[a]]
  /\ mutex' = IF mutex \in dead THEN None ELSE mutex
  /\ UNCHANGED <<files, service, given>>

\* Others use the paths while no command runs.
Outsider ==
  /\ \A a \in Actors : ~Busy(a)
  /\ \/ tree = {} /\ tree' = {"root", "theirs"} /\ UNCHANGED plist
     \/ plist = "none" /\ plist' = "foreign" /\ UNCHANGED tree
  /\ course' = [a \in Actors |-> "other"]
  /\ UNCHANGED <<service, mutex, call, given, faults>>

-----------------------------------------------------------------------------
Stopping(a) == NotLoaded(a) \/ Bootout(a) \/ BootoutFails(a) \/ SocketGone(a) \/ SocketStays(a)

Removing(a) ==
  Inspect(a) \/ Unlist(a) \/ NoTree(a) \/ Clear(a) \/ Erase(a) \/ Erased(a) \/ EraseFails(a)

Installing(a) ==
  \/ MakeRoot(a) \/ Mark(a) \/ Fill(a) \/ Truncate(a) \/ Write(a) \/ StepFails(a)
  \/ Bootstrap(a) \/ SocketThere(a) \/ SocketMissing(a)

Checking(a) == Check(a) \/ CheckTooEarly(a)

Next ==
  \/ \E a \in Actors, cmd \in {"install", "check", "uninstall", "cycle"} : Begin(a, cmd)
  \/ \E a \in Actors : Stopping(a) \/ Removing(a) \/ Installing(a) \/ Checking(a) \/ Confirm(a)
  \/ \E n \in Numbers : Listen(n) \/ Secure(n) \/ Close(n) \/ Exit(n)
  \/ \E t \in Terminals : Kill({t})
  \/ Kill(Handlers) \/ Outsider

Spec == Init /\ [][Next]_vars

-----------------------------------------------------------------------------
Tasks == {"install", "check", "uninstall", "cleanup"}
Phases == {"idle", "bootout", "settling", "inspecting", "unlisting", "clearing", "erasing", "making",
           "marking", "filling", "listing", "writing", "starting", "awaiting", "checking",
           "confirming", "answered"}

\* Type invariant; launchdMu is held by the one handler that is busy.
TypeOK ==
  /\ tree \subseteq {"root", "marker", "payload", "theirs"} /\ (tree # {} => "root" \in tree)
  /\ plist \in {"none", "ours", "cut", "foreign"}
  /\ loaded \in Numbers \cup {None} /\ socket \in Numbers \cup {None}
  /\ brokers \in [Numbers -> [pc : {"unborn", "new", "bound", "serving", "closed", "ended"}, signalled : BOOLEAN]]
  /\ call \in [Actors -> [task : Tasks \cup {"none"}, rest : Seq(Tasks), pc : Phases,
                          reply : {"none", "OK", "FAIL"}]]
  /\ given \in 0 .. MaxCommands /\ faults \in 0 .. MaxFaults
  /\ course \in [Actors -> {"clean", "failed", "other"}]
  /\ mutex \in Handlers \cup {None} /\ \A h \in Handlers : Busy(h) <=> mutex = h

\* "refusing to replace non-dev plist", "refusing to remove ... without ... marker": what others
\* have put there while no command ran stays, whatever commands overlap, fail or die.
NothingForeignGoes ==
  [][/\ "theirs" \in tree => "theirs" \in tree'
     /\ plist = "foreign" => plist' = "foreign"]_vars

\* An install that runs alone and undisturbed succeeds, whatever earlier commands that failed or
\* were killed have left, unless that is a tree without its marker or a cut plist, or its check
\* comes between the broker's bind and chmod, since it waits for no more than the socket's name;
\* and the service it has installed is the one that answers.
InstallRepairs ==
  \A a \in Actors :
    call[a].pc = "answered" /\ call[a].task = "install" /\ course[a] = "clean" =>
      /\ call[a].reply = "OK"
      /\ loaded # None /\ socket = loaded /\ plist = "ours" /\ {"root", "marker", "payload"} \subseteq tree

\* "uninstalled, root removed, plist removed": after an uninstall that ran alone and says so
\* nothing is left, even if launchctl has failed.  "cleaned up dev service": after an install
\* that failed at one step, waited in vain or was checked too early, nothing that launchd would
\* run is left, and no tree but an unmarked one.
RemovedIsGone ==
  \A a \in Actors :
    /\ call[a].pc = "answered" /\ call[a].task = "uninstall" /\ call[a].reply = "OK" /\ course[a] # "other" =>
         tree = {} /\ plist = "none" /\ loaded = None /\ socket = None /\ \A n \in Numbers : ~Alive(n)
    /\ call[a].pc = "answered" /\ call[a].task = "cleanup" /\ course[a] = "failed" =>
         loaded = None /\ plist \in {"none", "cut"} /\ tree \cap {"marker", "payload"} = {}
=============================================================================
