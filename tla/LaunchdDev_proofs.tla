------------------------- MODULE LaunchdDev_proofs -------------------------
(***************************************************************************)
(* What LaunchdDev.tla promises, for any number of terminals, handlers,    *)
(* commands, faults and brokers.                                           *)
(*                                                                         *)
(* To the files of others: the marker is looked for once, before the tree  *)
(* is erased or made anew, and the plist once before it is rewritten.      *)
(* What keeps the files of others safe afterwards is that a tree of theirs *)
(* never gets a marker, and that no command is past its check while they   *)
(* are there.                                                              *)
(*                                                                         *)
(* To who runs a command: as long as nobody else does, each phase leaves   *)
(* the files, the service and the brokers in a state the next one can      *)
(* work with.  Followed says which, for a command of which no step has     *)
(* failed (Clean) and for one that is cleaned up after (CleaningUp); a     *)
(* step of anybody else ends what is followed.                             *)
(***************************************************************************)
EXTENDS LaunchdDev, TLAPS

Calls == [task : Tasks \cup {"none"}, rest : Seq(Tasks), pc : Phases, reply : {"none", "OK", "FAIL"}]

\* Between a check and what it guards.
PastTreeCheck == {"erasing", "making", "marking"}
Harmless == Phases \ (PastTreeCheck \cup {"writing"})

CallsOK == call \in [Actors -> Calls]

\* A tree of theirs has no marker, and nobody is about to erase it or to mark it.
TheirsUnmarked ==
  "theirs" \in tree =>
    "root" \in tree /\ "marker" \notin tree /\ \A a \in Actors : call[a].pc \notin PastTreeCheck

\* Nobody is about to write over a foreign plist.
ForeignUnwritten == plist = "foreign" => \A a \in Actors : call[a].pc # "writing"

\* A tree has a root.
Rooted == tree # {} => "root" \in tree

ForeignInv == CallsOK /\ TheirsUnmarked /\ ForeignUnwritten /\ Rooted

-----------------------------------------------------------------------------
\* An actor's call is in phase pc now; the other calls are as they were.
Moved(a, pc) ==
  CallsOK' /\ call'[a].pc = pc /\ \A b \in Actors \ {a} : call'[b] = call[b]

\* What Goes makes of a call.
LEMMA GoesTo ==
  ASSUME CallsOK, NEW a \in Actors, NEW pc \in Phases, Goes(a, pc)
  PROVE  Moved(a, pc)
BY DEF CallsOK, Calls, Goes, Moved

\* Every task begins with a phase that does no harm.
LEMMA FirstStepHarmless ==
  ASSUME NEW task
  PROVE  FirstStep(task) \in Harmless
BY DEF FirstStep, Harmless, Phases, PastTreeCheck

\* How a task ends.
LEMMA EndsTo ==
  ASSUME CallsOK, NEW a \in Actors, NEW ok \in BOOLEAN, Ends(a, ok)
  PROVE  \E pc \in Harmless : Moved(a, pc)
<1>1. call[a] \in Calls /\ call[a].rest \in Seq(Tasks)
  BY DEF CallsOK, Calls
<1>2. CASE call[a].rest # <<>> /\ (ok \/ Len(call[a].rest) = 3)
  <2> DEFINE next == [task |-> Head(call[a].rest), rest |-> Tail(call[a].rest),
                      pc |-> FirstStep(Head(call[a].rest)), reply |-> "none"]
  <2>1. call' = [call EXCEPT ![a] = next]
    BY <1>2 DEF Ends
  <2>2. Head(call[a].rest) \in Tasks /\ Tail(call[a].rest) \in Seq(Tasks)
    BY <1>1, <1>2
  <2>3. next.pc \in Harmless /\ next.pc \in Phases
    BY FirstStepHarmless DEF Harmless
  <2>4. next \in Calls
    BY <2>2, <2>3 DEF Calls
  <2> HIDE DEF next
  <2> QED
    BY <2>1, <2>3, <2>4 DEF Moved, CallsOK
<1>3. CASE ~(call[a].rest # <<>> /\ (ok \/ Len(call[a].rest) = 3))
  <2>1. PICK word \in {"OK", "FAIL"} :
          call' = [call EXCEPT ![a] = [@ EXCEPT !.pc = "answered", !.reply = word]]
    BY <1>3, Zenon DEF Ends
  <2>2. "answered" \in Harmless /\ "answered" \in Phases
    BY DEF Harmless, Phases, PastTreeCheck
  <2> QED
    BY <2>1, <2>2, <1>1 DEF Moved, CallsOK, Calls
<1> QED
  BY <1>2, <1>3

\* How an install fails.
LEMMA FailsTo ==
  ASSUME CallsOK, NEW a \in Actors, Fails(a)
  PROVE  \E pc \in Harmless : Moved(a, pc)
<1>1. CASE call[a].task = "install" /\ a \in Terminals
  <2>1. call' = [call EXCEPT ![a].task = "cleanup", ![a].pc = "bootout"]
    BY <1>1 DEF Fails
  <2>2. "bootout" \in Harmless /\ "bootout" \in Phases /\ "cleanup" \in Tasks
    BY DEF Harmless, Phases, PastTreeCheck, Tasks
  <2>3. call \in [Actors -> Calls]
    BY DEF CallsOK
  <2>4. Moved(a, "bootout")
    BY <2>1, <2>2, <2>3 DEF Moved, CallsOK, Calls
  <2> QED
    BY <2>2, <2>4
<1>2. CASE ~(call[a].task = "install" /\ a \in Terminals)
  BY <1>2, EndsTo DEF Fails
<1> QED
  BY <1>1, <1>2

\* How a step of the install ends.
LEMMA DoneTo ==
  ASSUME CallsOK, NEW a \in Actors, NEW pc \in Phases, Done(a, pc)
  PROVE  \E q \in Harmless \cup {pc} : Moved(a, q)
BY GoesTo, FailsTo DEF Done

\* The step after a stop.
LEMMA AfterStopTo ==
  ASSUME CallsOK, NEW a \in Actors, AfterStop(a)
  PROVE  \E pc \in Harmless : Moved(a, pc)
<1>1. PICK pc \in {"inspecting", "unlisting"} : Goes(a, pc)
  BY Zenon DEF AfterStop
<1> QED
  BY <1>1, GoesTo DEF Harmless, Phases, PastTreeCheck

\* The step after a removal.
LEMMA AfterRemovalTo ==
  ASSUME CallsOK, NEW a \in Actors, AfterRemoval(a)
  PROVE  \E pc \in Harmless \cup {"making"} : Moved(a, pc)
<1>1. CASE call[a].task = "cleanup"
  BY <1>1, EndsTo DEF AfterRemoval
<1>2. CASE call[a].task # "cleanup"
  <2>1. PICK pc \in {"making", "confirming"} : Goes(a, pc)
    BY <1>2, Zenon DEF AfterRemoval
  <2> QED
    BY <2>1, GoesTo DEF Harmless, Phases, PastTreeCheck
<1> QED
  BY <1>1, <1>2

-----------------------------------------------------------------------------
\* What NothingForeignGoes asks of a step.
Kept ==
  /\ "theirs" \in tree => "theirs" \in tree'
  /\ plist = "foreign" => plist' = "foreign"

\* A step keeps the invariant if nothing of others appears and nobody passes a check by it.
LEMMA Keeps ==
  ASSUME ForeignInv, CallsOK', Rooted',
         "theirs" \in tree' =>
           /\ "theirs" \in tree /\ ("marker" \in tree' => "marker" \in tree)
           /\ \A b \in Actors : call'[b].pc \in PastTreeCheck => call[b].pc \in PastTreeCheck,
         plist' = "foreign" =>
           plist = "foreign" /\ \A b \in Actors : call'[b].pc = "writing" => call[b].pc = "writing"
  PROVE  ForeignInv'
BY DEF ForeignInv, TheirsUnmarked, ForeignUnwritten, Rooted

\* In particular if an actor goes on to a harmless phase and at most directories are made.
LEMMA HarmlessStep ==
  ASSUME ForeignInv, NEW a \in Actors, \E pc \in Harmless : Moved(a, pc),
         plist' = plist, tree' \in {tree, tree \cup {"root"}, tree \cup {"root", "payload"}}
  PROVE  ForeignInv' /\ Kept
<1>1. PICK pc \in Harmless : Moved(a, pc)
  OBVIOUS
<1>2. \A b \in Actors : /\ call'[b].pc \in PastTreeCheck => call[b].pc \in PastTreeCheck
                        /\ call'[b].pc = "writing" => call[b].pc = "writing"
  BY <1>1 DEF Moved, Harmless
<1>3. CallsOK' /\ Rooted'
  BY <1>1 DEF Moved, ForeignInv, Rooted
<1> QED
  BY <1>2, <1>3, Keeps DEF Kept

\* Commands that begin, and the steps of stopLaunchdDev.
LEMMA Stopping_Inv ==
  ASSUME ForeignInv, NEW a \in Actors,
         (\E cmd \in {"install", "check", "uninstall", "cycle"} : Begin(a, cmd)) \/ Stopping(a)
  PROVE  ForeignInv' /\ Kept
<1>1. CallsOK
  BY DEF ForeignInv
<1>2. ASSUME NEW cmd \in {"install", "check", "uninstall", "cycle"}, Begin(a, cmd)
      PROVE  ForeignInv' /\ Kept
  <2> DEFINE first == [task |-> Head(TasksOf(cmd)), rest |-> Tail(TasksOf(cmd)),
                       pc |-> FirstStep(Head(TasksOf(cmd))), reply |-> "none"]
  <2>1. TasksOf(cmd) \in Seq(Tasks) /\ TasksOf(cmd) # <<>>
    <3>1. CASE cmd = "cycle"
      <4>1. TasksOf(cmd) = <<"uninstall", "install", "check", "uninstall">>
        BY <3>1 DEF TasksOf
      <4> QED
        BY <4>1 DEF Tasks
    <3>2. CASE cmd # "cycle"
      <4>1. TasksOf(cmd) = <<cmd>> /\ cmd \in Tasks
        BY <3>2 DEF TasksOf, Tasks
      <4> QED
        BY <4>1
    <3> QED
      BY <3>1, <3>2
  <2>2. first \in Calls /\ first.pc \in Harmless
    BY <2>1, FirstStepHarmless DEF Calls, Harmless
  <2>3. call' = [call EXCEPT ![a] = first] /\ UNCHANGED files
    BY <1>2 DEF Begin
  <2> HIDE DEF first
  <2>4. Moved(a, first.pc)
    BY <1>1, <2>2, <2>3 DEF Moved, CallsOK
  <2> QED
    BY <2>2, <2>3, <2>4, HarmlessStep DEF files
<1>3. CASE Stopping(a)
  <2>1. UNCHANGED files
    BY <1>3 DEF Stopping, NotLoaded, Bootout, BootoutFails, SocketGone, SocketStays
  <2>2. CASE Goes(a, "settling")
    <3>1. Moved(a, "settling") /\ "settling" \in Harmless
      BY <1>1, <2>2, GoesTo DEF Harmless, Phases, PastTreeCheck
    <3> QED
      BY <2>1, <3>1, HarmlessStep DEF files
  <2>3. CASE AfterStop(a)
    BY <1>1, <2>1, <2>3, AfterStopTo, HarmlessStep DEF files
  <2> QED
    BY <1>3, <2>2, <2>3 DEF Stopping, NotLoaded, Bootout, BootoutFails, SocketGone, SocketStays
<1> QED
  BY <1>2, <1>3

\* The checks and the removal.
LEMMA Removing_Inv ==
  ASSUME ForeignInv, NEW a \in Actors, Removing(a)
  PROVE  ForeignInv' /\ Kept
<1> USE DEF Harmless, Phases, PastTreeCheck, At, files
<1>1. CallsOK /\ TheirsUnmarked /\ Rooted
  BY DEF ForeignInv
<1>2. CASE Inspect(a)
  <2>1. (Goes(a, "clearing") \/ Fails(a)) /\ UNCHANGED files
    BY <1>2 DEF Inspect
  <2> QED
    BY <1>1, <2>1, GoesTo, FailsTo, HarmlessStep
<1>3. CASE Unlist(a)
  <2>1. (Goes(a, "clearing") \/ Ends(a, FALSE)) /\ tree' = tree
        /\ (plist = "foreign" => plist' = "foreign") /\ (plist' = "foreign" => plist = "foreign")
    BY <1>3 DEF Unlist, Ours
  <2>2. PICK pc \in Harmless : Moved(a, pc)
    BY <1>1, <2>1, GoesTo, EndsTo
  <2>3. CallsOK' /\ Rooted'
    BY <1>1, <2>1, <2>2 DEF Moved, Rooted
  <2> QED
    BY <2>1, <2>2, <2>3, Keeps DEF Moved, Kept
<1>4. CASE NoTree(a)
  <2>1. "theirs" \notin tree /\ UNCHANGED files
    BY <1>1, <1>4 DEF NoTree, TheirsUnmarked
  <2>2. PICK pc \in Harmless \cup {"making"} : Moved(a, pc)
    BY <1>1, <1>4, AfterRemovalTo DEF NoTree
  <2>3. CallsOK' /\ Rooted'
    BY <1>1, <2>1, <2>2 DEF Moved, Rooted
  <2> QED
    BY <2>1, <2>2, <2>3, Keeps DEF Moved, Kept
<1>5. CASE Clear(a)
  <2>1. UNCHANGED files /\ (Fails(a) \/ (Goes(a, "erasing") /\ "theirs" \notin tree))
    BY <1>1, <1>5 DEF Clear, Unmarked, TheirsUnmarked
  <2>2. CASE Fails(a)
    BY <1>1, <2>1, <2>2, FailsTo, HarmlessStep
  <2>3. CASE Goes(a, "erasing") /\ "theirs" \notin tree
    <3>1. Moved(a, "erasing")
      BY <1>1, <2>3, GoesTo
    <3>2. CallsOK' /\ Rooted'
      BY <1>1, <2>1, <3>1 DEF Moved, Rooted
    <3> QED
      BY <2>1, <2>3, <3>1, <3>2, Keeps DEF Moved, Kept
  <2> QED
    BY <2>1, <2>2, <2>3
<1>6. CASE Erase(a) \/ Erased(a)
  <2>1. "theirs" \notin tree /\ tree' \subseteq tree /\ UNCHANGED plist
    BY <1>1, <1>6 DEF Erase, Erased, TheirsUnmarked
  <2>2. Rooted'
    BY <1>1, <1>6 DEF Erase, Erased, Rooted
  <2>3. CallsOK' /\ \A b \in Actors : call'[b].pc = "writing" => call[b].pc = "writing"
    <3>1. CASE Erase(a)
      BY <1>1, <3>1 DEF Erase, CallsOK
    <3>2. CASE Erased(a)
      BY <1>1, <3>2, AfterRemovalTo DEF Erased, Moved
    <3> QED
      BY <1>6, <3>1, <3>2
  <2> QED
    BY <2>1, <2>2, <2>3, Keeps DEF Kept
<1>7. CASE EraseFails(a)
  BY <1>1, <1>7, FailsTo, HarmlessStep DEF EraseFails
<1> QED
  BY <1>2, <1>3, <1>4, <1>5, <1>6, <1>7 DEF Removing

\* Making the tree and the plist anew.
LEMMA Installing_Inv ==
  ASSUME ForeignInv, NEW a \in Actors, Installing(a)
  PROVE  ForeignInv' /\ Kept
<1> USE DEF Harmless, Phases, PastTreeCheck, At, files
<1>1. CallsOK /\ TheirsUnmarked /\ ForeignUnwritten /\ Rooted
  BY DEF ForeignInv
<1>2. CASE MakeRoot(a) \/ Mark(a)
  <2>1. "theirs" \notin tree /\ "theirs" \notin tree' /\ UNCHANGED plist
    BY <1>1, <1>2 DEF MakeRoot, Mark, TheirsUnmarked
  <2>2. PICK pc \in Harmless \cup {"marking"} : Moved(a, pc)
    BY <1>1, <1>2, DoneTo, FailsTo DEF MakeRoot, Mark
  <2>3. CallsOK' /\ Rooted'
    BY <1>1, <1>2, <2>2 DEF Moved, Rooted, MakeRoot, Mark
  <2> QED
    BY <2>1, <2>2, <2>3, Keeps DEF Moved, Kept
<1>3. CASE Fill(a)
  <2>1. \E pc \in Harmless : Moved(a, pc)
    BY <1>1, <1>3, DoneTo DEF Fill
  <2> QED
    BY <1>3, <2>1, HarmlessStep DEF Fill
<1>4. CASE Truncate(a) /\ Ours
  <2>1. plist # "foreign" /\ plist' = "cut" /\ tree' = tree
    BY <1>4 DEF Truncate, Ours
  <2>2. PICK pc \in Harmless \cup {"writing"} : Moved(a, pc)
    BY <1>1, <1>4, DoneTo DEF Truncate
  <2>3. CallsOK' /\ Rooted'
    BY <1>1, <2>1, <2>2 DEF Moved, Rooted
  <2> QED
    BY <2>1, <2>2, <2>3, Keeps DEF Moved, Kept
<1>5. CASE Truncate(a) /\ ~Ours
  BY <1>1, <1>5, FailsTo, HarmlessStep DEF Truncate
<1>6. CASE Write(a)
  <2>1. plist # "foreign" /\ plist' # "foreign" /\ tree' = tree
    BY <1>1, <1>6 DEF Write, ForeignUnwritten
  <2>2. PICK pc \in Harmless : Moved(a, pc)
    BY <1>1, <1>6, DoneTo, FailsTo DEF Write
  <2>3. CallsOK' /\ Rooted'
    BY <1>1, <2>1, <2>2 DEF Moved, Rooted
  <2> QED
    BY <2>1, <2>2, <2>3, Keeps DEF Moved, Kept
<1>7. CASE StepFails(a)
  BY <1>1, <1>7, FailsTo, HarmlessStep DEF StepFails
<1>8. CASE Bootstrap(a) \/ SocketThere(a) \/ SocketMissing(a)
  <2>1. (Goes(a, "awaiting") \/ Goes(a, "checking") \/ Fails(a)) /\ UNCHANGED files
    BY <1>8 DEF Bootstrap, SocketThere, SocketMissing
  <2> QED
    BY <1>1, <2>1, GoesTo, FailsTo, HarmlessStep
<1> QED
  BY <1>2, <1>3, <1>4, <1>5, <1>6, <1>7, <1>8 DEF Installing

\* The checks at the end, the brokers, kills and others.
LEMMA Other_Inv ==
  ASSUME ForeignInv,
         \/ \E a \in Actors : Checking(a) \/ Confirm(a)
         \/ \E n \in Numbers : Listen(n) \/ Secure(n) \/ Close(n) \/ Exit(n)
         \/ \E dead \in SUBSET Actors : Kill(dead)
         \/ Outsider
  PROVE  ForeignInv' /\ Kept
<1> USE DEF At, files
<1>1. CallsOK /\ Rooted
  BY DEF ForeignInv
<1>2. ASSUME NEW a \in Actors, Checking(a) \/ Confirm(a)
      PROVE  ForeignInv' /\ Kept
  <2>1. \E pc \in Harmless : Moved(a, pc)
    BY <1>1, <1>2, EndsTo, FailsTo DEF Checking, Check, CheckTooEarly, Confirm
  <2> QED
    BY <1>2, <2>1, HarmlessStep DEF Checking, Check, CheckTooEarly, Confirm
<1>3. ASSUME NEW n \in Numbers, Listen(n) \/ Secure(n) \/ Close(n) \/ Exit(n)
      PROVE  ForeignInv' /\ Kept
  <2>1. UNCHANGED <<call, plist>> /\ tree' \in {tree, tree \cup {"root"}}
    BY <1>3 DEF Listen, Secure, Close, Exit
  <2>2. CallsOK' /\ Rooted'
    BY <1>1, <2>1 DEF CallsOK, Rooted
  <2> QED
    BY <2>1, <2>2, Keeps DEF Kept
<1>4. ASSUME NEW dead \in SUBSET Actors, Kill(dead)
      PROVE  ForeignInv' /\ Kept
  <2> DEFINE gone == [task |-> "none", rest |-> <<>>, pc |-> "idle", reply |-> "none"]
  <2>1. gone \in Calls /\ gone.pc = "idle"
    BY DEF Calls, Phases, Tasks
  <2>2. UNCHANGED files /\ call' = [a \in Actors |-> IF a \in dead THEN gone ELSE call[a]]
    BY <1>4 DEF Kill
  <2> HIDE DEF gone
  <2>3. CallsOK' /\ Rooted'
    BY <1>1, <2>1, <2>2 DEF CallsOK, Rooted
  <2>4. \A b \in Actors : call'[b].pc \in {"idle", call[b].pc}
    BY <2>1, <2>2
  <2> QED
    BY <2>2, <2>3, <2>4, Keeps DEF Kept, PastTreeCheck
<1>5. CASE Outsider
  <2>1. UNCHANGED call /\ \A b \in Actors : call[b].pc \in {"idle", "answered"}
    BY <1>5 DEF Outsider, Busy
  <2>2. \/ tree' = {"root", "theirs"} /\ UNCHANGED plist
        \/ plist # "foreign" /\ UNCHANGED tree
    BY <1>5 DEF Outsider
  <2>3. Kept
    BY <1>5 DEF Outsider, Kept
  <2> QED
    BY <2>1, <2>2, <2>3 DEF ForeignInv, CallsOK, TheirsUnmarked, ForeignUnwritten, Rooted, PastTreeCheck
<1> QED
  BY <1>2, <1>3, <1>4, <1>5

-----------------------------------------------------------------------------
\* The system starts without anything of others.
LEMMA Init_Inv == Init => ForeignInv
<1> SUFFICES ASSUME Init PROVE ForeignInv
  OBVIOUS
<1>1. CallsOK
  BY DEF Init, CallsOK, Calls, Phases, Tasks
<1> QED
  BY <1>1 DEF Init, ForeignInv, TheirsUnmarked, ForeignUnwritten, Rooted

\* Every step keeps the invariant, and what is not the tool's own.
LEMMA Next_Inv == ForeignInv /\ [Next]_vars => ForeignInv' /\ Kept
<1> SUFFICES ASSUME ForeignInv, [Next]_vars PROVE ForeignInv' /\ Kept
  OBVIOUS
<1>1. CASE UNCHANGED vars
  BY <1>1 DEF vars, ForeignInv, CallsOK, TheirsUnmarked, ForeignUnwritten, Rooted, Kept
<1>2. CASE Next
  <2>1. \A t \in Terminals : {t} \in SUBSET Actors
    BY DEF Actors
  <2>2. Handlers \in SUBSET Actors
    BY DEF Actors
  <2> QED
    BY <1>2, <2>1, <2>2, Stopping_Inv, Removing_Inv, Installing_Inv, Other_Inv DEF Next
<1> QED
  BY <1>1, <1>2

\* Whenever something of others is there, no command is past the check that would refuse it.
THEOREM ForeignInvariant == Spec => []ForeignInv
<1> QED
  BY Init_Inv, Next_Inv, PTL DEF Spec

\* The files of others stay, whatever commands overlap, fail or are killed at any point.
THEOREM ForeignFilesStay == Spec => NothingForeignGoes
<1>1. ForeignInv /\ [Next]_vars => [Kept]_vars
  BY Next_Inv
<1>2. [Kept]_vars <=> [/\ "theirs" \in tree => "theirs" \in tree'
                       /\ plist = "foreign" => plist' = "foreign"]_vars
  BY DEF Kept
<1> QED
  BY <1>1, <1>2, ForeignInvariant, PTL DEF Spec, NothingForeignGoes

-----------------------------------------------------------------------------
(***************************************************************************)
(* Types, the mutex, and where in its tasks each actor can be.             *)
(***************************************************************************)
\* What is left of the cycle after its first, second and third task.
Left1 == <<"install", "check", "uninstall">>
Left2 == <<"check", "uninstall">>
Left3 == <<"uninstall">>

LEMMA LeftOvers ==
  /\ TasksOf("cycle") = <<"uninstall", "install", "check", "uninstall">>
  /\ Head(TasksOf("cycle")) = "uninstall" /\ Tail(TasksOf("cycle")) = Left1
  /\ Head(Left1) = "install" /\ Tail(Left1) = Left2 /\ Left1 # <<>> /\ Len(Left1) = 3
  /\ Head(Left2) = "check" /\ Tail(Left2) = Left3 /\ Left2 # <<>> /\ Len(Left2) = 2
  /\ Head(Left3) = "uninstall" /\ Tail(Left3) = <<>> /\ Left3 # <<>> /\ Len(Left3) = 1
  /\ {Left1, Left2, Left3} \subseteq Seq(Tasks)
<1>1. TasksOf("cycle") = <<"uninstall", "install", "check", "uninstall">>
  BY DEF TasksOf
<1>2. Head(TasksOf("cycle")) = "uninstall" /\ Tail(TasksOf("cycle")) = Left1
  <2>1. /\ Head(<<"uninstall", "install", "check", "uninstall">>) = "uninstall"
        /\ Tail(<<"uninstall", "install", "check", "uninstall">>) = <<"install", "check", "uninstall">>
    OBVIOUS
  <2> QED
    BY <1>1, <2>1, Zenon DEF Left1
<1>3. Head(Left1) = "install" /\ Tail(Left1) = Left2 /\ Left1 # <<>> /\ Len(Left1) = 3
  BY DEF Left1, Left2
<1>4. Head(Left2) = "check" /\ Tail(Left2) = Left3 /\ Left2 # <<>> /\ Len(Left2) = 2
  BY DEF Left2, Left3
<1>5. Head(Left3) = "uninstall" /\ Tail(Left3) = <<>> /\ Left3 # <<>> /\ Len(Left3) = 1
  BY DEF Left3
<1>6. {Left1, Left2, Left3} \subseteq Seq(Tasks)
  BY DEF Left1, Left2, Left3, Tasks
<1> QED
  BY <1>1, <1>2, <1>3, <1>4, <1>5, <1>6

\* Which tasks and phases go together; only a handler runs the cycle.
Shape(a) ==
  LET task == call[a].task
      rest == call[a].rest
      pc == call[a].pc
  IN  /\ \/ rest = <<>>
         \/ a \in Handlers /\ \/ task = "uninstall" /\ rest = Left1
                              \/ task = "install" /\ rest = Left2
                              \/ task = "check" /\ rest = Left3
      /\ pc = "idle" <=> task = "none"
      /\ task = "check" => pc \in {"checking", "answered"}
      /\ task = "cleanup" =>
           pc \in {"bootout", "settling", "unlisting", "clearing", "erasing", "answered"}
      /\ task = "uninstall" =>
           pc \in {"bootout", "settling", "unlisting", "clearing", "erasing", "confirming", "answered"}
      /\ task = "install" => pc \notin {"unlisting", "confirming"}

\* The handler that is busy holds the mutex.
MutexOK == mutex \in Handlers \cup {None} /\ \A h \in Handlers : Busy(h) <=> mutex = h

FilesOK ==
  /\ tree \subseteq {"root", "marker", "payload", "theirs"} /\ Rooted
  /\ plist \in {"none", "ours", "cut", "foreign"}

\* The socket is that of a broker that listens, and the loaded service has not been told to end.
ServiceOK ==
  /\ loaded \in Numbers \cup {None} /\ socket \in Numbers \cup {None}
  /\ brokers \in [Numbers -> [pc : {"unborn", "new", "bound", "serving", "closed", "ended"}, signalled : BOOLEAN]]
  /\ socket # None => brokers[socket].pc \in {"bound", "serving"} /\ "root" \in tree
  /\ loaded # None => ~brokers[loaded].signalled
  /\ \A n \in Numbers : brokers[n].pc = "unborn" => ~brokers[n].signalled /\ loaded # n

CountsOK ==
  /\ given \in 0 .. MaxCommands /\ faults \in 0 .. MaxFaults
  /\ course \in [Actors -> {"clean", "failed", "other"}]

ActorsOK == CallsOK /\ \A a \in Actors : Shape(a)

\* The actor a has taken a step of its own.
StepBy(a) ==
  /\ Busy(a) /\ CallsOK' /\ Shape(a)'
  /\ \A b \in Actors \ {a} : call'[b] = call[b]
  /\ mutex' = IF mutex = a /\ ~Busy(a)' THEN None ELSE mutex

\* The last clause of Shape: the other tasks are the only ones a phase can belong to.
LEMMA GoesOn ==
  ASSUME ActorsOK, NEW a \in Actors, NEW pc \in Phases, Busy(a), Goes(a, pc), UNCHANGED mutex,
         pc \notin {"idle", "answered"},
         call[a].task = "install" => pc \notin {"unlisting", "confirming"},
         call[a].task = "check" => pc = "checking",
         call[a].task = "cleanup" => pc \in {"bootout", "settling", "unlisting", "clearing", "erasing"},
         call[a].task = "uninstall" =>
           pc \in {"bootout", "settling", "unlisting", "clearing", "erasing", "confirming"}
  PROVE  /\ StepBy(a) /\ call'[a].pc = pc
         /\ call'[a].task = call[a].task /\ call'[a].rest = call[a].rest
<1>1. Moved(a, pc)
  BY GoesTo DEF ActorsOK
<1>2. call'[a].task = call[a].task /\ call'[a].rest = call[a].rest
  BY DEF Goes, ActorsOK, CallsOK, Calls
<1>3. call[a].task # "none"
  BY DEF ActorsOK, Shape, Busy
<1>4. Shape(a)'
  BY <1>1, <1>2, <1>3 DEF Shape, Moved, ActorsOK
<1> QED
  BY <1>1, <1>2, <1>4 DEF StepBy, Moved, Busy

\* Which tasks have a phase.
LEMMA TaskAt ==
  ASSUME ActorsOK, NEW a \in Actors, Busy(a)
  PROVE  /\ call[a].task \in Tasks
         /\ call[a].pc \in {"inspecting", "making", "marking", "filling", "listing", "writing", "starting",
                           "awaiting"} => call[a].task = "install"
         /\ call[a].pc = "confirming" => call[a].task = "uninstall"
         /\ call[a].pc = "unlisting" => call[a].task \in {"uninstall", "cleanup"}
         /\ call[a].pc = "checking" => call[a].task \in {"install", "check"}
         /\ call[a].pc # "checking" => call[a].task # "check"
BY DEF ActorsOK, CallsOK, Calls, Shape, Busy, Tasks

\* What a task's end makes of a call: the answer, or the next task of the cycle.
EndsAs(a, ok) ==
  \/ /\ call'[a].pc = "answered" /\ call'[a].reply = (IF ok THEN "OK" ELSE "FAIL")
     /\ call'[a].task = call[a].task /\ call'[a].rest = call[a].rest
     /\ call[a].task = "uninstall" => call[a].rest = <<>>
     /\ ok => call[a].rest = <<>>
  \/ /\ call[a].task = "uninstall" /\ call[a].rest = Left1
     /\ call'[a].task = "install" /\ call'[a].rest = Left2 /\ call'[a].pc = "bootout"
  \/ /\ ok /\ call[a].task = "install" /\ call[a].rest = Left2
     /\ call'[a].task = "check" /\ call'[a].rest = Left3 /\ call'[a].pc = "checking"
  \/ /\ ok /\ call[a].task = "check" /\ call[a].rest = Left3
     /\ call'[a].task = "uninstall" /\ call'[a].rest = <<>> /\ call'[a].pc = "bootout"

LEMMA EndsOn ==
  ASSUME ActorsOK, NEW a \in Actors, NEW ok \in BOOLEAN, Busy(a), Ends(a, ok)
  PROVE  StepBy(a) /\ EndsAs(a, ok)
<1>1. CallsOK' /\ \A b \in Actors \ {a} : call'[b] = call[b]
  BY EndsTo DEF ActorsOK, Moved
<1>2. call[a] \in Calls /\ Shape(a) /\ call[a].task # "none"
  BY DEF ActorsOK, CallsOK, Shape, Busy
<1> DEFINE rest == call[a].rest
           goesOn == rest # <<>> /\ (ok \/ Len(rest) = 3)
<1>3. CASE ~goesOn
  <2>1. /\ call' = [call EXCEPT ![a] = [@ EXCEPT !.pc = "answered", !.reply = IF ok THEN "OK" ELSE "FAIL"]]
        /\ mutex' = IF mutex = a THEN None ELSE mutex
    BY <1>3, Zenon DEF Ends
  <2>2. /\ call'[a].pc = "answered" /\ call'[a].reply = (IF ok THEN "OK" ELSE "FAIL")
        /\ call'[a].task = call[a].task /\ call'[a].rest = call[a].rest
    BY <2>1, <1>2 DEF ActorsOK, CallsOK, Calls
  <2>3. call[a].task = "uninstall" => rest = <<>>
    BY <1>3, <1>2, LeftOvers DEF Shape
  <2>4. Shape(a)'
    BY <1>2, <2>2 DEF Shape
  <2> QED
    BY <1>1, <1>3, <2>1, <2>2, <2>3, <2>4 DEF StepBy, EndsAs, Busy
<1>4. CASE goesOn
  <2> DEFINE next == [task |-> Head(rest), rest |-> Tail(rest), pc |-> FirstStep(Head(rest)), reply |-> "none"]
  <2>1. call' = [call EXCEPT ![a] = next] /\ mutex' = mutex
    BY <1>4, Zenon DEF Ends
  <2>2. call'[a] = next
    BY <2>1 DEF ActorsOK, CallsOK
  <2>3. CASE call[a].task = "uninstall" /\ rest = Left1
    <3>1. call'[a].task = "install" /\ call'[a].rest = Left2 /\ call'[a].pc = "bootout"
      BY <2>2, <2>3, LeftOvers DEF FirstStep
    <3>2. Shape(a)'
      BY <2>3, <3>1, <1>2, LeftOvers DEF Shape
    <3> QED
      BY <1>1, <2>1, <2>3, <3>1, <3>2 DEF StepBy, EndsAs, Busy
  <2>4. CASE call[a].task = "install" /\ rest = Left2
    <3>1. call'[a].task = "check" /\ call'[a].rest = Left3 /\ call'[a].pc = "checking"
      BY <2>2, <2>4, LeftOvers DEF FirstStep
    <3>2. Shape(a)'
      BY <2>4, <3>1, <1>2, LeftOvers DEF Shape
    <3> QED
      BY <1>1, <1>4, <2>1, <2>4, <3>1, <3>2, LeftOvers DEF StepBy, EndsAs, Busy
  <2>5. CASE call[a].task = "check" /\ rest = Left3
    <3>1. call'[a].task = "uninstall" /\ call'[a].rest = <<>> /\ call'[a].pc = "bootout"
      BY <2>2, <2>5, LeftOvers DEF FirstStep
    <3>2. Shape(a)'
      BY <2>5, <3>1, <1>2, LeftOvers DEF Shape
    <3> QED
      BY <1>1, <1>4, <2>1, <2>5, <3>1, <3>2, LeftOvers DEF StepBy, EndsAs, Busy
  <2> QED
    BY <1>2, <1>4, <2>3, <2>4, <2>5 DEF Shape
<1> QED
  BY <1>3, <1>4

\* A failure is answered, goes on with the cycle, or is cleaned up after.
FailsAs(a) ==
  \/ /\ call[a].task = "install" /\ a \in Terminals
     /\ call'[a].task = "cleanup" /\ call'[a].pc = "bootout" /\ call'[a].rest = call[a].rest
  \/ call[a].task = "install" /\ a \in Handlers /\ EndsAs(a, FALSE)
  \/ call[a].task # "install" /\ EndsAs(a, FALSE)

LEMMA FailsOn ==
  ASSUME ActorsOK, NEW a \in Actors, Busy(a), Fails(a)
  PROVE  StepBy(a) /\ FailsAs(a)
<1>1. CASE call[a].task = "install" /\ a \in Terminals
  <2>1. call' = [call EXCEPT ![a].task = "cleanup", ![a].pc = "bootout"] /\ mutex' = mutex
    BY <1>1 DEF Fails
  <2>2. call'[a].task = "cleanup" /\ call'[a].pc = "bootout" /\ call'[a].rest = call[a].rest
    BY <2>1 DEF ActorsOK, CallsOK, Calls
  <2>3. CallsOK' /\ \A b \in Actors \ {a} : call'[b] = call[b]
    BY FailsTo DEF ActorsOK, Moved
  <2>4. call[a].rest = <<>>
    BY <1>1, LaunchdConstants DEF ActorsOK, Shape
  <2>5. Shape(a)'
    BY <2>2, <2>4 DEF Shape
  <2> QED
    BY <1>1, <2>1, <2>2, <2>3, <2>5 DEF StepBy, FailsAs, Busy
<1>2. CASE ~(call[a].task = "install" /\ a \in Terminals)
  BY <1>2, EndsOn, Zenon DEF Fails, FailsAs, Actors
<1> QED
  BY <1>1, <1>2

\* A step of an actor keeps the mutex and the shapes.
LEMMA StepBy_Keeps ==
  ASSUME ActorsOK, MutexOK, NEW a \in Actors, StepBy(a)
  PROVE  ActorsOK' /\ MutexOK'
<1>1. ASSUME NEW b \in Actors
      PROVE  Shape(b)'
  BY DEF StepBy, ActorsOK, Shape
<1>2. MutexOK'
  <2>1. ASSUME NEW h \in Handlers
        PROVE  Busy(h)' <=> mutex' = h
    BY LaunchdConstants DEF StepBy, MutexOK, Busy, Actors
  <2> QED
    BY <2>1 DEF MutexOK, StepBy
<1> QED
  BY <1>1, <1>2 DEF ActorsOK, StepBy

-----------------------------------------------------------------------------
(***************************************************************************)
(* What a command that began clean has brought about, phase by phase.      *)
(***************************************************************************)
MarkedTree == "root" \in tree => "marker" \in tree
Full == {"root", "marker", "payload"} \subseteq tree
NoNew == \A n \in Numbers : brokers[n].pc # "new"
OnlyClosed == \A n \in Numbers : Alive(n) => brokers[n].pc = "closed"
OnlyLoaded == \A n \in Numbers : Alive(n) => brokers[n].pc = "closed" \/ n = loaded
Served == loaded # None /\ socket = loaded /\ OnlyLoaded
Gone == tree = {} /\ plist = "none" /\ loaded = None /\ socket = None /\ \A n \in Numbers : ~Alive(n)

\* While a command's course is followed nobody else runs or is followed.
Alone(a) == \A b \in Actors \ {a} : ~Busy(b) /\ course[b] = "other"

\* Whether a step of the command has failed or not.
Undisturbed(a) ==
  LET task == call[a].task
      pc == call[a].pc
      own == task \in {"install", "uninstall"}
  IN  /\ pc # "idle" /\ plist # "foreign"
      /\ pc # "erasing" /\ "payload" \in tree => "marker" \in tree
      /\ own /\ pc \in {"bootout", "settling", "inspecting", "unlisting", "clearing"} => MarkedTree
      /\ own /\ pc \in {"bootout", "settling", "inspecting", "unlisting", "clearing", "erasing",
                        "making", "marking", "filling", "listing"} => Ours
      /\ task = "uninstall" /\ pc \in {"clearing", "erasing", "confirming"} => plist = "none"
      /\ task # "cleanup" /\ pc \notin {"awaiting", "answered"} => NoNew
      /\ pc \in {"confirming", "making"} => tree = {}
      /\ pc = "marking" => "root" \in tree
      /\ pc = "filling" => {"root", "marker"} \subseteq tree
      /\ pc \in {"listing", "writing", "starting", "awaiting"} => Full
      /\ pc = "writing" => plist = "cut"
      /\ pc \in {"starting", "awaiting"} => plist = "ours"
      /\ pc = "checking" /\ (task = "install" \/ call[a].rest # <<>>) => Full /\ plist = "ours"
      /\ pc \in {"making", "marking", "filling", "listing", "writing", "starting"} => socket = None
      /\ pc = "awaiting" => /\ loaded # None /\ socket \in {None, loaded}
                            /\ \A n \in Numbers : brokers[n].pc = "new" => n = loaded
      /\ pc = "answered" /\ task = "uninstall" /\ call[a].reply = "OK" => Gone

\* After one step has failed, in the cleanup.
CleaningUp(a) ==
  call[a].task = "cleanup" =>
    /\ call[a].pc \in {"settling", "unlisting", "clearing", "erasing", "answered"} => loaded = None
    /\ call[a].pc \in {"clearing", "erasing", "answered"} => plist \in {"none", "cut"}
    /\ call[a].pc = "answered" => tree \cap {"marker", "payload"} = {}

\* As long as no step has failed.
Clean(a) ==
  LET task == call[a].task
      pc == call[a].pc
  IN  /\ task # "cleanup"
      /\ pc = "bootout" =>
           \A n \in Numbers : Alive(n) => brokers[n].pc = "closed" \/ (loaded = n /\ socket = n)
      /\ pc = "settling" =>
           loaded = None /\ \A n \in Numbers : Alive(n) => brokers[n].pc = "closed" \/ socket = n
      /\ pc \in {"inspecting", "unlisting", "clearing", "erasing", "making", "marking", "filling",
                "listing", "writing", "starting", "confirming"} => loaded = None /\ OnlyClosed
      /\ pc = "awaiting" => OnlyLoaded /\ (brokers[loaded].pc = "new" \/ socket = loaded)
      /\ pc = "checking" /\ (task = "install" \/ call[a].rest # <<>>) => Served
      /\ pc = "answered" /\ task = "install" =>
           call[a].reply = "OK" /\ Served /\ plist = "ours" /\ Full

Facts(a) ==
  /\ Undisturbed(a)
  /\ course[a] = "failed" => CleaningUp(a)
  /\ course[a] = "clean" => Clean(a)

Followed == \A a \in Actors : course[a] # "other" => Alone(a) /\ Facts(a)

InstallInv ==
  ActorsOK /\ MutexOK /\ FilesOK /\ ServiceOK /\ CountsOK /\ Followed

\* A step of an actor ends the courses of all others, so that its own facts are what is to show.
LEMMA OwnCourse ==
  ASSUME InstallInv, NEW a \in Actors, StepBy(a), FilesOK', ServiceOK', given' = given,
         NoFault \/ OwnFault(a) \/ Mishap(a) \/ Spoilt,
         course[a] # "other" /\ course'[a] # "other" => Facts(a)'
  PROVE  InstallInv'
<1>1. ActorsOK' /\ MutexOK'
  BY StepBy_Keeps DEF InstallInv
<1>2. CountsOK'
  BY LaunchdConstants DEF InstallInv, CountsOK, NoFault, OwnFault, Mishap, Spoilt, Fault
<1>3. \A b \in Actors : course'[b] # "other" => course[b] # "other" 
  BY DEF NoFault, OwnFault, Mishap, Spoilt, InstallInv, CountsOK
<1>4. \A b \in Actors \ {a} : course[b] = "other"
  BY DEF InstallInv, Followed, Alone, StepBy
<1>5. \A b \in Actors \ {a} : course'[b] = "other"
  BY <1>3, <1>4
<1>6. course'[a] # "other" => Alone(a)'
  BY <1>3, <1>5 DEF InstallInv, Followed, Alone, StepBy, Busy
<1>7. Followed'
  BY <1>3, <1>5, <1>6 DEF Followed
<1> QED
  BY <1>1, <1>2, <1>7 DEF InstallInv

\* Stopping the service.
LEMMA Stopping_Facts ==
  ASSUME InstallInv, NEW a \in Actors, Stopping(a)
  PROVE  InstallInv'
<1> USE DEF At, Busy
<1>1. ActorsOK /\ Shape(a) /\ FilesOK /\ ServiceOK /\ (course[a] # "other" => Facts(a))
  BY DEF InstallInv, ActorsOK, Followed
<1>2. CASE Bootout(a)
  <2>1. StepBy(a) /\ call'[a].pc = "settling" /\ call'[a].task = call[a].task /\ call'[a].rest = call[a].rest
    BY <1>1, <1>2, GoesOn DEF Bootout, Shape, Phases
  <2>2. FilesOK' /\ ServiceOK'
    <3>1. loaded \in Numbers /\ brokers' = [brokers EXCEPT ![loaded].signalled = TRUE]
      BY <1>1, <1>2 DEF Bootout, ServiceOK
    <3>2. /\ brokers' \in [Numbers -> [pc : {"unborn", "new", "bound", "serving", "closed", "ended"}, signalled : BOOLEAN]]
          /\ \A n \in Numbers : brokers'[n].pc = brokers[n].pc
          /\ \A n \in Numbers \ {loaded} : brokers'[n] = brokers[n]
      BY <1>1, <3>1 DEF ServiceOK
    <3>3. \A n \in Numbers : loaded' # n
      BY <1>2, LaunchdConstants DEF Bootout, Numbers
    <3> QED
      BY <1>1, <1>2, <3>1, <3>2, <3>3 DEF Bootout, FilesOK, Rooted, ServiceOK, files
  <2>3. ASSUME course[a] # "other"
        PROVE  Facts(a)'
    BY <1>1, <1>2, <2>1, <2>3 DEF Bootout, Facts, Undisturbed, CleaningUp, Clean, NoFault, files, ServiceOK,
       Alive, MarkedTree, Ours, NoNew
  <2> QED
    BY <1>2, <2>1, <2>2, <2>3, OwnCourse DEF Bootout
<1>3. CASE NotLoaded(a) \/ BootoutFails(a) \/ SocketGone(a) \/ SocketStays(a)
  <2>1. AfterStop(a) /\ UNCHANGED <<files, service, given>> /\ (NoFault \/ OwnFault(a))
    BY <1>3 DEF NotLoaded, BootoutFails, SocketGone, SocketStays
  <2>2. /\ StepBy(a) /\ call'[a].task = call[a].task /\ call'[a].rest = call[a].rest
        /\ call'[a].pc = IF call[a].task = "install" THEN "inspecting" ELSE "unlisting"
    BY <1>1, <1>3, <2>1, GoesOn DEF AfterStop, Shape, Phases, NotLoaded, BootoutFails, SocketGone, SocketStays
  <2>3. FilesOK' /\ ServiceOK'
    BY <1>1, <2>1 DEF FilesOK, Rooted, ServiceOK, files, service
  <2>4. ASSUME course[a] # "other", course'[a] # "other"
        PROVE  Facts(a)'
    <3>1. Undisturbed(a)'
      BY <1>1, <1>3, <2>1, <2>2, <2>4 DEF Facts, Undisturbed, files, service, MarkedTree, Ours, NoNew,
         NotLoaded, BootoutFails, SocketGone, SocketStays
    <3>2. CASE NotLoaded(a)
      BY <1>1, <2>2, <2>4, <3>1, <3>2, LaunchdConstants DEF NotLoaded, NoFault, Facts, CleaningUp, Clean, files, service,
         Alive, OnlyClosed, Numbers
    <3>3. CASE BootoutFails(a)
      BY <1>1, <2>2, <2>4, <3>1, <3>3 DEF BootoutFails, OwnFault, Facts, CleaningUp, Clean
    <3>4. CASE SocketGone(a)
      BY <1>1, <2>2, <2>4, <3>1, <3>4, LaunchdConstants DEF SocketGone, NoFault, Facts, CleaningUp, Clean, files, service,
         Alive, OnlyClosed, Numbers
    <3>5. CASE SocketStays(a)
      BY <1>1, <2>2, <2>4, <3>1, <3>5 DEF SocketStays, OwnFault, Facts, CleaningUp, Clean
    <3> QED
      BY <1>3, <3>2, <3>3, <3>4, <3>5
  <2> QED
    BY <2>1, <2>2, <2>3, <2>4, OwnCourse
<1> QED
  BY <1>2, <1>3 DEF Stopping

\* Removing the plist and the tree.
LEMMA Removing_Facts ==
  ASSUME InstallInv, NEW a \in Actors, Removing(a)
  PROVE  InstallInv'
<1> USE DEF At, Busy
<1>1. /\ ActorsOK /\ Shape(a) /\ FilesOK /\ ServiceOK /\ (course[a] # "other" => Facts(a))
      /\ call[a].rest = <<>> \/ a \in Handlers
  BY DEF InstallInv, ActorsOK, Followed, Shape
<1>0. ASSUME ~(call[a].pc \in {"idle", "answered"})
      PROVE  /\ call[a].task \in {"install", "check", "uninstall", "cleanup"}
             /\ call[a].pc = "inspecting" => call[a].task = "install"
             /\ call[a].pc = "unlisting" => call[a].task \in {"uninstall", "cleanup"}
             /\ call[a].pc # "checking" => call[a].task # "check"
  BY <1>1, <1>0, TaskAt DEF Tasks
<1>2. CASE Inspect(a)
  <2>1. FilesOK' /\ ServiceOK'
    BY <1>1, <1>2 DEF Inspect, FilesOK, Rooted, ServiceOK, files, service
  <2>2. CASE Ours
    <3>1. /\ StepBy(a) /\ call'[a].pc = "clearing"
          /\ call'[a].task = call[a].task /\ call'[a].rest = call[a].rest
      BY <1>1, <1>2, <2>2, GoesOn DEF Inspect, Shape, Phases
    <3>2. ASSUME course[a] # "other"
          PROVE  Facts(a)'
      BY <1>1, <1>2, <1>0, <2>2, <3>1, <3>2 DEF Inspect, NoFault, Facts, Undisturbed, CleaningUp, Clean,
         files, service, MarkedTree, Ours, NoNew, OnlyClosed, Alive
    <3> QED
      BY <1>2, <2>1, <3>1, <3>2, OwnCourse DEF Inspect
  <2>3. CASE ~Ours
    <3>1. StepBy(a)
      BY <1>1, <1>2, <2>3, FailsOn DEF Inspect
    <3>2. course[a] = "other"
      BY <1>1, <1>2, <1>0, <2>3 DEF Inspect, Facts, Undisturbed
    <3> QED
      BY <1>2, <2>1, <3>1, <3>2, OwnCourse DEF Inspect
  <2> QED
    BY <2>2, <2>3
<1>3. CASE Unlist(a)
  <2>1. FilesOK' /\ ServiceOK'
    BY <1>1, <1>3 DEF Unlist, FilesOK, Rooted, ServiceOK, service
  <2>2. CASE Ours \/ call[a].task = "cleanup"
    <3>1. /\ StepBy(a) /\ call'[a].pc = "clearing"
          /\ call'[a].task = call[a].task /\ call'[a].rest = call[a].rest
      BY <1>1, <1>3, <2>2, GoesOn DEF Unlist, Shape, Phases
    <3>2. ASSUME course[a] # "other"
          PROVE  Facts(a)'
      <4>1. Undisturbed(a)'
        BY <1>1, <1>3, <1>0, <2>2, <3>1, <3>2 DEF Unlist, NoFault, Facts, Undisturbed,
           service, MarkedTree, Ours, NoNew
      <4>2. (course[a] = "failed" => CleaningUp(a)') /\ (course[a] = "clean" => Clean(a)')
        BY <1>1, <1>3, <2>2, <3>1, <3>2 DEF Unlist, NoFault, Facts, Undisturbed, CleaningUp, Clean, Shape,
           service, Ours, OnlyClosed, Alive, FilesOK
      <4> QED
        BY <1>3, <4>1, <4>2 DEF Unlist, NoFault, Facts
    <3> QED
      BY <1>3, <2>1, <3>1, <3>2, OwnCourse DEF Unlist
  <2>3. CASE ~(Ours \/ call[a].task = "cleanup")
    <3>1. StepBy(a)
      BY <1>1, <1>3, <2>3, EndsOn DEF Unlist
    <3>2. course[a] = "other"
      BY <1>1, <1>3, <1>0, <2>3 DEF Unlist, Facts, Undisturbed
    <3> QED
      BY <1>3, <2>1, <3>1, <3>2, OwnCourse DEF Unlist
  <2> QED
    BY <2>2, <2>3
<1>4. CASE NoTree(a) \/ Erased(a)
  <2>1. AfterRemoval(a) /\ NoFault /\ tree' = {} /\ socket = None /\ UNCHANGED <<plist, service, given>>
    BY <1>1, <1>4 DEF NoTree, Erased, files, FilesOK, Rooted, ServiceOK
  <2>2. FilesOK' /\ ServiceOK'
    BY <1>1, <2>1 DEF FilesOK, Rooted, ServiceOK, service
  <2>3. CASE call[a].task = "cleanup"
    <3>1. Ends(a, FALSE)
      BY <2>1, <2>3 DEF AfterRemoval
    <3>2. StepBy(a) /\ EndsAs(a, FALSE)
      BY <1>1, <1>4, <3>1, EndsOn DEF NoTree, Erased
    <3>3. call'[a].pc = "answered" /\ call'[a].task = "cleanup"
      BY <2>3, <3>2 DEF EndsAs
    <3>4. ASSUME course[a] # "other"
          PROVE  Facts(a)'
      BY <1>1, <1>4, <2>1, <2>3, <3>3, <3>4 DEF NoTree, Erased, NoFault, Facts, Undisturbed, CleaningUp, Clean, service
    <3> QED
      BY <2>1, <2>2, <3>2, <3>4, OwnCourse
  <2>4. CASE call[a].task # "cleanup"
    <3>1. /\ StepBy(a) /\ call'[a].pc = IF call[a].task = "install" THEN "making" ELSE "confirming"
          /\ call'[a].task = call[a].task /\ call'[a].rest = call[a].rest
      BY <1>1, <1>4, <2>1, <2>4, GoesOn DEF AfterRemoval, Shape, Phases, NoTree, Erased
    <3>2. ASSUME course[a] # "other"
          PROVE  Facts(a)'
      BY <1>1, <1>4, <2>1, <2>4, <3>1, <3>2 DEF NoTree, Erased, NoFault, Facts, Undisturbed, CleaningUp, Clean,
         Shape, service, Ours, NoNew, OnlyClosed, Alive
    <3> QED
      BY <2>1, <2>2, <3>1, <3>2, OwnCourse
  <2> QED
    BY <2>3, <2>4
<1>5. CASE Clear(a)
  <2>1. FilesOK' /\ ServiceOK'
    BY <1>1, <1>5 DEF Clear, FilesOK, Rooted, ServiceOK, files, service
  <2>2. CASE Unmarked
    <3>1. StepBy(a) /\ FailsAs(a)
      BY <1>1, <1>5, <2>2, FailsOn DEF Clear
    <3>2. ASSUME course[a] # "other"
          PROVE  Facts(a)'
      <4>1. call[a].task = "cleanup" /\ "payload" \notin tree /\ "marker" \notin tree
        BY <1>1, <1>5, <1>0, <2>2, <3>2 DEF Clear, Unmarked, Facts, Undisturbed, MarkedTree
      <4>2. call'[a].pc = "answered" /\ call'[a].task = "cleanup"
        BY <3>1, <4>1 DEF FailsAs, EndsAs
      <4> QED
        BY <1>1, <1>5, <3>2, <4>1, <4>2 DEF Clear, NoFault, Facts, Undisturbed, CleaningUp, Clean, files, service
    <3> QED
      BY <1>5, <2>1, <3>1, <3>2, OwnCourse DEF Clear
  <2>3. CASE ~Unmarked
    <3>1. /\ StepBy(a) /\ call'[a].pc = "erasing"
          /\ call'[a].task = call[a].task /\ call'[a].rest = call[a].rest
      BY <1>1, <1>5, <2>3, GoesOn DEF Clear, Shape, Phases
    <3>2. ASSUME course[a] # "other"
          PROVE  Facts(a)'
      BY <1>1, <1>5, <3>1, <3>2 DEF Clear, NoFault, Facts, Undisturbed, CleaningUp, Clean, Shape,
         files, service, Ours, NoNew, OnlyClosed, Alive
    <3> QED
      BY <1>5, <2>1, <3>1, <3>2, OwnCourse DEF Clear
  <2> QED
    BY <2>2, <2>3
<1>6. CASE Erase(a)
  <2>1. StepBy(a)
    BY <1>1, <1>6 DEF Erase, StepBy, ActorsOK, CallsOK, Shape
  <2>2. FilesOK' /\ ServiceOK'
    BY <1>1, <1>6 DEF Erase, FilesOK, Rooted, ServiceOK
  <2>3. ASSUME course[a] # "other"
        PROVE  Facts(a)'
    BY <1>1, <1>6, <2>3 DEF Erase, NoFault, Facts, Undisturbed, CleaningUp, Clean, Ours, NoNew, OnlyClosed, Alive
  <2> QED
    BY <1>6, <2>1, <2>2, <2>3, OwnCourse DEF Erase
<1>7. CASE EraseFails(a)
  <2>1. StepBy(a)
    BY <1>1, <1>7, FailsOn DEF EraseFails
  <2>2. FilesOK' /\ ServiceOK' /\ course'[a] = "other"
    BY <1>1, <1>7 DEF EraseFails, FilesOK, Rooted, ServiceOK, files, service, Spoilt
  <2> QED
    BY <1>7, <2>1, <2>2, OwnCourse DEF EraseFails
<1> QED
  BY <1>2, <1>3, <1>4, <1>5, <1>6, <1>7 DEF Removing

\* A failing step of an install is cleaned up after, or the end of the command.
LEMMA InstallFails ==
  ASSUME InstallInv, NEW a \in Actors, Busy(a), call[a].task = "install", Fails(a),
         FilesOK', ServiceOK', given' = given, OwnFault(a) \/ Spoilt \/ (NoFault /\ course[a] # "clean"),
         plist' # "foreign", "payload" \in tree' => "marker" \in tree'
  PROVE  InstallInv'
<1>1. StepBy(a) /\ FailsAs(a)
  BY FailsOn DEF InstallInv
<1>2. \/ call'[a].task = "cleanup" /\ call'[a].pc = "bootout"
      \/ call'[a].task = "install" /\ call'[a].pc = "answered"
  BY <1>1 DEF FailsAs, EndsAs
<1>3. ASSUME course[a] # "other", course'[a] # "other"
      PROVE  course'[a] = "failed"
  BY <1>3 DEF OwnFault, Spoilt, NoFault, InstallInv, CountsOK
<1>4. ASSUME course[a] # "other", course'[a] # "other"
      PROVE  Facts(a)'
  BY <1>2, <1>3, <1>4 DEF Facts, Undisturbed, CleaningUp
<1> QED
  BY <1>1, <1>4, OwnCourse

\* Making the tree and the plist.
LEMMA Making_Facts ==
  ASSUME InstallInv, NEW a \in Actors,
         MakeRoot(a) \/ Mark(a) \/ Fill(a) \/ Truncate(a) \/ Write(a) \/ StepFails(a)
  PROVE  InstallInv'
<1> USE DEF At, Busy
<1>1. ActorsOK /\ FilesOK /\ ServiceOK /\ (course[a] # "other" => Facts(a))
  BY DEF InstallInv, Followed
<1>2. /\ call[a].pc \in {"making", "marking", "filling", "listing", "writing", "starting"}
      /\ call[a].task = "install" /\ UNCHANGED <<service, given>>
  BY <1>1, TaskAt DEF MakeRoot, Mark, Fill, Truncate, Write, StepFails
<1>3. FilesOK' /\ ServiceOK'
  <2>1. FilesOK' /\ ("root" \in tree => "root" \in tree')
    BY <1>1 DEF MakeRoot, Mark, Fill, Truncate, Write, StepFails, FilesOK, Rooted, files
  <2> QED
    BY <1>1, <1>2, <2>1 DEF ServiceOK, service
\* The steps that do not find what they ask for: no command that is followed takes them.
<1>4. ASSUME Fails(a), NoFault, course[a] = "other"
      PROVE  InstallInv'
  <2>1. StepBy(a)
    BY <1>1, <1>2, <1>4, FailsOn
  <2> QED
    BY <1>2, <1>3, <1>4, <2>1, OwnCourse
<1>5. ASSUME Fails(a), OwnFault(a), course[a] # "other" => plist' # "foreign" /\ ("payload" \in tree' => "marker" \in tree')
      PROVE  InstallInv'
  <2>1. CASE course[a] # "other"
    <3>1. /\ Busy(a) /\ call[a].task = "install" /\ given' = given
          /\ OwnFault(a) \/ Spoilt \/ (NoFault /\ course[a] # "clean")
          /\ plist' # "foreign" /\ ("payload" \in tree' => "marker" \in tree')
      <4>1. Busy(a) /\ call[a].task = "install" /\ given' = given
        BY <1>2
      <4> QED
        BY <1>5, <2>1, <4>1, Zenon
    <3> QED
      BY <1>3, <1>5, <3>1, InstallFails
  <2>2. CASE course[a] = "other"
    <3>1. StepBy(a)
      BY <1>1, <1>2, <1>5, FailsOn
    <3> QED
      BY <1>2, <1>3, <1>5, <2>2, <3>1, OwnCourse
  <2> QED
    BY <2>1, <2>2
<1>6. ASSUME NEW pc \in {"marking", "filling", "listing", "writing", "starting"}, Goes(a, pc), UNCHANGED mutex
      PROVE  StepBy(a) /\ call'[a].pc = pc /\ call'[a].task = "install"
  <2>1. pc \in Phases
    BY DEF Phases
  <2> QED
    BY <1>1, <1>2, <1>6, <2>1, GoesOn
<1>7. CASE MakeRoot(a)
  <2>1. CASE Goes(a, "marking") /\ NoFault /\ UNCHANGED mutex
    <3>1. StepBy(a) /\ call'[a].pc = "marking" /\ call'[a].task = "install"
      BY <1>6, <2>1
    <3>2. ASSUME course[a] # "other"
          PROVE  Facts(a)'
      BY <1>1, <1>2, <1>7, <2>1, <3>1, <3>2 DEF MakeRoot, NoFault, Facts, Undisturbed, CleaningUp, Clean,
         service, Ours, NoNew, OnlyClosed, Alive
    <3> QED
      BY <1>2, <1>3, <2>1, <3>1, <3>2, OwnCourse
  <2>2. CASE Fails(a) /\ OwnFault(a)
    BY <1>1, <1>2, <1>5, <1>7, <2>2 DEF MakeRoot, Facts, Undisturbed
  <2> QED
    BY <1>7, <2>1, <2>2 DEF MakeRoot, Done
<1>8. CASE Mark(a)
  <2>1. CASE "root" \in tree /\ Goes(a, "filling") /\ NoFault /\ UNCHANGED mutex
    <3>1. StepBy(a) /\ call'[a].pc = "filling" /\ call'[a].task = "install"
      BY <1>6, <2>1
    <3>2. ASSUME course[a] # "other"
          PROVE  Facts(a)'
      BY <1>1, <1>2, <1>8, <2>1, <3>1, <3>2 DEF Mark, NoFault, Facts, Undisturbed, CleaningUp, Clean,
         service, Ours, NoNew, OnlyClosed, Alive
    <3> QED
      BY <1>2, <1>3, <2>1, <3>1, <3>2, OwnCourse
  <2>2. CASE "root" \in tree /\ Fails(a) /\ OwnFault(a)
    BY <1>1, <1>2, <1>5, <1>8, <2>2 DEF Mark, Facts, Undisturbed
  <2>3. CASE "root" \notin tree
    <3>1. course[a] = "other"
      BY <1>1, <1>8, <2>3 DEF Mark, Facts, Undisturbed
    <3> QED
      BY <1>4, <1>8, <2>3, <3>1 DEF Mark
  <2> QED
    BY <1>8, <2>1, <2>2, <2>3 DEF Mark, Done
<1>9. CASE Fill(a)
  <2>1. CASE Goes(a, "listing") /\ NoFault /\ UNCHANGED mutex
    <3>1. StepBy(a) /\ call'[a].pc = "listing" /\ call'[a].task = "install"
      BY <1>6, <2>1
    <3>2. ASSUME course[a] # "other"
          PROVE  Facts(a)'
      BY <1>1, <1>2, <1>9, <2>1, <3>1, <3>2 DEF Fill, NoFault, Facts, Undisturbed, CleaningUp, Clean,
         service, Ours, NoNew, OnlyClosed, Alive, Full
    <3> QED
      BY <1>2, <1>3, <2>1, <3>1, <3>2, OwnCourse
  <2>2. CASE Fails(a) /\ OwnFault(a)
    BY <1>1, <1>2, <1>5, <1>9, <2>2 DEF Fill, Facts, Undisturbed
  <2> QED
    BY <1>9, <2>1, <2>2 DEF Fill, Done
<1>10. CASE Truncate(a)
  <2>1. CASE Ours /\ Goes(a, "writing") /\ NoFault /\ UNCHANGED mutex
    <3>1. StepBy(a) /\ call'[a].pc = "writing" /\ call'[a].task = "install"
      BY <1>6, <2>1
    <3>2. ASSUME course[a] # "other"
          PROVE  Facts(a)'
      BY <1>1, <1>2, <1>10, <2>1, <3>1, <3>2 DEF Truncate, NoFault, Facts, Undisturbed, CleaningUp, Clean,
         service, NoNew, OnlyClosed, Alive, Full
    <3> QED
      BY <1>2, <1>3, <2>1, <3>1, <3>2, OwnCourse
  <2>2. CASE Ours /\ Fails(a) /\ OwnFault(a)
    BY <1>1, <1>2, <1>5, <1>10, <2>2 DEF Truncate, Facts, Undisturbed
  <2>3. CASE ~Ours
    <3>1. course[a] = "other"
      BY <1>1, <1>2, <1>10, <2>3 DEF Truncate, Facts, Undisturbed
    <3> QED
      BY <1>4, <1>10, <2>3, <3>1 DEF Truncate
  <2> QED
    BY <1>10, <2>1, <2>2, <2>3 DEF Truncate, Done
<1>11. CASE Write(a)
  <2>1. CASE plist # "none" /\ Goes(a, "starting") /\ NoFault /\ UNCHANGED mutex
    <3>1. StepBy(a) /\ call'[a].pc = "starting" /\ call'[a].task = "install"
      BY <1>6, <2>1
    <3>2. ASSUME course[a] # "other"
          PROVE  Facts(a)'
      BY <1>1, <1>2, <1>11, <2>1, <3>1, <3>2 DEF Write, NoFault, Facts, Undisturbed, CleaningUp, Clean,
         service, NoNew, OnlyClosed, Alive, Full
    <3> QED
      BY <1>2, <1>3, <2>1, <3>1, <3>2, OwnCourse
  <2>2. CASE plist # "none" /\ Fails(a) /\ OwnFault(a)
    BY <1>1, <1>2, <1>5, <1>11, <2>2 DEF Write, Facts, Undisturbed
  <2>3. CASE plist = "none"
    <3>1. course[a] = "other"
      BY <1>1, <1>11, <2>3 DEF Write, Facts, Undisturbed
    <3> QED
      BY <1>4, <1>11, <2>3, <3>1 DEF Write
  <2> QED
    BY <1>11, <2>1, <2>2, <2>3 DEF Write, Done
<1>12. CASE StepFails(a)
  BY <1>1, <1>5, <1>12 DEF StepFails, Facts, Undisturbed, files
<1> QED
  BY <1>7, <1>8, <1>9, <1>10, <1>11, <1>12

\* Starting the service and waiting for its socket.
LEMMA Starting_Facts ==
  ASSUME InstallInv, NEW a \in Actors, Bootstrap(a) \/ SocketThere(a) \/ SocketMissing(a)
  PROVE  InstallInv'
<1> USE DEF At, Busy
<1>1. ActorsOK /\ FilesOK /\ ServiceOK /\ (course[a] # "other" => Facts(a))
  BY DEF InstallInv, Followed
<1>2. /\ call[a].pc \in {"starting", "awaiting"} /\ call[a].task = "install"
      /\ UNCHANGED <<files, given>>
  BY <1>1, TaskAt DEF Bootstrap, SocketThere, SocketMissing
<1>3. FilesOK'
  BY <1>1, <1>2 DEF FilesOK, Rooted, files
<1>4. ASSUME Fails(a), UNCHANGED service, OwnFault(a) \/ (NoFault /\ course[a] # "clean")
      PROVE  InstallInv'
  <2>1. ServiceOK'
    BY <1>1, <1>2, <1>4 DEF ServiceOK, service, files
  <2>2. CASE course[a] # "other"
    BY <1>1, <1>2, <1>3, <1>4, <2>1, <2>2, InstallFails DEF Facts, Undisturbed, files
  <2>3. CASE course[a] = "other"
    <3>1. StepBy(a)
      BY <1>1, <1>2, <1>4, FailsOn
    <3> QED
      BY <1>2, <1>3, <1>4, <2>1, <2>3, <3>1, OwnCourse
  <2> QED
    BY <2>2, <2>3
<1>5. CASE Bootstrap(a) /\ plist = "ours" /\ loaded = None
  <2>1. PICK n \in Numbers :
          /\ brokers[n].pc = "unborn" /\ loaded' = n /\ UNCHANGED socket
          /\ brokers' = [brokers EXCEPT ![n].pc = IF "payload" \in tree THEN "new" ELSE "ended"]
    BY <1>5 DEF Bootstrap
  <2>2. /\ StepBy(a) /\ call'[a].pc = "awaiting" /\ call'[a].task = "install"
    <3>1. Goes(a, "awaiting") /\ UNCHANGED mutex /\ "awaiting" \in Phases
      BY <1>5 DEF Bootstrap, Phases
    <3> QED
      BY <1>1, <1>2, <3>1, GoesOn
  <2>3. /\ brokers' \in [Numbers -> [pc : {"unborn", "new", "bound", "serving", "closed", "ended"}, signalled : BOOLEAN]]
        /\ \A k \in Numbers \ {n} : brokers'[k] = brokers[k]
        /\ brokers'[n].pc = IF "payload" \in tree THEN "new" ELSE "ended"
        /\ brokers'[n].signalled = brokers[n].signalled
    BY <1>1, <2>1 DEF ServiceOK
  <2>4. ServiceOK'
    BY <1>1, <1>2, <2>1, <2>3 DEF ServiceOK, files
  <2>5. ASSUME course[a] # "other"
        PROVE  Facts(a)'
    <3>1. /\ Full /\ NoNew /\ socket = None /\ plist = "ours" /\ call[a].pc = "starting"
          /\ (course[a] = "clean" => OnlyClosed) /\ n # None
      BY <1>1, <1>2, <1>5, <2>5, LaunchdConstants DEF Bootstrap, Facts, Undisturbed, Clean, Numbers
    <3>2. Undisturbed(a)'
      BY <1>2, <2>1, <2>2, <2>3, <3>1 DEF Undisturbed, Full, NoNew, files
    <3>3. course[a] = "clean" => Clean(a)'
      BY <1>2, <2>1, <2>2, <2>3, <3>1 DEF Clean, Full, OnlyLoaded, OnlyClosed, Alive, files
    <3> QED
      BY <1>5, <2>2, <3>2, <3>3 DEF Bootstrap, NoFault, Facts, CleaningUp
  <2> QED
    BY <1>2, <1>3, <1>5, <2>2, <2>4, <2>5, OwnCourse DEF Bootstrap
<1>6. CASE Bootstrap(a) /\ ~(plist = "ours" /\ loaded = None)
  <2>1. course[a] # "clean"
    BY <1>1, <1>6 DEF Bootstrap, Facts, Undisturbed, Clean
  <2> QED
    BY <1>4, <1>6, <2>1 DEF Bootstrap, service
<1>7. CASE SocketThere(a)
  <2>1. ServiceOK'
    BY <1>1, <1>2, <1>7 DEF SocketThere, ServiceOK, service, files
  <2>2. /\ StepBy(a) /\ call'[a].pc = "checking" /\ call'[a].task = "install"
    <3>1. Goes(a, "checking") /\ UNCHANGED mutex /\ "checking" \in Phases
      BY <1>7 DEF SocketThere, Phases
    <3> QED
      BY <1>1, <1>2, <3>1, GoesOn
  <2>3. ASSUME course[a] # "other"
        PROVE  Facts(a)'
    <3>1. /\ Full /\ plist = "ours" /\ loaded # None /\ socket = loaded
          /\ course[a] = "clean" => OnlyLoaded
      BY <1>1, <1>2, <1>7, <2>3 DEF SocketThere, Facts, Undisturbed, Clean
    <3>2. NoNew
      BY <1>1, <1>2, <1>7, <2>3 DEF SocketThere, ServiceOK, Facts, Undisturbed, NoNew
    <3>3. Undisturbed(a)'
      BY <1>2, <1>7, <2>2, <3>1, <3>2 DEF SocketThere, Undisturbed, Full, NoNew, files, service
    <3>4. course[a] = "clean" => Clean(a)'
      BY <1>2, <1>7, <2>2, <3>1 DEF SocketThere, Clean, Served, OnlyLoaded, Alive, files, service
    <3> QED
      BY <1>7, <2>2, <3>3, <3>4 DEF SocketThere, NoFault, Facts, CleaningUp
  <2> QED
    BY <1>3, <1>7, <2>1, <2>2, <2>3, OwnCourse DEF SocketThere
<1>8. CASE SocketMissing(a)
  <2>1. Fails(a) /\ OwnFault(a) /\ UNCHANGED service
    BY <1>8 DEF SocketMissing
  <2> QED
    BY <1>4, <2>1, Zenon
<1> QED
  BY <1>5, <1>6, <1>7, <1>8

\* The check at the end of an install, or by itself.
LEMMA Check_Facts ==
  ASSUME InstallInv, NEW a \in Actors, Check(a)
  PROVE  InstallInv'
<1> USE DEF At, Busy
<1>1. ActorsOK /\ FilesOK /\ ServiceOK /\ (course[a] # "other" => Facts(a))
  BY DEF InstallInv, Followed
<1>2. /\ call[a].pc = "checking" /\ call[a].task \in {"install", "check"} /\ tree' = tree \cup {"root"}
      /\ UNCHANGED <<plist, service, given>> /\ NoFault
  BY <1>1, TaskAt DEF Check
<1>3. FilesOK' /\ ServiceOK'
  BY <1>1, <1>2 DEF FilesOK, Rooted, ServiceOK, service
<1>4. CASE Ends(a, TRUE)
  <2>1. StepBy(a) /\ EndsAs(a, TRUE)
    BY <1>1, <1>2, <1>4, EndsOn
  <2>2. ASSUME course[a] # "other"
        PROVE  Facts(a)'
    <3>1. Undisturbed(a) /\ NoNew /\ (course[a] = "clean" => Clean(a)) /\ (course[a] = "failed" => CleaningUp(a))
      BY <1>1, <1>2, <2>2 DEF Facts, Undisturbed
    <3>2. CASE call'[a].pc = "answered" /\ call'[a].task = call[a].task /\ call'[a].reply = "OK"
      BY <1>2, <2>2, <3>1, <3>2 DEF Facts, Undisturbed, CleaningUp, Clean, NoFault, service, Full, Served, OnlyLoaded, Alive
    <3>3. CASE call[a].task = "install" /\ call'[a].task = "check" /\ call'[a].pc = "checking"
      BY <1>2, <2>2, <3>1, <3>3 DEF Facts, Undisturbed, CleaningUp, Clean, NoFault, service, Full, Served, OnlyLoaded, Alive, NoNew
    <3>4. CASE call[a].rest = Left3 /\ call'[a].task = "uninstall" /\ call'[a].pc = "bootout"
      <4>1. Full /\ plist = "ours" /\ (course[a] = "clean" => Served)
        BY <1>2, <3>1, <3>4, LeftOvers DEF Undisturbed, Clean
      <4>2. Undisturbed(a)'
        BY <1>2, <3>1, <3>4, <4>1 DEF Undisturbed, Full, MarkedTree, Ours, NoNew, service
      <4> QED
        BY <1>2, <3>1, <3>4, <4>1, <4>2 DEF Facts, CleaningUp, Clean, NoFault, service, Served, OnlyLoaded, Alive
    <3> QED
      BY <1>2, <2>1, <3>2, <3>3, <3>4 DEF EndsAs
  <2> QED
    BY <1>2, <1>3, <2>1, <2>2, OwnCourse
<1>5. CASE ~Ends(a, TRUE)
  <2>1. Fails(a) /\ ~(loaded # None /\ socket # None /\ brokers[socket].pc = "serving" /\ "payload" \in tree)
    BY <1>5 DEF Check
  <2>2. StepBy(a) /\ FailsAs(a)
    BY <1>1, <1>2, <2>1, FailsOn
  <2>3. \/ call[a].task = "install" /\ call'[a].task = "cleanup" /\ call'[a].pc = "bootout"
        \/ call'[a].task = call[a].task /\ call'[a].pc = "answered"
    BY <1>2, <2>2 DEF FailsAs, EndsAs
  <2>4. ASSUME course[a] = "clean"
        PROVE  call[a].task = "check"
    <3>1. ~Unsecured
      BY DEF Check
    <3> QED
      BY <1>1, <1>2, <2>1, <2>4, <3>1 DEF Facts, Undisturbed, Clean, Served, Full, ServiceOK, Unsecured
  <2>5. ASSUME course[a] # "other"
        PROVE  Facts(a)'
    BY <1>1, <1>2, <2>3, <2>4, <2>5 DEF Facts, Undisturbed, CleaningUp, Clean, NoFault
  <2> QED
    BY <1>2, <1>3, <2>2, <2>5, OwnCourse
<1> QED
  BY <1>4, <1>5

\* The check that comes before the broker's chmod: the command has failed from here on.
LEMMA EarlyCheck_Facts ==
  ASSUME InstallInv, NEW a \in Actors, CheckTooEarly(a)
  PROVE  InstallInv'
<1> USE DEF At, Busy
<1>1. ActorsOK /\ FilesOK /\ ServiceOK /\ CountsOK /\ (course[a] # "other" => Facts(a))
  BY DEF InstallInv, Followed
<1>2. /\ call[a].pc = "checking" /\ call[a].task \in {"install", "check"} /\ tree' = tree \cup {"root"}
      /\ UNCHANGED <<plist, service, given>> /\ Mishap(a) /\ Fails(a)
  BY <1>1, TaskAt DEF CheckTooEarly
<1>3. FilesOK' /\ ServiceOK'
  BY <1>1, <1>2 DEF FilesOK, Rooted, ServiceOK, service
<1>4. StepBy(a) /\ FailsAs(a)
  BY <1>1, <1>2, FailsOn
<1>5. \/ call[a].task = "install" /\ call'[a].task = "cleanup" /\ call'[a].pc = "bootout"
      \/ call'[a].task = call[a].task /\ call'[a].pc = "answered"
  BY <1>2, <1>4 DEF FailsAs, EndsAs
<1>6. ASSUME course[a] # "other"
      PROVE  Facts(a)'
  <2>1. course'[a] = "failed"
    BY <1>1, <1>2, <1>6 DEF Mishap, CountsOK
  <2> QED
    BY <1>1, <1>2, <1>5, <1>6, <2>1 DEF Facts, Undisturbed, CleaningUp
<1> QED
  BY <1>2, <1>3, <1>4, <1>6, OwnCourse

\* The end of an uninstall.
LEMMA Confirm_Facts ==
  ASSUME InstallInv, NEW a \in Actors, Confirm(a)
  PROVE  InstallInv'
<1> USE DEF At, Busy
<1>1. ActorsOK /\ FilesOK /\ ServiceOK /\ (course[a] # "other" => Facts(a))
  BY DEF InstallInv, Followed
<1>2. /\ call[a].pc = "confirming" /\ call[a].task = "uninstall"
      /\ UNCHANGED <<files, service, given>> /\ NoFault
  BY <1>1, TaskAt DEF Confirm
<1>3. FilesOK' /\ ServiceOK'
  BY <1>1, <1>2 DEF FilesOK, Rooted, ServiceOK, service, files
<1>4. PICK ok \in BOOLEAN : /\ ok <=> socket = None /\ loaded = None /\ \A n \in Numbers : ~Alive(n)
                            /\ Ends(a, ok)
  <2> DEFINE ok == socket = None /\ loaded = None /\ \A n \in Numbers : ~Alive(n)
  <2>1. Ends(a, ok) /\ ok \in BOOLEAN
    BY DEF Confirm
  <2> HIDE DEF ok
  <2>2. ok <=> socket = None /\ loaded = None /\ \A n \in Numbers : ~Alive(n)
    BY DEF ok
  <2> QED
    BY <2>1, <2>2
<1>5. StepBy(a) /\ EndsAs(a, ok)
  BY <1>1, <1>2, <1>4, EndsOn
<1>6. ASSUME course[a] # "other"
      PROVE  Facts(a)'
  <2>1. /\ Undisturbed(a) /\ NoNew /\ tree = {} /\ plist = "none"
        /\ (course[a] = "clean" => loaded = None /\ OnlyClosed) /\ (course[a] = "failed" => CleaningUp(a))
    BY <1>1, <1>2, <1>6 DEF Facts, Undisturbed, Clean
  <2>2. CASE call'[a].pc = "answered" /\ call'[a].task = "uninstall" /\ call'[a].reply = IF ok THEN "OK" ELSE "FAIL"
    BY <1>2, <1>4, <2>1, <2>2 DEF Facts, Undisturbed, CleaningUp, Clean, NoFault, files, service, Gone, Alive
  <2>3. CASE call'[a].task = "install" /\ call'[a].pc = "bootout"
    BY <1>2, <2>1, <2>3 DEF Facts, Undisturbed, CleaningUp, Clean, NoFault, files, service, MarkedTree, Ours,
       NoNew, OnlyClosed, Alive
  <2> QED
    BY <1>2, <1>5, <2>2, <2>3 DEF EndsAs
<1> QED
  BY <1>2, <1>3, <1>5, <1>6, OwnCourse

\* A broker that listens, sets the socket's mode, closes it or ends.
LEMMA Brokers_Facts ==
  ASSUME InstallInv, NEW n \in Numbers, Listen(n) \/ Secure(n) \/ Close(n) \/ Exit(n)
  PROVE  InstallInv'
<1>1. FilesOK /\ ServiceOK /\ brokers[n].pc # "unborn"
  BY DEF InstallInv, Listen, Secure, Close, Exit
<1>2. UNCHANGED <<plist, loaded, mutex, call, given, faults, course>>
  BY DEF Listen, Secure, Close, Exit, files
<1>3. PICK pc \in {"bound", "serving", "closed", "ended"} : brokers' = [brokers EXCEPT ![n].pc = pc]
  <2>1. CASE Secure(n)
    BY <2>1, Zenon DEF Secure
  <2> QED
    BY <2>1 DEF Listen, Close, Exit
<1>4. /\ brokers' \in [Numbers -> [pc : {"unborn", "new", "bound", "serving", "closed", "ended"}, signalled : BOOLEAN]]
      /\ \A k \in Numbers \ {n} : brokers'[k] = brokers[k]
      /\ brokers'[n].pc = pc /\ brokers'[n].signalled = brokers[n].signalled
  BY <1>1, <1>3 DEF ServiceOK
<1>5. FilesOK' /\ ServiceOK'
  <2>1. FilesOK' /\ ("root" \in tree => "root" \in tree')
    BY <1>1, <1>2 DEF Listen, Secure, Close, Exit, FilesOK, Rooted, files
  <2>2. ASSUME NEW k \in Numbers
        PROVE  (brokers'[k].pc = "unborn" => brokers[k].pc = "unborn") /\ brokers'[k].signalled = brokers[k].signalled
    BY <1>4
  <2>3. CASE Listen(n)
    BY <1>1, <1>2, <1>4, <2>1, <2>2, <2>3 DEF Listen, ServiceOK
  <2>4. CASE Close(n)
    BY <1>1, <1>2, <1>4, <2>1, <2>2, <2>4 DEF Close, ServiceOK
  <2>6. CASE Secure(n)
    <3>1. pc = IF socket = None THEN "closed" ELSE "serving"
      BY <1>1, <1>4, <2>6 DEF Secure, ServiceOK
    <3> QED
      BY <1>1, <1>2, <1>4, <2>1, <2>2, <2>6, <3>1 DEF Secure, ServiceOK, files
  <2>5. CASE Exit(n)
    BY <1>1, <1>2, <1>4, <2>1, <2>2, <2>5 DEF Exit, ServiceOK
  <2> QED
    BY <2>1, <2>3, <2>4, <2>5, <2>6
<1>6. ActorsOK' /\ MutexOK' /\ CountsOK'
  BY <1>2 DEF InstallInv, ActorsOK, CallsOK, Shape, MutexOK, Busy, CountsOK
<1>7. ASSUME NEW a \in Actors, course[a] # "other"
      PROVE  Facts(a)'
  <2>1. Facts(a) /\ Shape(a)
    BY <1>7 DEF InstallInv, Followed, ActorsOK
  <2>2. CASE Listen(n)
    <3>1. /\ brokers[n].pc = "new" /\ tree' = tree \cup {"root"} /\ socket' = n /\ pc = "bound"
      BY <1>4, <2>2 DEF Listen, ServiceOK
    <3>2. call[a].task # "cleanup" => call[a].pc \in {"awaiting", "answered"}
      BY <2>1, <3>1 DEF Facts, Undisturbed, NoNew
    <3>3. Undisturbed(a)'
      BY <1>1, <1>2, <1>4, <2>1, <3>1, <3>2 DEF Facts, Undisturbed, Shape, Full, Gone, Alive
    <3>4. course[a] = "failed" => CleaningUp(a)'
      BY <1>2, <2>1, <3>1 DEF Facts, CleaningUp
    <3>5. course[a] = "clean" => Clean(a)'
      BY <1>1, <1>2, <1>4, <2>1, <3>1, <3>2 DEF Facts, Undisturbed, Clean, Full, Served, OnlyLoaded, Alive, ServiceOK
    <3> QED
      BY <1>2, <3>3, <3>4, <3>5 DEF Facts
  <2>3. CASE Close(n)
    <3>1. /\ brokers[n].pc = "serving" /\ tree' = tree /\ socket' = None /\ pc = "closed" /\ n # loaded
      <4>1. n # loaded
        <5>1. loaded = n => ~brokers[n].signalled
          BY <1>1, LaunchdConstants DEF ServiceOK, Numbers
        <5> QED
          BY <2>3, <5>1, Zenon DEF Close
      <4> QED
        BY <1>1, <1>3, <1>4, <2>3, <4>1 DEF Close, ServiceOK, files
    <3> QED
      <4>1. Undisturbed(a)'
        BY <1>2, <1>4, <2>1, <3>1 DEF Facts, Undisturbed, NoNew, Full, Ours, MarkedTree, Gone, Alive
      <4>2. course[a] = "failed" => CleaningUp(a)'
        BY <1>2, <2>1, <3>1 DEF Facts, CleaningUp
      <4>3. course[a] = "clean" => Clean(a)'
        BY <1>2, <1>4, <2>1, <3>1 DEF Facts, Clean, Full, Served, OnlyLoaded, OnlyClosed, Alive
      <4> QED
        BY <1>2, <4>1, <4>2, <4>3 DEF Facts
  <2>4. CASE Exit(n)
    <3>1. /\ brokers[n].pc \in {"new", "closed"} /\ tree' = tree /\ socket' = socket /\ pc = "ended"
          /\ brokers[n].pc = "new" => n # loaded \/ "payload" \notin tree
      <4>1. brokers[n].pc = "new" => n # loaded \/ "payload" \notin tree
        <5>1. loaded = n => ~brokers[n].signalled
          BY <1>1, LaunchdConstants DEF ServiceOK, Numbers
        <5> QED
          BY <2>4, <5>1, Zenon DEF Exit
      <4> QED
        BY <1>1, <1>4, <2>4, <4>1 DEF Exit, ServiceOK, files
    <3> QED
      BY <1>1, <1>2, <1>4, <2>1, <3>1 DEF Facts, Undisturbed, Clean, CleaningUp,
         NoNew, Full, Ours, MarkedTree, Gone, Served, OnlyLoaded, OnlyClosed, Alive, ServiceOK
  <2>5. CASE Secure(n)
    <3>1. /\ brokers[n].pc = "bound" /\ tree' = tree /\ socket' = socket
          /\ pc \in {"closed", "serving"}
      <4>1. pc = IF socket = None THEN "closed" ELSE "serving"
        BY <1>1, <1>4, <2>5 DEF Secure, ServiceOK
      <4> QED
        BY <2>5, <4>1 DEF Secure, files
    <3>2. \A k \in Numbers :
            /\ Alive(k)' <=> Alive(k)
            /\ brokers'[k].pc = "new" <=> brokers[k].pc = "new"
            /\ brokers[k].pc = "closed" => brokers'[k].pc = "closed"
      BY <1>4, <3>1 DEF Alive
    <3>3. Undisturbed(a)'
      BY <1>2, <2>1, <3>1, <3>2 DEF Facts, Undisturbed, NoNew, Full, Ours, MarkedTree, Gone
    <3>4. course[a] = "failed" => CleaningUp(a)'
      BY <1>2, <2>1, <3>1 DEF Facts, CleaningUp
    <3>5. course[a] = "clean" => Clean(a)'
      BY <1>1, <1>2, <2>1, <3>1, <3>2 DEF Facts, Undisturbed, Clean, Full, Served, OnlyLoaded, OnlyClosed, ServiceOK
    <3> QED
      BY <1>2, <3>3, <3>4, <3>5 DEF Facts
  <2> QED
    BY <2>2, <2>3, <2>4, <2>5
<1>8. Followed'
  BY <1>2, <1>7 DEF InstallInv, Followed, Alone, Busy
<1> QED
  BY <1>5, <1>6, <1>8 DEF InstallInv

\* A command that begins, alone or not.
LEMMA Begin_Facts ==
  ASSUME InstallInv, NEW a \in Actors, NEW cmd \in {"install", "check", "uninstall", "cycle"}, Begin(a, cmd)
  PROVE  InstallInv'
<1> DEFINE first == [task |-> Head(TasksOf(cmd)), rest |-> Tail(TasksOf(cmd)),
                     pc |-> FirstStep(Head(TasksOf(cmd))), reply |-> "none"]
<1>1. ActorsOK /\ FilesOK /\ ServiceOK /\ MutexOK
  BY DEF InstallInv
<1>2. UNCHANGED <<files, service, faults>> /\ ~Busy(a) /\ call' = [call EXCEPT ![a] = first]
  BY DEF Begin
<1>3. \/ /\ cmd \in {"install", "check", "uninstall"} /\ Head(TasksOf(cmd)) = cmd /\ Tail(TasksOf(cmd)) = <<>>
      \/ /\ cmd = "cycle" /\ Head(TasksOf(cmd)) = "uninstall" /\ Tail(TasksOf(cmd)) = Left1 /\ a \in Handlers
  <2>1. CASE cmd = "cycle"
    BY <2>1, LeftOvers DEF Begin
  <2>2. CASE cmd # "cycle"
    <3>1. TasksOf(cmd) = <<cmd>> /\ Head(<<cmd>>) = cmd /\ Tail(<<cmd>>) = <<>>
      BY <2>2 DEF TasksOf
    <3> QED
      BY <2>2, <3>1
  <2> QED
    BY <2>1, <2>2
<1>4. /\ call'[a] = first /\ first \in Calls
      /\ first.pc = IF first.task = "check" THEN "checking" ELSE "bootout"
      /\ first.task \in {"install", "check", "uninstall"}
      /\ first.rest = <<>> \/ (first.task = "uninstall" /\ first.rest = Left1 /\ a \in Handlers)
  <2>1. Tail(TasksOf(cmd)) \in Seq(Tasks) /\ Head(TasksOf(cmd)) \in Tasks
    <3>1. <<>> \in Seq(Tasks) /\ {"install", "check", "uninstall"} \subseteq Tasks
      BY DEF Tasks
    <3> HIDE DEF first
    <3> QED
      BY <1>3, <3>1, LeftOvers
  <2>2. first \in Calls
    <3>1. \A task \in Tasks, rest \in Seq(Tasks) :
            [task |-> task, rest |-> rest, pc |-> FirstStep(task), reply |-> "none"] \in Calls
      BY DEF Calls, FirstStep, Phases
    <3> QED
      BY <2>1, <3>1
  <2>3. /\ first.pc = IF first.task = "check" THEN "checking" ELSE "bootout"
        /\ first.task = Head(TasksOf(cmd)) /\ first.rest = Tail(TasksOf(cmd))
    BY DEF FirstStep
  <2>4. call'[a] = first
    BY <1>1, <1>2 DEF ActorsOK, CallsOK
  <2> HIDE DEF first
  <2> QED
    BY <1>3, <2>2, <2>3, <2>4
<1> HIDE DEF first
<1>5. \A b \in Actors \ {a} : call'[b] = call[b]
  BY <1>1, <1>2 DEF ActorsOK, CallsOK
<1>6. ActorsOK'
  <2>1. CallsOK'
    BY <1>1, <1>2, <1>4 DEF ActorsOK, CallsOK
  <2>2. Shape(a)'
    <3>1. /\ call'[a].task \in {"install", "check", "uninstall"}
          /\ call'[a].pc = IF call'[a].task = "check" THEN "checking" ELSE "bootout"
          /\ call'[a].rest = <<>> \/ (call'[a].task = "uninstall" /\ call'[a].rest = Left1 /\ a \in Handlers)
      BY <1>4
    <3> QED
      BY <3>1 DEF Shape
  <2>3. ASSUME NEW b \in Actors \ {a}
        PROVE  Shape(b)'
    BY <1>1, <1>5 DEF ActorsOK, Shape
  <2> QED
    BY <2>1, <2>2, <2>3 DEF ActorsOK
<1>7. MutexOK'
  <2>1. Busy(a)' /\ \A b \in Actors \ {a} : Busy(b)' <=> Busy(b)
    BY <1>4, <1>5 DEF Busy
  <2>2. CASE a \in Handlers
    BY <1>1, <2>1, <2>2, LaunchdConstants DEF Begin, MutexOK, Actors
  <2>3. CASE a \notin Handlers
    BY <1>1, <2>1, <2>3 DEF Begin, MutexOK, Actors
  <2> QED
    BY <2>2, <2>3
<1>8. CountsOK'
  BY LaunchdConstants DEF InstallInv, CountsOK, Begin
<1>9. FilesOK' /\ ServiceOK'
  BY <1>1, <1>2 DEF FilesOK, Rooted, ServiceOK, files, service
<1>10. \A b \in Actors \ {a} : course'[b] = "other"
  BY DEF Begin
<1>11. ASSUME course'[a] # "other"
       PROVE  Alone(a)' /\ Facts(a)'
  <2>1. /\ course'[a] = "clean" /\ (\A c \in Actors : ~Busy(c)) /\ ~Unmarked /\ Ours
        /\ \A n \in Numbers : Alive(n) => loaded = n /\ socket = n
    BY <1>11 DEF Begin
  <2>2. Alone(a)'
    BY <1>5, <1>10, <2>1 DEF Alone, Busy
  <2>3. NoNew /\ MarkedTree /\ ("payload" \in tree => "marker" \in tree) /\ plist # "foreign"
    BY <1>1, <2>1, LaunchdConstants DEF NoNew, Alive, MarkedTree, Unmarked, FilesOK, Rooted, Ours, ServiceOK, Numbers
  <2>4. Undisturbed(a)'
    BY <1>2, <1>4, <2>1, <2>3 DEF Undisturbed, NoNew, MarkedTree, Ours, files, service
  <2>5. Clean(a)'
    BY <1>2, <1>4, <2>1 DEF Clean, Alive, service
  <2> QED
    BY <2>1, <2>2, <2>4, <2>5 DEF Facts
<1>12. Followed'
  BY <1>10, <1>11 DEF Followed
<1> QED
  BY <1>6, <1>7, <1>8, <1>9, <1>12 DEF InstallInv

\* A terminal's command or the supervisor is killed.
LEMMA Kill_Facts ==
  ASSUME InstallInv, NEW dead \in {{t} : t \in Terminals} \cup {Handlers}, Kill(dead)
  PROVE  InstallInv'
<1> DEFINE gone == [task |-> "none", rest |-> <<>>, pc |-> "idle", reply |-> "none"]
<1>1. ActorsOK /\ FilesOK /\ ServiceOK /\ MutexOK
  BY DEF InstallInv
<1>2. /\ UNCHANGED <<files, service, given>> /\ Spoilt
      /\ call' = [a \in Actors |-> IF a \in dead THEN gone ELSE call[a]]
      /\ mutex' = IF mutex \in dead THEN None ELSE mutex
  BY DEF Kill
<1>3. gone \in Calls /\ gone.task = "none" /\ gone.rest = <<>> /\ gone.pc = "idle"
  BY DEF Calls, Tasks, Phases
<1> HIDE DEF gone
<1>4. \A b \in Actors : call'[b] = IF b \in dead THEN gone ELSE call[b]
  BY <1>2
<1>5. ActorsOK'
  <2>1. CallsOK'
    BY <1>1, <1>2, <1>3 DEF ActorsOK, CallsOK
  <2>2. ASSUME NEW b \in Actors
        PROVE  Shape(b)'
    BY <1>1, <1>3, <1>4 DEF ActorsOK, Shape
  <2> QED
    BY <2>1, <2>2 DEF ActorsOK
<1>6. MutexOK'
  <2>1. \A h \in Handlers : Busy(h)' <=> Busy(h) /\ h \notin dead
    BY <1>3, <1>4 DEF Busy, Actors
  <2> QED
    BY <1>1, <1>2, <2>1, LaunchdConstants DEF MutexOK
<1>7. CountsOK'
  BY <1>2, LaunchdConstants DEF InstallInv, CountsOK, Spoilt, Fault
<1>8. FilesOK' /\ ServiceOK'
  BY <1>1, <1>2 DEF FilesOK, Rooted, ServiceOK, files, service
<1>9. Followed'
  BY <1>2 DEF Followed, Spoilt
<1> QED
  BY <1>5, <1>6, <1>7, <1>8, <1>9 DEF InstallInv

\* Others put something where nothing was.
LEMMA Outsider_Facts ==
  ASSUME InstallInv, Outsider
  PROVE  InstallInv'
<1>1. ActorsOK /\ FilesOK /\ ServiceOK /\ MutexOK /\ CountsOK
  BY DEF InstallInv
<1>2. ActorsOK' /\ MutexOK'
  BY <1>1 DEF Outsider, ActorsOK, CallsOK, Shape, MutexOK, Busy
<1>3. CountsOK' /\ Followed'
  BY <1>1 DEF Outsider, CountsOK, Followed
<1>4. FilesOK' /\ ("root" \in tree => "root" \in tree')
  BY <1>1 DEF Outsider, FilesOK, Rooted
<1>5. ServiceOK'
  BY <1>1, <1>4 DEF Outsider, ServiceOK, service
<1> QED
  BY <1>2, <1>3, <1>4, <1>5 DEF InstallInv

\* At the beginning nothing is there and nobody runs.
LEMMA Install_Init == Init => InstallInv
<1> SUFFICES ASSUME Init PROVE InstallInv
  OBVIOUS
<1>1. CallsOK
  BY Init_Inv DEF ForeignInv
<1>2. ActorsOK /\ MutexOK
  BY <1>1, LaunchdConstants DEF Init, ActorsOK, Shape, MutexOK, Busy, Actors
<1>3. FilesOK /\ CountsOK /\ Followed
  BY LaunchdConstants DEF Init, FilesOK, Rooted, CountsOK, Followed
<1>4. ServiceOK
  BY LaunchdConstants DEF Init, ServiceOK, Numbers
<1> QED
  BY <1>2, <1>3, <1>4 DEF InstallInv

\* Every step keeps what is known of the command that is followed.
LEMMA Install_Next == InstallInv /\ [Next]_vars => InstallInv'
<1> SUFFICES ASSUME InstallInv, [Next]_vars PROVE InstallInv'
  OBVIOUS
<1>1. CASE UNCHANGED vars
  BY <1>1 DEF vars, files, service, InstallInv, ActorsOK, CallsOK, Shape, MutexOK, Busy, FilesOK, Rooted, ServiceOK,
     CountsOK, Followed, Alone, Facts, Undisturbed, CleaningUp, Clean, MarkedTree, Full, NoNew, OnlyClosed,
     OnlyLoaded, Served, Gone, Ours, Alive
<1>2. CASE Next
  <2>1. CASE \E a \in Actors, cmd \in {"install", "check", "uninstall", "cycle"} : Begin(a, cmd)
    BY <2>1, Begin_Facts
  <2>2. ASSUME NEW a \in Actors, Stopping(a) \/ Removing(a) \/ Installing(a) \/ Checking(a) \/ Confirm(a)
        PROVE  InstallInv'
    BY <2>2, Stopping_Facts, Removing_Facts, Making_Facts, Starting_Facts, Check_Facts, EarlyCheck_Facts,
       Confirm_Facts DEF Installing, Checking
  <2>3. CASE \E n \in Numbers : Listen(n) \/ Secure(n) \/ Close(n) \/ Exit(n)
    BY <2>3, Brokers_Facts
  <2>4. CASE (\E t \in Terminals : Kill({t})) \/ Kill(Handlers)
    BY <2>4, Kill_Facts
  <2>5. CASE Outsider
    BY <2>5, Outsider_Facts
  <2> QED
    BY <1>2, <2>1, <2>2, <2>3, <2>4, <2>5 DEF Next
<1> QED
  BY <1>1, <1>2

\* The facts about the command that is followed hold at every step.
THEOREM InstallInvariant == Spec => []InstallInv
<1> QED
  BY Install_Init, Install_Next, PTL DEF Spec

\* Types, and the mutex of the supervisor, for all interleavings, faults and kills.
THEOREM LaunchdTypes == Spec => []TypeOK
<1>1. InstallInv => TypeOK
  BY DEF InstallInv, ActorsOK, CallsOK, Calls, FilesOK, Rooted, ServiceOK, CountsOK, MutexOK, TypeOK
<1> QED
  BY <1>1, InstallInvariant, PTL

\* An install that runs alone and undisturbed, and is not checked before the broker has set the
\* socket's mode, succeeds, whatever earlier commands have left, and the service it has installed
\* is the one that answers.
THEOREM InstallsRepair == Spec => []InstallRepairs
<1>1. InstallInv => InstallRepairs
  BY DEF InstallInv, Followed, Facts, Clean, Served, Full, InstallRepairs
<1> QED
  BY <1>1, InstallInvariant, PTL

\* An uninstall that ran alone and says it has removed everything has, also when launchctl failed,
\* and the cleanup after an install that failed leaves nothing that launchd would run.
THEOREM UninstallsRemove == Spec => []RemovedIsGone
<1>1. InstallInv => RemovedIsGone
  BY DEF InstallInv, Followed, CountsOK, Facts, Undisturbed, CleaningUp, Gone, RemovedIsGone
<1> QED
  BY <1>1, InstallInvariant, PTL
=============================================================================
