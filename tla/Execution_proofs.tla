-------------------------- MODULE Execution_proofs --------------------------
(***************************************************************************)
(* Proofs about Execution.tla, for any exit codes, limits, amounts of      *)
(* output and sizes of chunks.                                             *)
(*                                                                         *)
(* The invariant follows the handler: where it is says what the command    *)
(* and the watcher can be, whether the exit code has been computed, and    *)
(* from what.  The capture is exact at all times, of what has been read.   *)
(***************************************************************************)
EXTENDS Execution, TLAPS

Reaped == pc \in {"copying", "classifying", "reporting"} \/ (pc = "done" /\ child = "reaped")

\* Where the handler is says what there is of the command and of the watcher.
Phases ==
  /\ pc = "start" => child = "none"
  /\ pc = "waiting" => child \in {"running", "exited"}
  /\ pc = "reaped" => child = "reaped"
  /\ pc \in {"waiting", "reaped"} => watcher \in {"watching", "cancelling", "cancelled"}
  /\ pc \in {"copying", "classifying", "reporting"} => child = "reaped" /\ watcher = "gone"
  /\ pc = "done" => \/ child = "none" /\ exitCode = 127
                    \/ child = "reaped" /\ watcher = "gone"
  /\ child = "none" => /\ watcher = "none" /\ background = "none" /\ outside = {}
                       /\ status = 0 /\ ~killed /\ pipe.written = 0

\* The broker kills only after the deadline, and then everything that is still in the group.
KillsAreLate ==
  /\ watcher \in {"cancelling", "cancelled"} \/ killed => deadline
  /\ watcher = "cancelled" => killed
  /\ killed => /\ watcher \in {"cancelled", "gone"}
               /\ child = "running" => "child" \in outside
               /\ background \in {"holding", "detached"} => "background" \in outside

\* The capture is exact, of what the copier has read.
CaptureFollows ==
  /\ capture.total + pipe.unread = pipe.written
  /\ capture.kept = AtMost(capture.total, Limit)
  /\ capture.truncated = (capture.total > Limit)

\* Once Wait has returned nobody writes any more.
NothingLeft ==
  pc \in {"classifying", "reporting", "done"} => ~HasPipe /\ pipe.unread = 0

\* The code that is reported is that of the deadline or of the command.
CodeIsComputed ==
  /\ pc = "reporting" \/ (pc = "done" /\ child = "reaped") =>
       /\ exitCode = 0 => status = 0 /\ ~killed
       /\ exitCode = 124 => deadline \/ status = 124
       /\ killed => exitCode = 124
  /\ pc = "done" /\ killed => timedOut

Inv == TypeOK /\ Phases /\ KillsAreLate /\ CaptureFollows /\ NothingLeft /\ CodeIsComputed

LEMMA LimitType == Limit \in Nat \ {0}
  BY ExecutionBounds DEF Limit

LEMMA InitInv == Init => Inv
  <1> SUFFICES ASSUME Init PROVE Inv
    OBVIOUS
  <1>1. TypeOK
    <2>1. 0 \in ExitCodes /\ 0 \in 0..MaxOutput /\ 0 \in 0..Limit
      BY LimitType, ExecutionBounds
    <2>2. pipe \in [written : 0..MaxOutput, unread : 0..MaxOutput]
      BY <2>1 DEF Init
    <2>3. capture \in [total : 0..MaxOutput, kept : 0..Limit, truncated : BOOLEAN]
      BY <2>1 DEF Init
    <2> QED
      BY <2>1, <2>2, <2>3 DEF Init, TypeOK
  <1>2. CaptureFollows
    <2>1. 0 = AtMost(0, Limit) /\ ~(0 > Limit)
      BY LimitType DEF AtMost
    <2>2. /\ pipe.written = 0 /\ pipe.unread = 0
          /\ capture.total = 0 /\ capture.kept = 0 /\ capture.truncated = FALSE
      BY DEF Init
    <2>3. capture.truncated = (capture.total > Limit)
      <3>1. (capture.total > Limit) = FALSE
        BY <2>1, <2>2, LimitType
      <3> QED
        BY <2>2, <3>1
    <2>4. capture.total + pipe.unread = pipe.written
      BY <2>2
    <2>5. capture.kept = AtMost(capture.total, Limit)
      BY <2>1, <2>2
    <2> QED
      BY <2>3, <2>4, <2>5 DEF CaptureFollows
  <1>3. Phases /\ KillsAreLate /\ NothingLeft /\ CodeIsComputed
    BY DEF Init, Phases, KillsAreLate, NothingLeft, CodeIsComputed
  <1> QED
    BY <1>1, <1>2, <1>3 DEF Inv

\* audit.Capture.Write keeps the capture exact.
LEMMA CopyExact ==
  ASSUME Inv, Copy
  PROVE  /\ CaptureFollows' /\ pipe' \in [written : 0..MaxOutput, unread : 0..MaxOutput]
         /\ capture' \in [total : 0..MaxOutput, kept : 0..Limit, truncated : BOOLEAN]
         /\ pipe.unread > 0 /\ pipe'.written = pipe.written
  <1>1. PICK n \in 1..AtMost(MaxChunk, pipe.unread) :
               pipe' = [pipe EXCEPT !.unread = @ - n] /\ capture' = Captured(capture, n)
    BY DEF Copy
  <1>2. /\ MaxOutput \in Nat /\ pipe.written \in 0..MaxOutput /\ pipe.unread \in 0..MaxOutput
        /\ capture.total \in 0..MaxOutput /\ capture.truncated \in BOOLEAN
        /\ capture.kept \in 0..Limit /\ Limit \in Nat \ {0}
    BY LimitType, ExecutionBounds DEF Inv, TypeOK
  <1>3. n \in Nat /\ n >= 1 /\ n <= pipe.unread
    BY <1>1, <1>2, ExecutionBounds DEF AtMost
  <1>4. /\ pipe' = [written |-> pipe.written, unread |-> pipe.unread - n]
        /\ capture' = [total |-> capture.total + n,
                       kept |-> capture.kept + AtMost(n, Limit - capture.kept),
                       truncated |-> capture.truncated \/ n > Limit - capture.kept]
    BY <1>1 DEF Captured, Inv, TypeOK
  <1>5. /\ capture.total + pipe.unread = pipe.written
        /\ capture.kept = AtMost(capture.total, Limit)
        /\ capture.truncated = (capture.total > Limit)
    BY DEF Inv, CaptureFollows
  <1>6. capture'.kept = AtMost(capture'.total, Limit) /\ capture'.kept \in 0..Limit
    BY <1>2, <1>3, <1>4, <1>5 DEF AtMost
  <1>7. capture'.truncated = (capture'.total > Limit)
    <2>1. capture'.truncated = (capture.total > Limit \/ n > Limit - capture.kept)
      BY <1>4, <1>5
    <2>2. capture'.total = capture.total + n
      BY <1>4
    <2>3. capture.total > Limit \/ n > Limit - capture.kept <=> capture.total + n > Limit
      BY <1>2, <1>3, <1>5 DEF AtMost
    <2> QED
      BY <2>1, <2>2, <2>3
  <1>8. capture'.total + pipe'.unread = pipe'.written /\ capture'.total \in 0..MaxOutput
    BY <1>2, <1>3, <1>4, <1>5
  <1> QED
    BY <1>2, <1>3, <1>4, <1>6, <1>7, <1>8 DEF CaptureFollows

\* What a signal does to the group.
LEMMA CancelKills ==
  ASSUME Inv, Cancel
  PROVE  Inv'
  <1>1. /\ watcher = "cancelling" /\ watcher' = "cancelled" /\ killed' /\ deadline /\ deadline'
        /\ UNCHANGED <<pc, pipe, capture, exitCode, timedOut>>
    BY DEF Cancel, Inv, KillsAreLate
  <1>2. /\ child \in {"none", "running", "exited", "reaped"} /\ child # "none"
        /\ background \in {"none", "holding", "detached", "dead"}
        /\ pc \in {"waiting", "reaped"}
    BY <1>1 DEF Inv, TypeOK, Phases
  <1>3. /\ child' = (IF child = "running" /\ "child" \notin outside THEN "exited" ELSE child)
        /\ background' = (IF background \in {"holding", "detached"} /\ "background" \notin outside
                          THEN "dead" ELSE background)
        /\ status' \in {status, Signaled} /\ outside' = outside
    BY <1>2 DEF Cancel, SignalGroup, InGroup, Alive
  <1>4. TypeOK'
    BY <1>1, <1>3 DEF Inv, TypeOK
  <1>5. Phases' /\ KillsAreLate'
    BY <1>1, <1>2, <1>3 DEF Inv, Phases, KillsAreLate
  <1>6. CaptureFollows' /\ NothingLeft' /\ CodeIsComputed'
    BY <1>1, <1>2 DEF Inv, CaptureFollows, NothingLeft, CodeIsComputed
  <1> QED
    BY <1>4, <1>5, <1>6 DEF Inv

LEMMA CommandInv ==
  ASSUME Inv, Command
  PROVE  Inv'
  <1> USE DEF Inv, TypeOK, Phases, KillsAreLate, CaptureFollows, NothingLeft, CodeIsComputed, HasPipe
  <1>1. CASE Fork
    BY <1>1 DEF Fork, Processes
  <1>2. CASE Redirect
    BY <1>2 DEF Redirect
  <1>3. CASE BackgroundEnds
    BY <1>3 DEF BackgroundEnds
  <1>4. CASE Write
    BY <1>4, ExecutionBounds DEF Write
  <1>5. CASE Exit
    BY <1>5 DEF Exit
  <1>6. CASE Leave
    <2>1. outside \subseteq outside' /\ outside' \subseteq Processes /\ child # "none"
      BY <1>6 DEF Leave, Processes, Alive
    <2> QED
      BY <1>6, <2>1 DEF Leave
  <1> QED
    BY <1>1, <1>2, <1>3, <1>4, <1>5, <1>6 DEF Command

LEMMA HandlerInv ==
  ASSUME Inv, Handler
  PROVE  Inv'
  <1> USE DEF Inv, TypeOK, Phases, KillsAreLate, CaptureFollows, NothingLeft, CodeIsComputed, HasPipe
  <1>1. CASE Start
    BY <1>1 DEF Start
  <1>2. CASE StartFails
    BY <1>2 DEF StartFails
  <1>3. CASE Reap
    BY <1>3 DEF Reap
  <1>4. CASE Unwatch
    BY <1>4 DEF Unwatch
  <1>5. CASE Drained
    BY <1>5 DEF Drained
  <1>6. CASE Classify
    <2>1. /\ exitCode' \in ExitCodes \cup {0, 1, 124, 127}
          /\ exitCode' = 0 => status = 0 /\ ~deadline
          /\ exitCode' = 124 => deadline \/ status = 124
          /\ deadline => exitCode' = 124
      BY <1>6, ExecutionBounds DEF Classify, ExitCodeOf, Signaled
    <2> QED
      BY <1>6, <2>1 DEF Classify
  <1>7. CASE Report
    BY <1>7 DEF Report
  <1> QED
    BY <1>1, <1>2, <1>3, <1>4, <1>5, <1>6, <1>7 DEF Handler

LEMMA NextInv == Inv /\ [Next]_vars => Inv'
  <1> SUFFICES ASSUME Inv, [Next]_vars PROVE Inv'
    OBVIOUS
  <1> USE DEF Inv, TypeOK, Phases, KillsAreLate, CaptureFollows, NothingLeft, CodeIsComputed, HasPipe
  <1>1. CASE Deadline
    BY <1>1 DEF Deadline
  <1>2. CASE Wake
    BY <1>2 DEF Wake
  <1>3. CASE Copy
    <2>1. UNCHANGED <<pc, deadline, watcher, child, status, background, outside, killed,
                      exitCode, timedOut>>
      BY <1>3 DEF Copy
    <2> QED
      BY <1>3, <2>1, CopyExact
  <1>4. CASE UNCHANGED vars
    BY <1>4 DEF vars
  <1> QED
    BY <1>1, <1>2, <1>3, <1>4, CancelKills, CommandInv, HandlerInv DEF Next

\* The inductive invariant of one call of execute.
THEOREM ExecutionInvariant == Spec => []Inv
  BY InitInv, NextInv, PTL DEF Spec

\* Every exit code in a response is one of the command's or one that execute makes up.
THEOREM ExecutionTypeCorrect == Spec => []TypeOK
  <1>1. Inv => TypeOK
    BY DEF Inv
  <1> QED
    BY <1>1, ExecutionInvariant, PTL

\* No success is reported of a command that failed, was killed, or still writes.
THEOREM ZeroIsSuccess == Spec => []ZeroMeansSuccess
  <1>1. Inv => ZeroMeansSuccess
    BY DEF Inv, Phases, NothingLeft, CodeIsComputed, ZeroMeansSuccess, Done
  <1> QED
    BY <1>1, ExecutionInvariant, PTL

\* A timeout is reported when there was one and only then, and the kill leaves nothing in the group.
THEOREM TimeoutsAreReal == Spec => []TimeoutIsReal
  <1>1. Inv => TimeoutIsReal
    BY DEF Inv, Phases, KillsAreLate, CodeIsComputed, TimeoutIsReal, Done, InGroup, Alive, Processes
  <1> QED
    BY <1>1, ExecutionInvariant, PTL

\* The lengths, the prefix and the truncation flag are those of the command's whole output.
THEOREM CaptureIsExact == Spec => []CaptureExact
  <1>1. Inv => CaptureExact
    <2> SUFFICES ASSUME Inv, Done PROVE CaptureExact
      BY DEF CaptureExact
    <2>1. capture.total = pipe.written
      BY LimitType DEF Inv, TypeOK, CaptureFollows, NothingLeft, Done
    <2> QED
      BY <2>1 DEF Inv, CaptureFollows, CaptureExact
  <1> QED
    BY <1>1, ExecutionInvariant, PTL

-----------------------------------------------------------------------------
(***************************************************************************)
(* What ReturnsOrIsHeld rests on: once the deadline has passed, a handler  *)
(* that has not returned can go on, or the watcher or the copier can, or   *)
(* it is Held, which the property excepts.                                 *)
(***************************************************************************)
HandlerCanGoOn ==
  \/ pc \in {"start", "classifying", "reporting"}
  \/ pc = "waiting" /\ child = "exited"
  \/ pc = "reaped" /\ watcher \in {"watching", "cancelled"}
  \/ pc = "copying" /\ ~HasPipe /\ pipe.unread = 0

WatcherCanGoOn == (watcher = "watching" /\ deadline) \/ watcher = "cancelling"

CopierCanGoOn == pipe.unread > 0

GoesOnOrIsHeld ==
  deadline /\ ~Done => HandlerCanGoOn \/ WatcherCanGoOn \/ CopierCanGoOn \/ Held

\* Whatever the command does, after the deadline nothing can keep execute from returning but a
\* process that the kill does not reach: what a command that ended by itself has left behind with
\* the pipe, or a process that has left the group.
THEOREM NothingElseHolds == Spec => []GoesOnOrIsHeld
  <1>1. Inv => GoesOnOrIsHeld
    <2> SUFFICES ASSUME Inv, deadline, ~Done
                 PROVE  HandlerCanGoOn \/ WatcherCanGoOn \/ CopierCanGoOn \/ Held
      BY DEF GoesOnOrIsHeld
    <2>1. CASE pc = "waiting"
      <3>1. child = "exited" \/ (child = "running" /\ watcher = "cancelled")
            \/ watcher \in {"watching", "cancelling"}
        BY <2>1 DEF Inv, Phases
      <3>2. CASE child = "running" /\ watcher = "cancelled"
        BY <3>2 DEF Inv, KillsAreLate, Held
      <3> QED
        BY <2>1, <3>1, <3>2 DEF HandlerCanGoOn, WatcherCanGoOn
    <2>2. CASE pc = "reaped"
      BY <2>2 DEF Inv, Phases, HandlerCanGoOn, WatcherCanGoOn
    <2>3. CASE pc = "copying"
      <3>1. pipe.unread \in 0..MaxOutput /\ MaxOutput \in Nat /\ child = "reaped"
        BY <2>3, ExecutionBounds DEF Inv, TypeOK, Phases
      <3>2. pipe.unread = 0 \/ CopierCanGoOn
        BY <3>1 DEF CopierCanGoOn
      <3> QED
        BY <2>3, <3>1, <3>2 DEF Inv, KillsAreLate, HandlerCanGoOn, HasPipe, Held
    <2> QED
      BY <2>1, <2>2, <2>3 DEF Inv, TypeOK, Done, HandlerCanGoOn
  <1> QED
    BY <1>1, ExecutionInvariant, PTL
=============================================================================
