----------------------------- MODULE Execution -----------------------------
(***************************************************************************)
(* One call of Broker.execute: the command, its process group, the         *)
(* deadline, and what os/exec (external) does on the broker's behalf.      *)
(*                                                                         *)
(* The handler goroutine starts the command and waits for it.  Start also  *)
(* starts the watcher, a goroutine of os/exec that calls cmd.Cancel when   *)
(* the deadline passes, and the copier, one that moves the command's       *)
(* output from a pipe into an audit.Capture.  The command may leave a      *)
(* background process, with or without the pipe.  Both belong to the       *)
(* command's process group, which is all that a kill reaches, until they   *)
(* leave it (setsid, setpgid), which nothing forbids.  The two output      *)
(* streams are alike; one stands for both.                                 *)
(***************************************************************************)
EXTENDS Integers

CONSTANTS
  ExitCodes,     \* the codes the command may exit with
  RuleLimit,     \* PolicyRule.OutputLimitBytes
  DefaultLimit,  \* 32768
  MaxOutput,     \* bound: how much the command writes
  MaxChunk       \* the largest piece the copier moves at once

ASSUME ExecutionBounds ==
  /\ 0 \in ExitCodes /\ ExitCodes \subseteq 0..255
  /\ RuleLimit \in Int /\ DefaultLimit \in Nat \ {0} /\ MaxOutput \in Nat /\ MaxChunk \in Nat \ {0}

Limit == IF RuleLimit <= 0 THEN DefaultLimit ELSE RuleLimit

Signaled == -1  \* ExitError.ExitCode() of a process that a signal ended

VARIABLES
  pc,          \* where the handler is in execute
  deadline,    \* whether ctx.Err() is DeadlineExceeded
  watcher,     \* the goroutine of os/exec that watches the context
  child,       \* the command itself
  status,      \* its exit code, once it has exited
  background,  \* a process it has started
  outside,     \* which of the two have left the command's process group
  pipe,        \* [written, unread]: all the output, and the part still in the pipe
  capture,     \* the audit.Capture
  killed,      \* history: cmd.Cancel has signalled the group
  exitCode,    \* BrokerResponse.ExitCode
  timedOut     \* whether the message is "Command timed out."

vars == <<pc, deadline, watcher, child, status, background, outside, pipe, capture, killed,
          exitCode, timedOut>>

Init ==
  /\ pc = "start" /\ deadline = FALSE
  /\ watcher = "none" /\ child = "none" /\ status = 0
  /\ background = "none" /\ outside = {}
  /\ pipe = [written |-> 0, unread |-> 0]
  /\ capture = [total |-> 0, kept |-> 0, truncated |-> FALSE]
  /\ killed = FALSE /\ exitCode = 0 /\ timedOut = FALSE

-----------------------------------------------------------------------------
(***************************************************************************)
(* The command: not under the broker's control.                            *)
(***************************************************************************)
Processes == {"child", "background"}

Alive(process) ==
  IF process = "child" THEN child = "running" ELSE background \in {"holding", "detached"}

HasPipe == child = "running" \/ background = "holding"

\* A new process belongs to the group of the one that starts it.
Fork ==
  /\ child = "running" /\ background = "none"
  /\ background' = "holding"
  /\ outside' = IF "child" \in outside THEN {"child", "background"} ELSE outside
  /\ UNCHANGED <<pc, deadline, watcher, child, status, pipe, capture, killed, exitCode, timedOut>>

Redirect ==
  /\ background = "holding"
  /\ background' = "detached"
  /\ UNCHANGED <<pc, deadline, watcher, child, status, outside, pipe, capture, killed,
                 exitCode, timedOut>>

\* setsid or setpgid: a signal to the group does not reach the process any more.
Leave ==
  /\ \E process \in Processes \ outside : Alive(process) /\ outside' = outside \cup {process}
  /\ UNCHANGED <<pc, deadline, watcher, child, status, background, pipe, capture, killed,
                 exitCode, timedOut>>

BackgroundEnds ==
  /\ background \in {"holding", "detached"}
  /\ background' = "dead"
  /\ UNCHANGED <<pc, deadline, watcher, child, status, outside, pipe, capture, killed,
                 exitCode, timedOut>>

Write ==
  /\ HasPipe /\ pipe.written < MaxOutput
  /\ pipe' = [written |-> pipe.written + 1, unread |-> pipe.unread + 1]
  /\ UNCHANGED <<pc, deadline, watcher, child, status, background, outside, capture, killed,
                 exitCode, timedOut>>

Exit ==
  /\ child = "running"
  /\ child' = "exited" /\ status' \in ExitCodes \cup {Signaled}
  /\ UNCHANGED <<pc, deadline, watcher, background, outside, pipe, capture, killed, exitCode,
                 timedOut>>

-----------------------------------------------------------------------------
Deadline ==
  /\ pc # "done" /\ ~deadline
  /\ deadline' = TRUE
  /\ UNCHANGED <<pc, watcher, child, status, background, outside, pipe, capture, killed,
                 exitCode, timedOut>>

\* cmd.Start fails: no such file, no such cwd, fork refused, or the deadline is already past.
StartFails ==
  /\ pc = "start"
  /\ pc' = "done" /\ exitCode' = 127
  /\ UNCHANGED <<deadline, watcher, child, status, background, outside, pipe, capture, killed,
                 timedOut>>

Start ==
  /\ pc = "start" /\ ~deadline
  /\ pc' = "waiting" /\ child' = "running" /\ watcher' = "watching"
  /\ UNCHANGED <<deadline, status, background, outside, pipe, capture, killed, exitCode,
                 timedOut>>

\* The watcher sees the deadline first.
Wake ==
  /\ watcher = "watching" /\ deadline
  /\ watcher' = "cancelling"
  /\ UNCHANGED <<pc, deadline, child, status, background, outside, pipe, capture, killed,
                 exitCode, timedOut>>

InGroup(process) == Alive(process) /\ process \notin outside

\* Mutant of SignalGroup: the signal goes to the command alone.
SignalChildOnly ==
  /\ child' = IF Alive("child") THEN "exited" ELSE child
  /\ status' = IF Alive("child") THEN Signaled ELSE status
  /\ UNCHANGED background

\* signalGroup: SIGKILL to every process that is in the group.
SignalGroup ==
  /\ child' = IF InGroup("child") THEN "exited" ELSE child
  /\ status' = IF InGroup("child") THEN Signaled ELSE status
  /\ background' = IF InGroup("background") THEN "dead" ELSE background

Cancel ==
  /\ watcher = "cancelling"
  /\ SignalGroup
  /\ watcher' = "cancelled" /\ killed' = TRUE
  /\ UNCHANGED <<pc, deadline, outside, pipe, capture, exitCode, timedOut>>

-----------------------------------------------------------------------------
(***************************************************************************)
(* cmd.Wait: reap the command, take the watcher's result, and wait for the *)
(* copier, which ends when nobody holds the pipe any more (cmd.WaitDelay   *)
(* is zero).                                                               *)
(***************************************************************************)
Reap ==
  /\ pc = "waiting" /\ child = "exited"
  /\ pc' = "reaped" /\ child' = "reaped"
  /\ UNCHANGED <<deadline, watcher, status, background, outside, pipe, capture, killed,
                 exitCode, timedOut>>

Unwatch ==
  /\ pc = "reaped" /\ watcher \in {"watching", "cancelled"}
  /\ pc' = "copying" /\ watcher' = "gone"
  /\ UNCHANGED <<deadline, child, status, background, outside, pipe, capture, killed,
                 exitCode, timedOut>>

AtMost(a, b) == IF a <= b THEN a ELSE b

\* Mutant of Captured: a chunk that just fills the buffer counts as truncated.
CapturedEager(cap, n) ==
  LET remaining == Limit - cap.kept
  IN  [total |-> cap.total + n,
       kept |-> cap.kept + AtMost(n, remaining),
       truncated |-> cap.truncated \/ n >= remaining]

\* Capture.Write of a chunk of n bytes.
Captured(cap, n) ==
  LET remaining == Limit - cap.kept
  IN  [total |-> cap.total + n,
       kept |-> cap.kept + AtMost(n, remaining),
       truncated |-> cap.truncated \/ n > remaining]

Copy ==
  /\ \E n \in 1..AtMost(MaxChunk, pipe.unread) :
       /\ pipe' = [pipe EXCEPT !.unread = @ - n]
       /\ capture' = Captured(capture, n)
  /\ UNCHANGED <<pc, deadline, watcher, child, status, background, outside, killed, exitCode,
                 timedOut>>

Drained ==
  /\ pc = "copying" /\ ~HasPipe /\ pipe.unread = 0
  /\ pc' = "classifying"
  /\ UNCHANGED <<deadline, watcher, child, status, background, outside, pipe, capture, killed,
                 exitCode, timedOut>>

\* Mutant of ExitCodeOf: the exit error is looked at before the deadline.
ExitErrorFirst ==
  IF status > 0 THEN status ELSE IF status # 0 THEN 1 ELSE IF deadline THEN 124 ELSE 0

\* Mutant of ExitCodeOf: a failure without an exit code keeps the initial 0.
ExitCodeUnset ==
  IF deadline THEN 124 ELSE IF status > 0 THEN status ELSE 0

\* Mutant of ExitCodeOf: ExitError.ExitCode() is passed on as it is.
ExitCodeRaw == IF deadline THEN 124 ELSE status

\* The switch after Wait: the deadline takes priority; a signal counts as 1.
ExitCodeOf ==
  IF deadline THEN 124 ELSE IF status = 0 THEN 0 ELSE IF status > 0 THEN status ELSE 1

Classify ==
  /\ pc = "classifying"
  /\ exitCode' = ExitCodeOf /\ pc' = "reporting"
  /\ UNCHANGED <<deadline, watcher, child, status, background, outside, pipe, capture, killed,
                 timedOut>>

Report ==
  /\ pc = "reporting"
  /\ timedOut' = deadline /\ pc' = "done"
  /\ UNCHANGED <<deadline, watcher, child, status, background, outside, pipe, capture, killed,
                 exitCode>>

Command == Fork \/ Redirect \/ Leave \/ BackgroundEnds \/ Write \/ Exit

Handler == Start \/ StartFails \/ Reap \/ Unwatch \/ Drained \/ Classify \/ Report

Next == Command \/ Deadline \/ Wake \/ Cancel \/ Copy \/ Handler

(***************************************************************************)
(* The deadline comes, and every goroutine of the broker that can go on    *)
(* does.  Nothing is assumed of the command: it may run for ever.          *)
(***************************************************************************)
Fairness ==
  /\ WF_vars(Handler) /\ WF_vars(Wake) /\ WF_vars(Cancel) /\ WF_vars(Copy) /\ WF_vars(Deadline)

Spec == Init /\ [][Next]_vars /\ Fairness

-----------------------------------------------------------------------------
\* Type invariant.
TypeOK ==
  /\ pc \in {"start", "waiting", "reaped", "copying", "classifying", "reporting", "done"}
  /\ deadline \in BOOLEAN /\ killed \in BOOLEAN /\ timedOut \in BOOLEAN
  /\ watcher \in {"none", "watching", "cancelling", "cancelled", "gone"}
  /\ child \in {"none", "running", "exited", "reaped"}
  /\ background \in {"none", "holding", "detached", "dead"} /\ outside \subseteq Processes
  /\ status \in ExitCodes \cup {Signaled}
  /\ pipe \in [written : 0..MaxOutput, unread : 0..MaxOutput]
  /\ capture \in [total : 0..MaxOutput, kept : 0..Limit, truncated : BOOLEAN]
  /\ exitCode \in ExitCodes \cup {0, 1, 124, 127}

Done == pc = "done"

\* Exit code 0 is only ever reported of a command that ended by itself with status 0, whose
\* whole output was read; a command the broker killed is never a success.
ZeroMeansSuccess ==
  Done /\ exitCode = 0 => child = "reaped" /\ status = 0 /\ ~killed /\ pipe.unread = 0

\* A timeout is reported exactly if there was one: 124 that the command did not choose itself
\* means that the deadline passed, a command the broker killed is reported as timed out whatever
\* Wait returned, and the kill has left nothing alive in the group.
TimeoutIsReal ==
  /\ Done /\ exitCode = 124 => deadline \/ status = 124
  /\ Done /\ killed => exitCode = 124 /\ timedOut
  /\ killed => \A process \in Processes : ~InGroup(process)

\* What the response and the audit record say of the output is exact: the length of all of
\* it, a prefix up to the limit, and truncation only if something was cut.
CaptureExact ==
  Done => /\ capture.total = pipe.written
          /\ capture.kept = AtMost(pipe.written, Limit)
          /\ capture.truncated = (pipe.written > Limit)

\* What execute waits for and nothing ends: a process that keeps the pipe open after the command
\* has ended, or the command itself, and no kill has hit it: because the command ended before
\* the deadline, with which the watcher went, or because the process had left the group.
Held ==
  \/ child = "reaped" /\ background = "holding" /\ (killed => "background" \in outside)
  \/ child = "running" /\ killed /\ "child" \in outside

\* execute returns, unless it is held for ever by a process that the kill at the deadline does
\* not reach.
ReturnsOrIsHeld == <>Done \/ <>[]Held

-----------------------------------------------------------------------------
\* broker.go, at Setpgid: the group is there "so a timeout can terminate the whole tree", and
\* docs/testcases.md, AS-SEC-011 and AS-SEC-013: a request that times out is terminated, with its
\* process group, and audited.  So once the deadline has passed execute returns and nothing is
\* alive in the group.  A process that has left the group is no part of the claim.
TimeoutEndsTheGroup ==
  deadline ~> (Done /\ \A process \in Processes : ~InGroup(process)) \/ outside # {}

=============================================================================
