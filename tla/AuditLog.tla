------------------------------ MODULE AuditLog ------------------------------
(***************************************************************************)
(* The append-only audit log: internal/audit's Logger, and which records   *)
(* its reader Show can parse.                                              *)
(*                                                                         *)
(* Every broker value has a Logger of its own (broker.New), with its own   *)
(* mutex and its own sequence counter that starts at zero; all of them     *)
(* append to the same file.  Loggers are numbered in the order in which    *)
(* they are made, so a restarted broker is the next logger.  A caller is a *)
(* goroutine that handles a request.                                       *)
(*                                                                         *)
(* The file is a sequence of pieces, what one Append left in it:           *)
(*   "line"     the whole record and its newline                           *)
(*   "unended"  the whole record without the newline                       *)
(*   "torn"     a proper prefix of the record                              *)
(* A piece after one that is not a "line" continues that piece's line.     *)
(***************************************************************************)
EXTENDS Naturals, Sequences, FiniteSets

CONSTANTS
  Callers,    \* goroutines that append
  Entries,    \* the events they log
  MaxLogger,  \* bound: how many loggers are ever made
  MaxSeq,     \* bound: how many calls of Append one logger gets
  MaxFaults,  \* bound: failing system calls, killed processes and power losses
  Nobody      \* no caller; also: no event

ASSUME AuditBounds ==
  MaxLogger \in Nat \ {0} /\ MaxSeq \in Nat /\ MaxFaults \in Nat /\ Nobody \notin Callers

Loggers == 1..MaxLogger

VARIABLES
  file,    \* the pieces in the log file, oldest first
  synced,  \* how many leading pieces are known to be on stable storage
  live,    \* the loggers whose process runs
  made,    \* how many loggers have been made
  seq,     \* Logger.seq of each logger
  holder,  \* the caller that holds Logger.mu of each logger
  call,    \* the call of Append each caller is in
  acked,   \* history: the pieces whose Append returned nil
  faults   \* history: how many faults have happened

logVars == <<file, synced, live, made, seq, holder, call, acked, faults>>

NoCall == [pc |-> "idle", logger |-> 1, entry |-> Nobody, number |-> 0]

Piece(c, shape) ==
  [entry |-> call[c].entry, logger |-> call[c].logger, number |-> call[c].number, shape |-> shape]

\* What is left of a piece that is cut short.
Cuts(shape) == IF shape = "line" THEN {"torn", "unended"} ELSE {"torn"}

LogInit ==
  /\ file = <<>> /\ synced = 0
  /\ live = {} /\ made = 0
  /\ seq = [l \in Loggers |-> 0]
  /\ holder = [l \in Loggers |-> Nobody]
  /\ call = [c \in Callers |-> NoCall]
  /\ acked = {} /\ faults = 0

Fault == faults < MaxFaults /\ faults' = faults + 1

\* NewLogger, with the process (or the broker value) it belongs to.
NewLogger ==
  /\ made < MaxLogger
  /\ made' = made + 1
  /\ live' = live \cup {made + 1}
  /\ UNCHANGED <<file, synced, seq, holder, call, acked, faults>>

(***************************************************************************)
(* Append, step by step.  Between Acquire and Return the caller holds the  *)
(* mutex.                                                                  *)
(***************************************************************************)
Unnumbered(l) == {c \in Callers : call[c].logger = l /\ call[c].pc \in {"waiting", "opening"}}

Call(c, l, e) ==
  /\ call[c].pc = "idle" /\ l \in live
  /\ seq[l] + Cardinality(Unnumbered(l)) < MaxSeq
  /\ call' = [call EXCEPT ![c] = [pc |-> "waiting", logger |-> l, entry |-> e, number |-> 0]]
  /\ UNCHANGED <<file, synced, live, made, seq, holder, acked, faults>>

\* Mutant of Acquire: Append does not take the mutex.
AcquireUnlocked(c) ==
  /\ call[c].pc = "waiting"
  /\ holder' = [holder EXCEPT ![call[c].logger] = c]
  /\ call' = [call EXCEPT ![c].pc = "opening"]
  /\ UNCHANGED <<file, synced, live, made, seq, acked, faults>>

Acquire(c) ==
  /\ call[c].pc = "waiting" /\ holder[call[c].logger] = Nobody
  /\ holder' = [holder EXCEPT ![call[c].logger] = c]
  /\ call' = [call EXCEPT ![c].pc = "opening"]
  /\ UNCHANGED <<file, synced, live, made, seq, acked, faults>>

\* Mutant of Return: an early return forgets to unlock.
ReturnLocked(c, result) ==
  /\ holder' = IF result = "ok" THEN [holder EXCEPT ![call[c].logger] = Nobody] ELSE holder
  /\ call' = [call EXCEPT ![c].pc = result]

\* The deferred Unlock, with the value Append returns.
Return(c, result) ==
  /\ holder' = [holder EXCEPT ![call[c].logger] = Nobody]
  /\ call' = [call EXCEPT ![c].pc = result]

\* EnsurePrivateDir fails: no number is used up.
DirFails(c) ==
  /\ call[c].pc = "opening" /\ Fault
  /\ Return(c, "failed")
  /\ UNCHANGED <<file, synced, live, made, seq, acked>>

\* Mutant of Number: the event takes the counter before it is incremented.
NumberLate(c) ==
  LET l == call[c].logger
  IN  /\ call[c].pc = "opening"
      /\ seq' = [seq EXCEPT ![l] = @ + 1]
      /\ call' = [call EXCEPT ![c].pc = "writing", ![c].number = seq[l]]
      /\ UNCHANGED <<file, synced, live, made, holder, acked, faults>>

\* l.seq++, json.Marshal and OpenFile.
Number(c) ==
  LET l == call[c].logger
  IN  /\ call[c].pc = "opening"
      /\ seq' = [seq EXCEPT ![l] = @ + 1]
      /\ call' = [call EXCEPT ![c].pc = "writing", ![c].number = seq[l] + 1]
      /\ UNCHANGED <<file, synced, live, made, holder, acked, faults>>

\* OpenFile fails, or Write fails before or after some bytes went out: the number is used up.
WriteFails(c) ==
  /\ call[c].pc = "writing" /\ Fault
  /\ \/ file' = file
     \/ \E shape \in Cuts("line") : file' = Append(file, Piece(c, shape))
  /\ Return(c, "failed")
  /\ UNCHANGED <<synced, live, made, seq, acked>>

\* Mutant of WriteLine: the file is opened with O_TRUNC rather than O_APPEND.
WriteTruncating(c) ==
  /\ call[c].pc = "writing"
  /\ file' = <<Piece(c, "line")>>
  /\ call' = [call EXCEPT ![c].pc = "syncing"]
  /\ UNCHANGED <<synced, live, made, seq, holder, acked, faults>>

\* Mutant of WriteLine: the newline is left out.
WriteUnended(c) ==
  /\ call[c].pc = "writing"
  /\ file' = Append(file, Piece(c, "unended"))
  /\ call' = [call EXCEPT ![c].pc = "syncing"]
  /\ UNCHANGED <<synced, live, made, seq, holder, acked, faults>>

WriteLine(c) ==
  /\ call[c].pc = "writing"
  /\ file' = Append(file, Piece(c, "line"))
  /\ call' = [call EXCEPT ![c].pc = "syncing"]
  /\ UNCHANGED <<synced, live, made, seq, holder, acked, faults>>

\* Mutant of Sync: Append returns nil without the fsync.
SyncSkipped(c) ==
  /\ call[c].pc = "syncing"
  /\ acked' = acked \cup {Piece(c, "line")}
  /\ Return(c, "ok")
  /\ UNCHANGED <<file, synced, live, made, seq, faults>>

Sync(c) ==
  /\ call[c].pc = "syncing"
  /\ synced' = Len(file)
  /\ acked' = acked \cup {Piece(c, "line")}
  /\ Return(c, "ok")
  /\ UNCHANGED <<file, live, made, seq, faults>>

SyncFails(c) ==
  /\ call[c].pc = "syncing" /\ Fault
  /\ Return(c, "failed")
  /\ UNCHANGED <<file, synced, live, made, seq, acked>>

\* The caller goes on with the result.
Collect(c) ==
  /\ call[c].pc \in {"ok", "failed"}
  /\ call' = [call EXCEPT ![c] = NoCall]
  /\ UNCHANGED <<file, synced, live, made, seq, holder, acked, faults>>

-----------------------------------------------------------------------------
(***************************************************************************)
(* Crashes.  Bytes that were written survive the death of the process; a   *)
(* write it was in the middle of may be cut short.  A power loss keeps at  *)
(* least what was synced, and some prefix of the rest.                     *)
(***************************************************************************)
Dropped(loggers) ==
  /\ live' = live \ loggers
  /\ holder' = [l \in Loggers |-> IF l \in loggers THEN Nobody ELSE holder[l]]
  /\ call' = [c \in Callers |-> IF call[c].logger \in loggers THEN NoCall ELSE call[c]]

Kill(l) ==
  /\ l \in live /\ Fault
  /\ \/ file' = file
     \/ \E c \in Callers, shape \in Cuts("line") :
          /\ call[c].pc = "writing" /\ call[c].logger = l
          /\ file' = Append(file, Piece(c, shape))
  /\ Dropped({l})
  /\ UNCHANGED <<synced, made, seq, acked>>

PowerLoss ==
  /\ live # {} /\ Fault
  /\ \E n \in synced..Len(file) :
       \/ file' = SubSeq(file, 1, n)
       \/ /\ n < Len(file)
          /\ \E shape \in Cuts(file[n+1].shape) :
               file' = Append(SubSeq(file, 1, n), [file[n+1] EXCEPT !.shape = shape])
  /\ Dropped(Loggers)
  /\ synced' = Len(file')
  /\ UNCHANGED <<made, seq, acked>>

AppendStep(c) ==
  \/ Acquire(c) \/ DirFails(c) \/ Number(c) \/ WriteFails(c)
  \/ WriteLine(c) \/ Sync(c) \/ SyncFails(c)

LogNext ==
  \/ NewLogger
  \/ \E c \in Callers, l \in Loggers, e \in Entries : Call(c, l, e)
  \/ \E c \in Callers : AppendStep(c) \/ Collect(c)
  \/ \E l \in Loggers : Kill(l)
  \/ PowerLoss

\* Disk, mutex and scheduler: a started Append goes on.  Go's mutex hands itself to a
\* goroutine that has waited for a millisecond, hence strong fairness of Acquire.
AppendProgress(c) ==
  WF_logVars(Number(c) \/ WriteLine(c) \/ Sync(c) \/ DirFails(c) \/ WriteFails(c) \/ SyncFails(c))

LogFairness == \A c \in Callers : SF_logVars(Acquire(c)) /\ AppendProgress(c)

LogSpec == LogInit /\ [][LogNext]_logVars /\ LogFairness

-----------------------------------------------------------------------------
\* Where a record stands on a line of its own, and so is one that Show can parse.
StartsLine(i) == i = 1 \/ file[i-1].shape = "line"

EndsLine(i) == file[i].shape = "line" \/ (file[i].shape = "unended" /\ i = Len(file))

-----------------------------------------------------------------------------
Pieces ==
  [entry : Entries, logger : Loggers, number : Nat \ {0}, shape : {"line", "unended", "torn"}]

Calls ==
  [pc : {"idle", "waiting", "opening", "writing", "syncing", "ok", "failed"},
   logger : Loggers, entry : Entries \cup {Nobody}, number : Nat]

\* Type invariant.
LogTypeOK ==
  /\ file \in Seq(Pieces)
  /\ synced \in 0..Len(file)
  /\ made \in 0..MaxLogger /\ live \subseteq 1..made
  /\ seq \in [Loggers -> Nat]
  /\ holder \in [Loggers -> Callers \cup {Nobody}]
  /\ call \in [Callers -> Calls]
  /\ acked \subseteq Pieces
  /\ faults \in 0..MaxFaults

\* A nil error from Append means that the whole record is on stable storage: no crash and
\* no later append, by this or another logger, takes it back (Logger.Append ends in Sync).
AckedDurable == \A p \in acked : \E i \in 1..synced : file[i] = p

\* The records of one logger stand in the file in the order of their sequence numbers, and
\* no number is written twice, however the calls interleave (Logger.mu covers seq and Write).
SequenceGrows ==
  \A i, j \in DOMAIN file :
    i < j /\ file[i].logger = file[j].logger => file[i].number < file[j].number

\* What is on stable storage is never rewritten.
AppendOnly == [][SubSeq(file', 1, synced) = SubSeq(file, 1, synced)]_logVars

\* Each fault makes at most one acknowledged record unreadable: a torn line swallows the
\* record appended after it, which Append does not notice (audit.go:88), and only that one.
OneLossPerFault ==
  Cardinality({p \in acked : ~\E i \in DOMAIN file :
                 file[i] = p /\ StartsLine(i) /\ EndsLine(i)}) <= faults

\* A call of Append returns, unless its process dies.
AppendReturns ==
  \A c \in Callers : call[c].pc = "waiting" ~> call[c].pc \in {"ok", "failed", "idle"}

=============================================================================
