-------------------------- MODULE AuditLog_proofs --------------------------
(***************************************************************************)
(* Proofs about AuditLog.tla, for any number of goroutines, loggers, calls *)
(* and faults: Append is type correct, what it acknowledges is durable,    *)
(* and the records of a logger stand in the order of their numbers.        *)
(*                                                                         *)
(* Neither of the two safety properties is inductive.  They rest on the    *)
(* mutex: the caller between Acquire and Return is the holder, hence alone *)
(* with its logger's counter, so that its number is the highest one given  *)
(* out and, until it has written, higher than any in the file.             *)
(***************************************************************************)
EXTENDS AuditLog, SequenceTheorems, FiniteSetTheorems, TLAPS

Inside(c) == call[c].pc \in {"opening", "writing", "syncing"}

\* Logger.mu is held by whoever is between Lock and Unlock.
InsideHolds == \A c \in Callers : Inside(c) => holder[call[c].logger] = c

\* A call has an event, and from l.seq++ to Unlock its number is the logger's counter.
CallsAreFilled ==
  \A c \in Callers :
    /\ call[c].pc # "idle" => call[c].entry \in Entries
    /\ call[c].pc \in {"writing", "syncing"} =>
         call[c].number = seq[call[c].logger] /\ call[c].number > 0

\* No number in the file is beyond the counter of its logger.
NumbersAreGiven == \A i \in DOMAIN file : file[i].number <= seq[file[i].logger]

\* A caller about to write has a number that its logger has not used in the file.
WriterIsAhead ==
  \A c \in Callers : call[c].pc = "writing" =>
    \A i \in DOMAIN file : file[i].logger = call[c].logger => file[i].number < call[c].number

\* A caller about to sync has its whole record in the file.
SyncerHasWritten ==
  \A c \in Callers : call[c].pc = "syncing" => \E i \in DOMAIN file : file[i] = Piece(c, "line")

\* The inductive invariant.
LogInv ==
  /\ LogTypeOK
  /\ InsideHolds /\ CallsAreFilled
  /\ NumbersAreGiven /\ WriterIsAhead /\ SyncerHasWritten
  /\ AckedDurable /\ SequenceGrows

-----------------------------------------------------------------------------
(***************************************************************************)
(* What an Append to the file, and a cut of it, do to the file.            *)
(***************************************************************************)
\* The piece a caller writes is a piece.
LEMMA PieceType ==
  ASSUME LogInv, NEW c \in Callers, call[c].pc \in {"writing", "syncing"},
         NEW shape \in {"line", "unended", "torn"}
  PROVE  /\ Piece(c, shape) \in Pieces
         /\ Piece(c, shape).logger = call[c].logger
         /\ Piece(c, shape).number = call[c].number
BY DEF LogInv, LogTypeOK, CallsAreFilled, Calls, Pieces, Piece, Loggers

\* Appending a piece leaves the others where they are.
LEMMA Appended ==
  ASSUME NEW f \in Seq(Pieces), NEW p \in Pieces
  PROVE  /\ Append(f, p) \in Seq(Pieces)
         /\ DOMAIN Append(f, p) = 1 .. Len(f) + 1
         /\ Len(Append(f, p)) = Len(f) + 1
         /\ \A i \in 1 .. Len(f) : Append(f, p)[i] = f[i]
         /\ Append(f, p)[Len(f) + 1] = p
<1>1. Append(f, p) \in Seq(Pieces) /\ Len(Append(f, p)) = Len(f) + 1
  BY AppendProperties
<1>2. DOMAIN Append(f, p) = 1 .. Len(f) + 1
  BY <1>1, LenProperties
<1> QED
  BY <1>1, <1>2, AppendProperties

\* A writer's piece, whole or not, keeps the order and the records that are acknowledged.
LEMMA WriterExtends ==
  ASSUME LogInv, NEW c \in Callers, call[c].pc = "writing",
         NEW shape \in {"line", "unended", "torn"},
         file' = Append(file, Piece(c, shape)), UNCHANGED <<synced, seq, acked>>
  PROVE  /\ file' \in Seq(Pieces) /\ synced' \in 0 .. Len(file')
         /\ DOMAIN file' = 1 .. Len(file) + 1
         /\ \A i \in 1 .. Len(file) : file'[i] = file[i]
         /\ file'[Len(file) + 1] = Piece(c, shape)
         /\ NumbersAreGiven' /\ AckedDurable' /\ SequenceGrows'
<1> DEFINE p == Piece(c, shape)
<1>1. p \in Pieces /\ p.logger = call[c].logger /\ p.number = call[c].number
  BY PieceType
<1>2. file \in Seq(Pieces) /\ Len(file) \in Nat /\ DOMAIN file = 1 .. Len(file)
  BY LenProperties DEF LogInv, LogTypeOK
<1>3. /\ file' \in Seq(Pieces) /\ Len(file') = Len(file) + 1
      /\ DOMAIN file' = 1 .. Len(file) + 1
      /\ \A i \in 1 .. Len(file) : file'[i] = file[i]
      /\ file'[Len(file) + 1] = p
  BY <1>1, <1>2, Appended
<1>4. synced' \in 0 .. Len(file')
  BY <1>2, <1>3 DEF LogInv, LogTypeOK
<1>5. \A i \in 1 .. Len(file) : file[i].logger = p.logger => file[i].number < p.number
  BY <1>1, <1>2 DEF LogInv, WriterIsAhead
<1>6. NumbersAreGiven'
  <2>1. p.number = seq[p.logger] /\ p.number \in Nat
    BY <1>1 DEF LogInv, CallsAreFilled, Pieces
  <2> QED
    BY <1>2, <1>3, <2>1 DEF LogInv, NumbersAreGiven
<1>7. AckedDurable'
  BY <1>2, <1>3 DEF LogInv, LogTypeOK, AckedDurable
<1>8. SequenceGrows'
  BY <1>2, <1>3, <1>5 DEF LogInv, SequenceGrows
<1> QED
  BY <1>3, <1>4, <1>6, <1>7, <1>8

\* Nothing that the file properties speak of changes.
LEMMA FileKept ==
  ASSUME LogInv, UNCHANGED <<file, synced, seq, acked>>
  PROVE  /\ file' \in Seq(Pieces) /\ synced' \in 0 .. Len(file')
         /\ NumbersAreGiven' /\ AckedDurable' /\ SequenceGrows'
BY DEF LogInv, LogTypeOK, NumbersAreGiven, AckedDurable, SequenceGrows

-----------------------------------------------------------------------------
(***************************************************************************)
(* The mutex, and what leaving Append does to the callers.                 *)
(***************************************************************************)
\* Two callers are never both inside Append of the same logger.
LEMMA Exclusion ==
  ASSUME LogInv, NEW c \in Callers, NEW d \in Callers, Inside(c), Inside(d),
         call[c].logger = call[d].logger
  PROVE  c = d
BY DEF LogInv, InsideHolds

\* The callers' part of the invariant, when one caller leaves Append with a result and
\* releases the mutex, having written to the file or not.
LEMMA Leaving ==
  ASSUME LogInv, NEW c \in Callers, Inside(c), NEW result \in {"ok", "failed"},
         Return(c, result), seq' = seq,
         file' \in Seq(Pieces),
         \/ file' = file
         \/ /\ call[c].pc = "writing"
            /\ \E shape \in {"line", "unended", "torn"} :
                  /\ DOMAIN file' = 1 .. Len(file) + 1
                  /\ \A i \in 1 .. Len(file) : file'[i] = file[i]
                  /\ file'[Len(file) + 1] = Piece(c, shape)
  PROVE  /\ holder' \in [Loggers -> Callers \cup {Nobody}] /\ call' \in [Callers -> Calls]
         /\ InsideHolds' /\ CallsAreFilled' /\ WriterIsAhead' /\ SyncerHasWritten'
<1>1. /\ call \in [Callers -> Calls] /\ holder \in [Loggers -> Callers \cup {Nobody}]
      /\ call[c].logger \in Loggers
      /\ file \in Seq(Pieces) /\ DOMAIN file = 1 .. Len(file) /\ Len(file) \in Nat
  BY LenProperties DEF LogInv, LogTypeOK, Calls
<1>2. /\ call' = [call EXCEPT ![c].pc = result]
      /\ holder' = [holder EXCEPT ![call[c].logger] = Nobody]
  BY DEF Return
<1>3. call' \in [Callers -> Calls]
  BY <1>1, <1>2 DEF Calls
<1>4. holder' \in [Loggers -> Callers \cup {Nobody}]
  BY <1>1, <1>2
<1>5. /\ \A d \in Callers \ {c} : call'[d] = call[d]
      /\ call'[c].pc = result
      /\ call'[c].logger = call[c].logger /\ call'[c].entry = call[c].entry
  BY <1>1, <1>2 DEF Calls
<1>6. \A d \in Callers \ {c} : Inside(d) => call[d].logger # call[c].logger
  BY Exclusion
<1>7. InsideHolds'
  <2> SUFFICES ASSUME NEW d \in Callers, Inside(d)'
               PROVE  holder'[call'[d].logger] = d
    BY DEF InsideHolds
  <2>1. d # c /\ call'[d] = call[d] /\ Inside(d)
    BY <1>5 DEF Inside
  <2>2. call[d].logger # call[c].logger /\ call[d].logger \in Loggers
    BY <1>1, <1>6, <2>1 DEF Calls
  <2>3. holder[call[d].logger] = d
    BY <2>1 DEF LogInv, InsideHolds
  <2> QED
    BY <1>1, <1>2, <2>1, <2>2, <2>3
<1>8. CallsAreFilled'
  BY <1>5 DEF LogInv, CallsAreFilled, Inside
<1>9. WriterIsAhead'
  <2> SUFFICES ASSUME NEW d \in Callers, call'[d].pc = "writing",
                      NEW i \in DOMAIN file', file'[i].logger = call'[d].logger
               PROVE  file'[i].number < call'[d].number
    BY DEF WriterIsAhead
  <2>1. d # c /\ call'[d] = call[d] /\ call[d].logger # call[c].logger
    BY <1>5, <1>6 DEF Inside
  <2>2. i \in DOMAIN file /\ file'[i] = file[i]
    BY <1>1, <2>1 DEF Piece
  <2> QED
    BY <2>1, <2>2 DEF LogInv, WriterIsAhead
<1>10. SyncerHasWritten'
  <2> SUFFICES ASSUME NEW d \in Callers, call'[d].pc = "syncing"
               PROVE  \E i \in DOMAIN file' : file'[i] = Piece(d, "line")'
    BY DEF SyncerHasWritten
  <2>1. d # c /\ call'[d] = call[d]
    BY <1>5
  <2>2. PICK i \in DOMAIN file : file[i] = Piece(d, "line")
    BY <2>1 DEF LogInv, SyncerHasWritten
  <2>3. i \in DOMAIN file' /\ file'[i] = file[i]
    BY <1>1, <2>2
  <2> QED
    BY <2>1, <2>2, <2>3 DEF Piece
<1> QED
  BY <1>3, <1>4, <1>7, <1>8, <1>9, <1>10

-----------------------------------------------------------------------------
(***************************************************************************)
(* The invariant holds at the start and is kept by every step.             *)
(***************************************************************************)
\* The empty log satisfies the invariant.
LEMMA LogInit_LogInv == LogInit => LogInv
<1> SUFFICES ASSUME LogInit PROVE LogInv
  OBVIOUS
<1>1. /\ file \in Seq(Pieces) /\ Len(file) = 0 /\ DOMAIN file = {}
  BY EmptySeq DEF LogInit
<1>2. LogTypeOK
  <2>1. call \in [Callers -> Calls]
    BY AuditBounds DEF LogInit, NoCall, Calls, Loggers
  <2>2. holder \in [Loggers -> Callers \cup {Nobody}] /\ seq \in [Loggers -> Nat]
    BY DEF LogInit
  <2> QED
    BY <1>1, <2>1, <2>2, AuditBounds DEF LogInit, LogTypeOK
<1>3. InsideHolds /\ CallsAreFilled /\ WriterIsAhead /\ SyncerHasWritten
  BY DEF LogInit, NoCall, InsideHolds, Inside, CallsAreFilled, WriterIsAhead, SyncerHasWritten
<1>4. NumbersAreGiven /\ AckedDurable /\ SequenceGrows
  BY <1>1 DEF LogInit, NumbersAreGiven, AckedDurable, SequenceGrows
<1> QED
  BY <1>2, <1>3, <1>4 DEF LogInv

\* A step that changes the loggers only.
LEMMA NewLogger_LogInv == LogInv /\ NewLogger => LogInv'
<1> SUFFICES ASSUME LogInv, NewLogger PROVE LogInv'
  OBVIOUS
<1>1. LogTypeOK'
  BY AuditBounds DEF LogInv, LogTypeOK, NewLogger
<1>2. NumbersAreGiven' /\ AckedDurable' /\ SequenceGrows'
  BY FileKept DEF NewLogger
<1>3. InsideHolds' /\ CallsAreFilled' /\ WriterIsAhead' /\ SyncerHasWritten'
  BY DEF LogInv, NewLogger, InsideHolds, Inside, CallsAreFilled, WriterIsAhead,
         SyncerHasWritten, Piece
<1> QED
  BY <1>1, <1>2, <1>3 DEF LogInv

\* A caller that enters or leaves a call outside the mutex.
LEMMA Outside ==
  ASSUME LogInv, NEW c \in Callers, ~Inside(c),
         NEW r \in Calls, r.pc \in {"idle", "waiting"},
         r.pc # "idle" => r.entry \in Entries,
         call' = [call EXCEPT ![c] = r],
         UNCHANGED <<file, synced, live, made, seq, holder, acked, faults>>
  PROVE  LogInv'
<1>1. call \in [Callers -> Calls]
  BY DEF LogInv, LogTypeOK
<1>2. LogTypeOK'
  BY <1>1 DEF LogInv, LogTypeOK
<1>3. call'[c] = r /\ \A d \in Callers \ {c} : call'[d] = call[d]
  BY <1>1
<1>4. NumbersAreGiven' /\ AckedDurable' /\ SequenceGrows'
  BY FileKept
<1>5. InsideHolds'
  BY <1>3 DEF LogInv, InsideHolds, Inside
<1>6. CallsAreFilled'
  BY <1>3 DEF LogInv, CallsAreFilled
<1>7. WriterIsAhead'
  BY <1>3 DEF LogInv, WriterIsAhead
<1>8. SyncerHasWritten'
  <2> SUFFICES ASSUME NEW d \in Callers, call'[d].pc = "syncing"
               PROVE  \E i \in DOMAIN file : file[i] = Piece(d, "line")'
    BY DEF SyncerHasWritten
  <2>1. d # c /\ call'[d] = call[d]
    BY <1>3
  <2> QED
    BY <2>1 DEF LogInv, SyncerHasWritten, Piece
<1> QED
  BY <1>2, <1>4, <1>5, <1>6, <1>7, <1>8 DEF LogInv

\* A caller enters Append and waits for the mutex.
LEMMA Call_LogInv ==
  ASSUME LogInv, NEW c \in Callers, NEW l \in Loggers, NEW e \in Entries, Call(c, l, e)
  PROVE  LogInv'
<1> DEFINE r == [pc |-> "waiting", logger |-> l, entry |-> e, number |-> 0]
<1>1. r \in Calls /\ ~Inside(c)
  BY DEF Calls, Call, Inside
<1> QED
  BY <1>1, Outside DEF Call

\* A caller that has left Append takes its result.
LEMMA Collect_LogInv ==
  ASSUME LogInv, NEW c \in Callers, Collect(c)
  PROVE  LogInv'
<1>1. NoCall \in Calls /\ ~Inside(c)
  BY AuditBounds DEF NoCall, Calls, Collect, Inside, Loggers
<1> QED
  BY <1>1, Outside DEF Collect, NoCall

\* A caller takes a mutex that nobody holds.
LEMMA Acquire_LogInv ==
  ASSUME LogInv, NEW c \in Callers, Acquire(c)
  PROVE  LogInv'
<1>1. /\ call \in [Callers -> Calls] /\ holder \in [Loggers -> Callers \cup {Nobody}]
      /\ call[c].logger \in Loggers /\ call[c].pc = "waiting"
      /\ holder[call[c].logger] = Nobody
  BY DEF LogInv, LogTypeOK, Calls, Acquire
<1>2. call' \in [Callers -> Calls] /\ holder' \in [Loggers -> Callers \cup {Nobody}]
  BY <1>1 DEF Acquire, Calls
<1>3. /\ \A d \in Callers \ {c} : call'[d] = call[d]
      /\ call'[c].pc = "opening"
      /\ call'[c].logger = call[c].logger /\ call'[c].entry = call[c].entry
  BY <1>1 DEF Acquire, Calls
<1>4. LogTypeOK'
  BY <1>2 DEF LogInv, LogTypeOK, Acquire
<1>5. NumbersAreGiven' /\ AckedDurable' /\ SequenceGrows'
  BY FileKept DEF Acquire
<1>6. InsideHolds'
  <2> SUFFICES ASSUME NEW d \in Callers, Inside(d)'
               PROVE  holder'[call'[d].logger] = d
    BY DEF InsideHolds
  <2>1. CASE d = c
    BY <1>1, <1>3, <2>1 DEF Acquire
  <2>2. CASE d # c
    <3>1. call'[d] = call[d] /\ holder[call[d].logger] = d
      BY <1>3, <2>2 DEF LogInv, InsideHolds, Inside
    <3>2. call[d].logger # call[c].logger
      BY <1>1, <3>1, AuditBounds
    <3> QED
      BY <1>1, <3>1, <3>2 DEF Acquire, Calls
  <2> QED
    BY <2>1, <2>2
<1>7. CallsAreFilled' /\ WriterIsAhead'
  BY <1>1, <1>3 DEF LogInv, CallsAreFilled, WriterIsAhead, Acquire
<1>8. SyncerHasWritten'
  <2> SUFFICES ASSUME NEW d \in Callers, call'[d].pc = "syncing"
               PROVE  \E i \in DOMAIN file' : file'[i] = Piece(d, "line")'
    BY DEF SyncerHasWritten
  <2>1. d # c /\ call'[d] = call[d]
    BY <1>3
  <2> QED
    BY <2>1 DEF LogInv, SyncerHasWritten, Piece, Acquire
<1> QED
  BY <1>4, <1>5, <1>6, <1>7, <1>8 DEF LogInv

\* The counter goes up and the caller takes it: no other caller of the logger is inside.
LEMMA Number_LogInv ==
  ASSUME LogInv, NEW c \in Callers, Number(c)
  PROVE  LogInv'
<1> DEFINE l == call[c].logger
<1>1. /\ call \in [Callers -> Calls] /\ seq \in [Loggers -> Nat]
      /\ l \in Loggers /\ call[c].pc = "opening"
      /\ file \in Seq(Pieces)
  BY DEF LogInv, LogTypeOK, Calls, Number
<1>2. /\ \A d \in Callers \ {c} : call'[d] = call[d]
      /\ call'[c].pc = "writing" /\ call'[c].number = seq[l] + 1
      /\ call'[c].logger = l /\ call'[c].entry = call[c].entry
  BY <1>1 DEF Number, Calls
<1>3. /\ seq'[l] = seq[l] + 1
      /\ \A k \in Loggers \ {l} : seq'[k] = seq[k]
      /\ seq' \in [Loggers -> Nat]
  BY <1>1 DEF Number
<1>4. call' \in [Callers -> Calls]
  <2>1. seq[l] + 1 \in Nat
    BY <1>1
  <2>2. call' = [call EXCEPT ![c].pc = "writing", ![c].number = seq[l] + 1]
    BY DEF Number
  <2> QED
    BY <1>1, <2>1, <2>2 DEF Calls
<1>5. LogTypeOK'
  BY <1>3, <1>4 DEF LogInv, LogTypeOK, Number
<1>6. \A i \in DOMAIN file : file[i] \in Pieces
  BY <1>1, ElementOfSeq, LenProperties
<1>7. NumbersAreGiven'
  <2> SUFFICES ASSUME NEW i \in DOMAIN file
               PROVE  file[i].number <= seq'[file[i].logger]
    BY DEF NumbersAreGiven, Number
  <2>1. file[i].logger \in Loggers /\ file[i].number \in Nat
    BY <1>6 DEF Pieces
  <2>2. file[i].number <= seq[file[i].logger] /\ seq[file[i].logger] \in Nat
    BY <1>1, <2>1 DEF LogInv, NumbersAreGiven
  <2>3. CASE file[i].logger = l
    BY <1>3, <2>1, <2>2, <2>3
  <2>4. CASE file[i].logger # l
    BY <1>3, <2>1, <2>2, <2>4
  <2> QED
    BY <2>3, <2>4
<1>8. AckedDurable' /\ SequenceGrows'
  BY DEF LogInv, AckedDurable, SequenceGrows, Number
<1>9. InsideHolds'
  BY <1>1, <1>2 DEF LogInv, InsideHolds, Inside, Number
<1>10. \A d \in Callers \ {c} : Inside(d) => call[d].logger # l
  BY <1>1, Exclusion DEF Inside
<1>11. CallsAreFilled'
  <2> SUFFICES ASSUME NEW d \in Callers
               PROVE  /\ call'[d].pc # "idle" => call'[d].entry \in Entries
                      /\ call'[d].pc \in {"writing", "syncing"} =>
                           call'[d].number = seq'[call'[d].logger] /\ call'[d].number > 0
    BY DEF CallsAreFilled
  <2>1. CASE d = c
    BY <1>1, <1>2, <1>3, <2>1 DEF LogInv, CallsAreFilled
  <2>2. CASE d # c
    <3>1. call'[d] = call[d] /\ call[d].logger \in Loggers
      BY <1>1, <1>2, <2>2 DEF Calls
    <3> QED
      BY <1>3, <1>10, <2>2, <3>1 DEF LogInv, CallsAreFilled, Inside
  <2> QED
    BY <2>1, <2>2
<1>12. WriterIsAhead'
  <2> SUFFICES ASSUME NEW d \in Callers, call'[d].pc = "writing",
                      NEW i \in DOMAIN file, file[i].logger = call'[d].logger
               PROVE  file[i].number < call'[d].number
    BY DEF WriterIsAhead, Number
  <2>1. CASE d = c
    <3>1. file[i].number <= seq[l] /\ file[i].number \in Nat
      BY <1>2, <1>6, <2>1 DEF LogInv, NumbersAreGiven, Pieces
    <3> QED
      BY <1>1, <1>2, <2>1, <3>1
  <2>2. CASE d # c
    BY <1>2, <2>2 DEF LogInv, WriterIsAhead
  <2> QED
    BY <2>1, <2>2
<1>13. SyncerHasWritten'
  <2> SUFFICES ASSUME NEW d \in Callers, call'[d].pc = "syncing"
               PROVE  \E i \in DOMAIN file : file[i] = Piece(d, "line")'
    BY DEF SyncerHasWritten, Number
  <2>1. d # c /\ call'[d] = call[d]
    BY <1>2
  <2> QED
    BY <2>1 DEF LogInv, SyncerHasWritten, Piece
<1> QED
  BY <1>5, <1>7, <1>8, <1>9, <1>11, <1>12, <1>13 DEF LogInv

\* EnsurePrivateDir fails: the caller leaves and the file is as it was.
LEMMA DirFails_LogInv ==
  ASSUME LogInv, NEW c \in Callers, DirFails(c)
  PROVE  LogInv'
<1>1. Inside(c) /\ UNCHANGED <<file, synced, live, made, seq, acked>> /\ Return(c, "failed")
  BY DEF DirFails, Inside
<1>2. /\ file' \in Seq(Pieces) /\ synced' \in 0 .. Len(file')
      /\ NumbersAreGiven' /\ AckedDurable' /\ SequenceGrows'
  BY <1>1, FileKept
<1>3. /\ holder' \in [Loggers -> Callers \cup {Nobody}] /\ call' \in [Callers -> Calls]
      /\ InsideHolds' /\ CallsAreFilled' /\ WriterIsAhead' /\ SyncerHasWritten'
  BY <1>1, <1>2, Leaving
<1>4. faults' \in 0 .. MaxFaults
  BY AuditBounds DEF LogInv, LogTypeOK, DirFails, Fault
<1>5. LogTypeOK'
  BY <1>1, <1>2, <1>3, <1>4 DEF LogInv, LogTypeOK
<1> QED
  BY <1>2, <1>3, <1>5 DEF LogInv

\* Write fails: the caller leaves, with some, all or none of its record in the file.
LEMMA WriteFails_LogInv ==
  ASSUME LogInv, NEW c \in Callers, WriteFails(c)
  PROVE  LogInv'
<1>1. /\ Inside(c) /\ call[c].pc = "writing"
      /\ UNCHANGED <<synced, live, made, seq, acked>> /\ Return(c, "failed")
  BY DEF WriteFails, Inside
<1>2. /\ file' \in Seq(Pieces) /\ synced' \in 0 .. Len(file')
      /\ NumbersAreGiven' /\ AckedDurable' /\ SequenceGrows'
      /\ \/ file' = file
         \/ \E shape \in {"line", "unended", "torn"} :
               /\ DOMAIN file' = 1 .. Len(file) + 1
               /\ \A i \in 1 .. Len(file) : file'[i] = file[i]
               /\ file'[Len(file) + 1] = Piece(c, shape)
  <2>1. CASE file' = file
    BY <1>1, <2>1, FileKept
  <2>2. CASE \E shape \in Cuts("line") : file' = Append(file, Piece(c, shape))
    <3>1. PICK shape \in {"torn", "unended"} : file' = Append(file, Piece(c, shape))
      BY <2>2 DEF Cuts
    <3> QED
      BY <1>1, <3>1, WriterExtends
  <2> QED
    BY <2>1, <2>2 DEF WriteFails
<1>3. /\ holder' \in [Loggers -> Callers \cup {Nobody}] /\ call' \in [Callers -> Calls]
      /\ InsideHolds' /\ CallsAreFilled' /\ WriterIsAhead' /\ SyncerHasWritten'
  BY <1>1, <1>2, Leaving
<1>4. faults' \in 0 .. MaxFaults
  BY AuditBounds DEF LogInv, LogTypeOK, WriteFails, Fault
<1>5. LogTypeOK'
  BY <1>1, <1>2, <1>3, <1>4 DEF LogInv, LogTypeOK
<1> QED
  BY <1>2, <1>3, <1>5 DEF LogInv

\* The whole record goes out; the caller stays inside.
LEMMA WriteLine_LogInv ==
  ASSUME LogInv, NEW c \in Callers, WriteLine(c)
  PROVE  LogInv'
<1>1. /\ call \in [Callers -> Calls] /\ call[c].pc = "writing" /\ Inside(c)
      /\ file \in Seq(Pieces) /\ DOMAIN file = 1 .. Len(file) /\ Len(file) \in Nat
      /\ UNCHANGED <<synced, live, made, seq, holder, acked, faults>>
  BY LenProperties DEF LogInv, LogTypeOK, WriteLine, Inside
<1>2. /\ file' \in Seq(Pieces) /\ synced' \in 0 .. Len(file')
      /\ DOMAIN file' = 1 .. Len(file) + 1
      /\ \A i \in 1 .. Len(file) : file'[i] = file[i]
      /\ file'[Len(file) + 1] = Piece(c, "line")
      /\ NumbersAreGiven' /\ AckedDurable' /\ SequenceGrows'
  BY <1>1, WriterExtends DEF WriteLine
<1>3. /\ \A d \in Callers \ {c} : call'[d] = call[d]
      /\ call'[c].pc = "syncing" /\ call'[c].number = call[c].number
      /\ call'[c].logger = call[c].logger /\ call'[c].entry = call[c].entry
  BY <1>1 DEF WriteLine, Calls
<1>4. call' \in [Callers -> Calls]
  BY <1>1 DEF WriteLine, Calls
<1>5. LogTypeOK'
  BY <1>1, <1>2, <1>4 DEF LogInv, LogTypeOK
<1>6. InsideHolds'
  BY <1>1, <1>3 DEF LogInv, InsideHolds, Inside
<1>7. CallsAreFilled'
  BY <1>1, <1>3 DEF LogInv, CallsAreFilled
<1>8. WriterIsAhead'
  <2> SUFFICES ASSUME NEW d \in Callers, call'[d].pc = "writing",
                      NEW i \in DOMAIN file', file'[i].logger = call'[d].logger
               PROVE  file'[i].number < call'[d].number
    BY DEF WriterIsAhead
  <2>1. d # c /\ call'[d] = call[d] /\ call[d].logger # call[c].logger
    BY <1>1, <1>3, Exclusion DEF Inside
  <2>2. i \in DOMAIN file /\ file'[i] = file[i]
    BY <1>1, <1>2, <2>1 DEF Piece
  <2> QED
    BY <2>1, <2>2 DEF LogInv, WriterIsAhead
<1>9. SyncerHasWritten'
  <2> SUFFICES ASSUME NEW d \in Callers, call'[d].pc = "syncing"
               PROVE  \E i \in DOMAIN file' : file'[i] = Piece(d, "line")'
    BY DEF SyncerHasWritten
  <2>1. CASE d = c
    <3>1. Piece(c, "line")' = Piece(c, "line")
      BY <1>3 DEF Piece
    <3>2. Len(file) + 1 \in DOMAIN file'
      BY <1>1, <1>2
    <3> QED
      BY <1>2, <2>1, <3>1, <3>2
  <2>2. CASE d # c
    <3>1. call'[d] = call[d]
      BY <1>3, <2>2
    <3>2. PICK i \in DOMAIN file : file[i] = Piece(d, "line")
      BY <3>1 DEF LogInv, SyncerHasWritten
    <3>3. i \in DOMAIN file' /\ file'[i] = file[i]
      BY <1>1, <1>2, <3>2
    <3> QED
      BY <3>1, <3>2, <3>3 DEF Piece
  <2> QED
    BY <2>1, <2>2
<1> QED
  BY <1>2, <1>5, <1>6, <1>7, <1>8, <1>9 DEF LogInv

\* Everything in the file becomes durable, the caller's record in particular.
LEMMA Sync_LogInv ==
  ASSUME LogInv, NEW c \in Callers, Sync(c)
  PROVE  LogInv'
<1>1. /\ Inside(c) /\ call[c].pc = "syncing" /\ Return(c, "ok")
      /\ UNCHANGED <<file, live, made, seq, faults>>
      /\ synced' = Len(file) /\ acked' = acked \cup {Piece(c, "line")}
      /\ file \in Seq(Pieces) /\ Len(file) \in Nat /\ DOMAIN file = 1 .. Len(file)
  BY LenProperties DEF Sync, Inside, LogInv, LogTypeOK
<1>2. Piece(c, "line") \in Pieces
  BY <1>1, PieceType
<1>3. /\ holder' \in [Loggers -> Callers \cup {Nobody}] /\ call' \in [Callers -> Calls]
      /\ InsideHolds' /\ CallsAreFilled' /\ WriterIsAhead' /\ SyncerHasWritten'
  BY <1>1, Leaving
<1>4. LogTypeOK'
  BY <1>1, <1>2, <1>3 DEF LogInv, LogTypeOK
<1>5. AckedDurable'
  <2> SUFFICES ASSUME NEW p \in acked'
               PROVE  \E i \in 1 .. synced' : file'[i] = p
    BY DEF AckedDurable
  <2>1. CASE p \in acked
    <3>1. PICK i \in 1 .. synced : file[i] = p
      BY <2>1 DEF LogInv, AckedDurable
    <3> QED
      BY <1>1, <3>1 DEF LogInv, LogTypeOK
  <2>2. CASE p = Piece(c, "line")
    BY <1>1, <2>2 DEF LogInv, SyncerHasWritten
  <2> QED
    BY <1>1, <2>1, <2>2
<1>6. NumbersAreGiven' /\ SequenceGrows'
  BY <1>1 DEF LogInv, NumbersAreGiven, SequenceGrows
<1> QED
  BY <1>3, <1>4, <1>5, <1>6 DEF LogInv

\* Sync fails: the caller leaves, and nothing is acknowledged.
LEMMA SyncFails_LogInv ==
  ASSUME LogInv, NEW c \in Callers, SyncFails(c)
  PROVE  LogInv'
<1>1. Inside(c) /\ UNCHANGED <<file, synced, live, made, seq, acked>> /\ Return(c, "failed")
  BY DEF SyncFails, Inside
<1>2. /\ file' \in Seq(Pieces) /\ synced' \in 0 .. Len(file')
      /\ NumbersAreGiven' /\ AckedDurable' /\ SequenceGrows'
  BY <1>1, FileKept
<1>3. /\ holder' \in [Loggers -> Callers \cup {Nobody}] /\ call' \in [Callers -> Calls]
      /\ InsideHolds' /\ CallsAreFilled' /\ WriterIsAhead' /\ SyncerHasWritten'
  BY <1>1, <1>2, Leaving
<1>4. faults' \in 0 .. MaxFaults
  BY AuditBounds DEF LogInv, LogTypeOK, SyncFails, Fault
<1>5. LogTypeOK'
  BY <1>1, <1>2, <1>3, <1>4 DEF LogInv, LogTypeOK
<1> QED
  BY <1>2, <1>3, <1>5 DEF LogInv

-----------------------------------------------------------------------------
(***************************************************************************)
(* Crashes: the callers of the dropped loggers are gone, the others are as *)
(* they were.                                                              *)
(***************************************************************************)
\* The callers of the loggers that are still alive are where they were.
LEMMA Survivors ==
  ASSUME LogInv, NEW loggers \in SUBSET Loggers, Dropped(loggers)
  PROVE  /\ holder' \in [Loggers -> Callers \cup {Nobody}] /\ call' \in [Callers -> Calls]
         /\ live' \subseteq 1 .. made
         /\ InsideHolds'
         /\ \A c \in Callers : call'[c].pc # "idle" =>
              call'[c] = call[c] /\ call[c].logger \in Loggers \ loggers
<1>1. call \in [Callers -> Calls] /\ holder \in [Loggers -> Callers \cup {Nobody}]
  BY DEF LogInv, LogTypeOK
<1>2. NoCall \in Calls /\ NoCall.pc = "idle"
  BY AuditBounds DEF NoCall, Calls, Loggers
<1>3. \A c \in Callers : call'[c].pc # "idle" =>
        call'[c] = call[c] /\ call[c].logger \in Loggers \ loggers
  BY <1>1, <1>2 DEF Dropped, Calls
<1>4. call' \in [Callers -> Calls] /\ holder' \in [Loggers -> Callers \cup {Nobody}]
  BY <1>1, <1>2 DEF Dropped
<1>5. live' \subseteq 1 .. made
  BY DEF LogInv, LogTypeOK, Dropped
<1>6. InsideHolds'
  <2> SUFFICES ASSUME NEW d \in Callers, Inside(d)'
               PROVE  holder'[call'[d].logger] = d
    BY DEF InsideHolds
  <2>1. call'[d] = call[d] /\ call[d].logger \in Loggers \ loggers
    BY <1>3 DEF Inside
  <2>2. holder[call[d].logger] = d
    BY <2>1 DEF LogInv, InsideHolds, Inside
  <2> QED
    BY <2>1, <2>2 DEF Dropped
<1> QED
  BY <1>3, <1>4, <1>5, <1>6

\* A process dies, in the middle of its write or not.
LEMMA Kill_LogInv ==
  ASSUME LogInv, NEW l \in Loggers, Kill(l)
  PROVE  LogInv'
<1>1. Dropped({l}) /\ UNCHANGED <<synced, made, seq, acked>>
  BY DEF Kill
<1>2. /\ holder' \in [Loggers -> Callers \cup {Nobody}] /\ call' \in [Callers -> Calls]
      /\ live' \subseteq 1 .. made /\ InsideHolds'
      /\ \A c \in Callers : call'[c].pc # "idle" =>
           call'[c] = call[c] /\ call[c].logger \in Loggers \ {l}
  BY <1>1, Survivors
<1>3. DOMAIN file = 1 .. Len(file) /\ Len(file) \in Nat
  BY LenProperties DEF LogInv, LogTypeOK
<1>4. /\ file' \in Seq(Pieces) /\ synced' \in 0 .. Len(file')
      /\ NumbersAreGiven' /\ AckedDurable' /\ SequenceGrows'
      /\ \A i \in DOMAIN file : i \in DOMAIN file' /\ file'[i] = file[i]
      /\ \A i \in DOMAIN file' : file'[i].logger # l => i \in DOMAIN file
  <2>1. CASE file' = file
    BY <1>1, <2>1, FileKept
  <2>2. CASE \E c \in Callers, shape \in Cuts("line") :
               /\ call[c].pc = "writing" /\ call[c].logger = l
               /\ file' = Append(file, Piece(c, shape))
    <3>1. PICK c \in Callers, shape \in {"torn", "unended"} :
                 /\ call[c].pc = "writing" /\ call[c].logger = l
                 /\ file' = Append(file, Piece(c, shape))
      BY <2>2 DEF Cuts
    <3>2. /\ file' \in Seq(Pieces) /\ synced' \in 0 .. Len(file')
          /\ DOMAIN file' = 1 .. Len(file) + 1
          /\ \A i \in 1 .. Len(file) : file'[i] = file[i]
          /\ file'[Len(file) + 1] = Piece(c, shape)
          /\ NumbersAreGiven' /\ AckedDurable' /\ SequenceGrows'
      BY <1>1, <3>1, WriterExtends
    <3>3. Piece(c, shape).logger = l
      BY <3>1 DEF Piece
    <3> QED
      BY <1>3, <3>2, <3>3
  <2> QED
    BY <2>1, <2>2 DEF Kill
<1>5. CallsAreFilled'
  BY <1>1, <1>2 DEF LogInv, CallsAreFilled
<1>6. WriterIsAhead'
  BY <1>2, <1>4 DEF LogInv, WriterIsAhead
<1>7. SyncerHasWritten'
  <2> SUFFICES ASSUME NEW d \in Callers, call'[d].pc = "syncing"
               PROVE  \E i \in DOMAIN file' : file'[i] = Piece(d, "line")'
    BY DEF SyncerHasWritten
  <2>1. call'[d] = call[d]
    BY <1>2
  <2>2. PICK i \in DOMAIN file : file[i] = Piece(d, "line")
    BY <2>1 DEF LogInv, SyncerHasWritten
  <2> QED
    BY <1>4, <2>1, <2>2 DEF Piece
<1>8. LogTypeOK'
  <2>1. faults' \in 0 .. MaxFaults
    BY AuditBounds DEF LogInv, LogTypeOK, Kill, Fault
  <2> QED
    BY <1>1, <1>2, <1>4, <2>1 DEF LogInv, LogTypeOK
<1> QED
  BY <1>2, <1>4, <1>5, <1>6, <1>7, <1>8 DEF LogInv

\* What is left of the file after its first n pieces.
LEMMA Cut ==
  ASSUME NEW f \in Seq(Pieces), NEW n \in 0 .. Len(f)
  PROVE  /\ SubSeq(f, 1, n) \in Seq(Pieces) /\ Len(SubSeq(f, 1, n)) = n
         /\ DOMAIN SubSeq(f, 1, n) = 1 .. n
         /\ \A i \in 1 .. n : SubSeq(f, 1, n)[i] = f[i]
<1>1. n \in Nat /\ Len(f) \in Nat /\ \A i \in 1 .. n : f[i] \in Pieces
  BY ElementOfSeq, LenProperties
<1>2. /\ SubSeq(f, 1, n) \in Seq(Pieces) /\ Len(SubSeq(f, 1, n)) = n
      /\ \A i \in 1 .. n : SubSeq(f, 1, n)[i] = f[i]
  BY <1>1, SubSeqProperties
<1> QED
  BY <1>2, LenProperties

\* A power loss leaves the synced pieces, some of the others, and perhaps a torn one that
\* was there before: every number in the file stood at the same place already.
LEMMA PowerLoss_File ==
  ASSUME LogInv, PowerLoss
  PROVE  /\ file' \in Seq(Pieces)
         /\ DOMAIN file' = 1 .. Len(file') /\ Len(file') \in synced .. Len(file)
         /\ \A i \in 1 .. synced : file'[i] = file[i]
         /\ \A i \in DOMAIN file' :
              /\ file'[i].logger = file[i].logger /\ file'[i].number = file[i].number
              /\ file'[i].entry = file[i].entry
              /\ i < Len(file') => file'[i].shape = file[i].shape
<1>1. file \in Seq(Pieces) /\ Len(file) \in Nat /\ synced \in 0 .. Len(file)
  BY LenProperties DEF LogInv, LogTypeOK
<1>2. PICK n \in synced .. Len(file) :
        \/ file' = SubSeq(file, 1, n)
        \/ /\ n < Len(file)
           /\ \E shape \in {"torn", "unended"} :
                file' = Append(SubSeq(file, 1, n), [file[n+1] EXCEPT !.shape = shape])
  BY DEF PowerLoss, Cuts
<1> DEFINE s == SubSeq(file, 1, n)
<1>3. /\ s \in Seq(Pieces) /\ Len(s) = n /\ DOMAIN s = 1 .. n
      /\ \A i \in 1 .. n : s[i] = file[i]
  BY <1>1, Cut
<1>4. CASE file' = s
  BY <1>1, <1>3, <1>4
<1>5. ASSUME n < Len(file), NEW shape \in {"torn", "unended"},
             file' = Append(s, [file[n+1] EXCEPT !.shape = shape])
      PROVE  /\ file' \in Seq(Pieces)
             /\ DOMAIN file' = 1 .. Len(file') /\ Len(file') \in synced .. Len(file)
             /\ \A i \in 1 .. synced : file'[i] = file[i]
             /\ \A i \in DOMAIN file' :
                  /\ file'[i].logger = file[i].logger /\ file'[i].number = file[i].number
                  /\ file'[i].entry = file[i].entry
                  /\ i < Len(file') => file'[i].shape = file[i].shape
  <2> DEFINE p == [file[n+1] EXCEPT !.shape = shape]
  <2>1. file[n+1] \in Pieces
    BY <1>1, <1>5, ElementOfSeq
  <2>2. /\ p \in Pieces /\ p.entry = file[n+1].entry
        /\ p.logger = file[n+1].logger /\ p.number = file[n+1].number
    BY <2>1 DEF Pieces
  <2> HIDE DEF p
  <2>3. /\ file' \in Seq(Pieces) /\ Len(file') = n + 1 /\ DOMAIN file' = 1 .. n + 1
        /\ \A i \in 1 .. n : file'[i] = s[i]
        /\ file'[n + 1] = p
    BY <1>3, <1>5, <2>2, Appended DEF p
  <2>4. n \in Nat /\ n + 1 \in 1 .. Len(file) /\ synced \in 0 .. n
    BY <1>1, <1>5
  <2>5. \A i \in 1 .. synced : file'[i] = file[i]
    BY <1>1, <1>3, <2>3, <2>4
  <2>6. ASSUME NEW i \in DOMAIN file'
        PROVE  /\ file'[i].logger = file[i].logger /\ file'[i].number = file[i].number
               /\ file'[i].entry = file[i].entry
               /\ i < Len(file') => file'[i].shape = file[i].shape
    <3>1. CASE i = n + 1
      BY <2>2, <2>3, <3>1
    <3>2. CASE i # n + 1
      BY <1>3, <2>3, <2>4, <3>2
    <3> QED
      BY <3>1, <3>2
  <2> QED
    BY <1>1, <2>3, <2>4, <2>5, <2>6
<1> QED
  BY <1>2, <1>4, <1>5

\* The machine stops: every call is gone, and the file is cut.
LEMMA PowerLoss_LogInv ==
  ASSUME LogInv, PowerLoss
  PROVE  LogInv'
<1>1. /\ Dropped(Loggers) /\ synced' = Len(file') /\ UNCHANGED <<made, seq, acked>>
  BY DEF PowerLoss
<1>2. /\ holder' \in [Loggers -> Callers \cup {Nobody}] /\ call' \in [Callers -> Calls]
      /\ live' \subseteq 1 .. made /\ InsideHolds'
      /\ \A c \in Callers : call'[c].pc = "idle"
  BY <1>1, Survivors
<1>3. /\ file' \in Seq(Pieces)
      /\ DOMAIN file' = 1 .. Len(file') /\ Len(file') \in synced .. Len(file)
      /\ \A i \in 1 .. synced : file'[i] = file[i]
      /\ \A i \in DOMAIN file' :
           file'[i].logger = file[i].logger /\ file'[i].number = file[i].number
  BY PowerLoss_File
<1>4. /\ synced \in Nat /\ Len(file) \in Nat /\ DOMAIN file = 1 .. Len(file)
      /\ DOMAIN file' \subseteq DOMAIN file
  BY <1>3, LenProperties DEF LogInv, LogTypeOK
<1>5. CallsAreFilled' /\ WriterIsAhead' /\ SyncerHasWritten'
  BY <1>2 DEF CallsAreFilled, WriterIsAhead, SyncerHasWritten
<1>6. NumbersAreGiven'
  BY <1>1, <1>3, <1>4 DEF LogInv, NumbersAreGiven
<1>7. AckedDurable'
  BY <1>1, <1>3, <1>4 DEF LogInv, AckedDurable
<1>8. SequenceGrows'
  BY <1>3, <1>4 DEF LogInv, SequenceGrows
<1>9. LogTypeOK'
  <2>1. faults' \in 0 .. MaxFaults
    BY AuditBounds DEF LogInv, LogTypeOK, PowerLoss, Fault
  <2> QED
    BY <1>1, <1>2, <1>3, <1>4, <2>1 DEF LogInv, LogTypeOK
<1> QED
  BY <1>2, <1>5, <1>6, <1>7, <1>8, <1>9 DEF LogInv

-----------------------------------------------------------------------------
\* Every step of every action preserves the invariant.
LEMMA LogNext_LogInv == LogInv /\ [LogNext]_logVars => LogInv'
<1> SUFFICES ASSUME LogInv, [LogNext]_logVars PROVE LogInv'
  OBVIOUS
<1>1. CASE NewLogger
  BY <1>1, NewLogger_LogInv
<1>2. ASSUME NEW c \in Callers, NEW l \in Loggers, NEW e \in Entries, Call(c, l, e)
      PROVE  LogInv'
  BY <1>2, Call_LogInv
<1>3. ASSUME NEW c \in Callers, AppendStep(c) PROVE LogInv'
  BY <1>3, Acquire_LogInv, DirFails_LogInv, Number_LogInv, WriteFails_LogInv,
     WriteLine_LogInv, Sync_LogInv, SyncFails_LogInv DEF AppendStep
<1>4. ASSUME NEW c \in Callers, Collect(c) PROVE LogInv'
  BY <1>4, Collect_LogInv
<1>5. ASSUME NEW l \in Loggers, Kill(l) PROVE LogInv'
  BY <1>5, Kill_LogInv
<1>6. CASE PowerLoss
  BY <1>6, PowerLoss_LogInv
<1>7. CASE UNCHANGED logVars
  BY <1>7 DEF logVars, LogInv, LogTypeOK, InsideHolds, Inside, CallsAreFilled, NumbersAreGiven,
              WriterIsAhead, SyncerHasWritten, Piece, AckedDurable, SequenceGrows
<1> QED
  BY <1>1, <1>2, <1>3, <1>4, <1>5, <1>6, <1>7 DEF LogNext

\* The strengthened invariant, for every reachable state.
THEOREM LogInvariant == LogSpec => []LogInv
BY LogInit_LogInv, LogNext_LogInv, PTL DEF LogSpec

\* Type correctness of the audit log.
THEOREM LogTypeCorrect == LogSpec => []LogTypeOK
<1>1. LogInv => LogTypeOK
  BY DEF LogInv
<1> QED
  BY <1>1, LogInvariant, PTL

\* A record whose Append returned nil is on stable storage and stays there, through every
\* interleaving of callers, any number of restarts and any number of crashes.
THEOREM AcknowledgedIsDurable == LogSpec => []AckedDurable
<1>1. LogInv => AckedDurable
  BY DEF LogInv
<1> QED
  BY <1>1, LogInvariant, PTL

\* The records of one logger stand in the file in the order of their numbers, none twice.
THEOREM SequenceIsStrict == LogSpec => []SequenceGrows
<1>1. LogInv => SequenceGrows
  BY DEF LogInv
<1> QED
  BY <1>1, LogInvariant, PTL

-----------------------------------------------------------------------------
(***************************************************************************)
(* The action property: a step leaves the synced part of the file alone.   *)
(***************************************************************************)
\* The synced part of the file is a prefix of the file after any step.
LEMMA SyncedKept ==
  ASSUME LogInv, [LogNext]_logVars
  PROVE  /\ file' \in Seq(Pieces) /\ synced <= Len(file')
         /\ \A i \in 1 .. synced : file'[i] = file[i]
<1>1. file \in Seq(Pieces) /\ Len(file) \in Nat /\ synced \in 0 .. Len(file)
  BY LenProperties DEF LogInv, LogTypeOK
<1>2. CASE file' = file
  BY <1>1, <1>2
<1>3. ASSUME NEW c \in Callers, NEW shape \in {"line", "unended", "torn"}, call[c].pc = "writing",
             file' = Append(file, Piece(c, shape))
      PROVE  /\ file' \in Seq(Pieces) /\ synced <= Len(file')
             /\ \A i \in 1 .. synced : file'[i] = file[i]
  BY <1>1, <1>3, PieceType, Appended
<1>4. CASE PowerLoss
  BY <1>1, <1>4, PowerLoss_File
<1> QED
  BY <1>2, <1>3, <1>4
  DEF LogNext, logVars, NewLogger, Call, AppendStep, Acquire, DirFails, Number, WriteFails,
      WriteLine, Sync, SyncFails, Collect, Kill, Cuts

\* What is on stable storage is never rewritten: by no call, no restart, no crash.
THEOREM StorageIsAppendOnly == LogSpec => AppendOnly
<1>1. ASSUME LogInv, [LogNext]_logVars
      PROVE  SubSeq(file', 1, synced) = SubSeq(file, 1, synced)
  <2>1. /\ file \in Seq(Pieces) /\ file' \in Seq(Pieces)
        /\ synced \in 0 .. Len(file) /\ synced \in 0 .. Len(file')
        /\ \A i \in 1 .. synced : file'[i] = file[i]
    BY <1>1, SyncedKept, LenProperties DEF LogInv, LogTypeOK
  <2>2. /\ SubSeq(file, 1, synced) \in Seq(Pieces) /\ SubSeq(file', 1, synced) \in Seq(Pieces)
        /\ Len(SubSeq(file, 1, synced)) = synced /\ Len(SubSeq(file', 1, synced)) = synced
        /\ \A i \in 1 .. synced : SubSeq(file', 1, synced)[i] = SubSeq(file, 1, synced)[i]
    BY <2>1, Cut
  <2> QED
    BY <2>2, SeqEqual
<1>2. [LogNext]_logVars /\ LogInv => [SubSeq(file', 1, synced) = SubSeq(file, 1, synced)]_logVars
  BY <1>1
<1> QED
  BY <1>2, LogInvariant, PTL DEF LogSpec, AppendOnly

-----------------------------------------------------------------------------
(***************************************************************************)
(* OneLossPerFault.  A record that is acknowledged and cannot be read      *)
(* stands right after a piece that is not a line, and no two stand after   *)
(* the same one.  Each of these pieces has cost a fault.                   *)
(***************************************************************************)
Damaged == {i \in DOMAIN file : file[i].shape # "line"}

Lost == {p \in acked : ~\E i \in DOMAIN file : file[i] = p /\ StartsLine(i) /\ EndsLine(i)}

DamageInv ==
  /\ IsFiniteSet(Damaged) /\ Cardinality(Damaged) <= faults
  /\ \A p \in acked : p.shape = "line"

\* Nothing is damaged at first.
LEMMA DamageInit == LogInit => DamageInv
<1> SUFFICES ASSUME LogInit PROVE DamageInv
  OBVIOUS
<1>1. Damaged = {}
  BY DEF LogInit, Damaged
<1> QED
  BY <1>1, FS_EmptySet DEF LogInit, DamageInv

\* A fault damages at most one piece, and no other step damages any.
LEMMA DamageBound ==
  ASSUME DamageInv, faults \in Nat, \A p \in acked' : p.shape = "line",
         \/ Damaged' \subseteq Damaged /\ faults' \in {faults, faults + 1}
         \/ faults' = faults + 1 /\ \E i : Damaged' \subseteq Damaged \cup {i}
  PROVE  DamageInv'
<1>1. IsFiniteSet(Damaged) /\ Cardinality(Damaged) \in Nat /\ Cardinality(Damaged) <= faults
  BY FS_CardinalityType DEF DamageInv
<1>2. CASE Damaged' \subseteq Damaged /\ faults' \in {faults, faults + 1}
  <2>1. IsFiniteSet(Damaged') /\ Cardinality(Damaged') <= Cardinality(Damaged)
    BY <1>1, <1>2, FS_Subset
  <2>2. Cardinality(Damaged') \in Nat
    BY <2>1, FS_CardinalityType
  <2> QED
    BY <1>1, <1>2, <2>1, <2>2 DEF DamageInv
<1>3. ASSUME faults' = faults + 1, NEW i, Damaged' \subseteq Damaged \cup {i}
      PROVE  DamageInv'
  <2>1. IsFiniteSet(Damaged \cup {i}) /\ Cardinality(Damaged \cup {i}) <= Cardinality(Damaged) + 1
    <3>1. /\ IsFiniteSet(Damaged \cup {i})
          /\ Cardinality(Damaged \cup {i})
               = IF i \in Damaged THEN Cardinality(Damaged) ELSE Cardinality(Damaged) + 1
      BY <1>1, FS_AddElement, Zenon
    <3> QED
      BY <1>1, <3>1
  <2>2. IsFiniteSet(Damaged') /\ Cardinality(Damaged') <= Cardinality(Damaged \cup {i})
    BY <1>3, <2>1, FS_Subset
  <2>3. Cardinality(Damaged') \in Nat /\ Cardinality(Damaged \cup {i}) \in Nat
    BY <2>1, <2>2, FS_CardinalityType
  <2> QED
    BY <1>1, <1>3, <2>1, <2>2, <2>3 DEF DamageInv
<1> QED
  BY <1>2, <1>3

\* What a writer appends is damaged only if it is not the whole line.
LEMMA AppendDamages ==
  ASSUME LogInv, NEW c \in Callers, call[c].pc = "writing",
         NEW shape \in {"line", "unended", "torn"}, file' = Append(file, Piece(c, shape))
  PROVE  Damaged' \subseteq Damaged \cup (IF shape = "line" THEN {} ELSE {Len(file) + 1})
<1>1. Piece(c, shape) \in Pieces /\ Piece(c, shape).shape = shape
  BY PieceType DEF Piece
<1>2. file \in Seq(Pieces) /\ DOMAIN file = 1 .. Len(file) /\ Len(file) \in Nat
  BY LenProperties DEF LogInv, LogTypeOK
<1>3. /\ DOMAIN file' = 1 .. Len(file) + 1 /\ file'[Len(file) + 1].shape = shape
      /\ \A i \in 1 .. Len(file) : file'[i] = file[i]
  BY <1>1, <1>2, Appended
<1>4. ASSUME NEW i \in Damaged'
      PROVE  i \in Damaged \/ (i = Len(file) + 1 /\ shape # "line")
  BY <1>2, <1>3 DEF Damaged
<1> QED
  BY <1>4

\* Every step keeps the account of the damage.
LEMMA DamageStep == LogInv /\ DamageInv /\ [LogNext]_logVars => DamageInv'
<1> SUFFICES ASSUME LogInv, DamageInv, [LogNext]_logVars PROVE DamageInv'
  OBVIOUS
<1>1. faults \in Nat /\ \A p \in acked : p.shape = "line"
  BY AuditBounds DEF LogInv, LogTypeOK, DamageInv
<1>2. CASE UNCHANGED <<file, acked>> /\ (UNCHANGED faults \/ Fault)
  <2>1. Damaged' = Damaged
    BY <1>2 DEF Damaged
  <2> QED
    BY <1>1, <1>2, <2>1, DamageBound DEF Fault
<1>3. ASSUME NEW c \in Callers, NEW shape \in {"torn", "unended"}, call[c].pc = "writing",
             file' = Append(file, Piece(c, shape)), Fault, UNCHANGED acked
      PROVE  DamageInv'
  <2>1. Damaged' \subseteq Damaged \cup {Len(file) + 1}
    BY <1>3, AppendDamages
  <2> QED
    BY <1>1, <1>3, <2>1, DamageBound DEF Fault
<1>4. ASSUME NEW c \in Callers, WriteLine(c) PROVE DamageInv'
  <2>1. Damaged' \subseteq Damaged
    BY <1>4, AppendDamages DEF WriteLine
  <2> QED
    BY <1>1, <1>4, <2>1, DamageBound DEF WriteLine
<1>5. ASSUME NEW c \in Callers, Sync(c) PROVE DamageInv'
  <2>1. Damaged' = Damaged
    BY <1>5 DEF Sync, Damaged
  <2>2. \A p \in acked' : p.shape = "line"
    BY <1>1, <1>5 DEF Sync, Piece
  <2> QED
    BY <1>1, <1>5, <2>1, <2>2, DamageBound DEF Sync
<1>6. CASE PowerLoss
  <2>1. Damaged' \subseteq Damaged \cup {Len(file')}
    <3>1. /\ DOMAIN file' = 1 .. Len(file') /\ Len(file') \in synced .. Len(file)
          /\ \A i \in DOMAIN file' : i < Len(file') => file'[i].shape = file[i].shape
      BY <1>6, PowerLoss_File
    <3>2. DOMAIN file = 1 .. Len(file) /\ Len(file) \in Nat /\ synced \in Nat
      BY LenProperties DEF LogInv, LogTypeOK
    <3> QED
      BY <3>1, <3>2 DEF Damaged
  <2>2. Fault /\ UNCHANGED acked
    BY <1>6 DEF PowerLoss
  <2> QED
    BY <1>1, <2>1, <2>2, DamageBound DEF Fault
<1>7. ASSUME NEW l \in Loggers, Kill(l) PROVE DamageInv'
  BY <1>2, <1>3, <1>7 DEF Kill, Cuts
<1>8. ASSUME NEW c \in Callers, WriteFails(c) PROVE DamageInv'
  BY <1>2, <1>3, <1>8 DEF WriteFails, Cuts
<1> QED
  BY <1>2, <1>4, <1>5, <1>6, <1>7, <1>8
  DEF LogNext, logVars, NewLogger, Call, AppendStep, Acquire, DirFails, Number, SyncFails, Collect

\* However many records are acknowledged, no more of them are unreadable than there were
\* faults: a torn line takes one later record with it, not the rest of the log.
THEOREM LossesAreBounded == LogSpec => []OneLossPerFault
<1>1. LogInv /\ DamageInv => OneLossPerFault
  <2> SUFFICES ASSUME LogInv, DamageInv PROVE Cardinality(Lost) <= faults
    BY DEF OneLossPerFault, Lost
  <2>1. file \in Seq(Pieces) /\ DOMAIN file = 1 .. Len(file) /\ Len(file) \in Nat /\ synced \in 0 .. Len(file)
    BY LenProperties DEF LogInv, LogTypeOK
  <2> DEFINE place(p) == CHOOSE i \in DOMAIN file : file[i] = p
             before == [p \in Lost |-> place(p) - 1]
  <2>2. ASSUME NEW p \in Lost
        PROVE  place(p) \in DOMAIN file /\ file[place(p)] = p /\ place(p) - 1 \in Damaged
    <3>1. \E i \in DOMAIN file : file[i] = p
      BY <2>1 DEF LogInv, AckedDurable, Lost
    <3>2. place(p) \in DOMAIN file /\ file[place(p)] = p
      BY <3>1
    <3> HIDE DEF place
    <3>3. p.shape = "line"
      BY DEF DamageInv, Lost
    <3>4. ~StartsLine(place(p))
      BY <3>2, <3>3 DEF Lost, EndsLine
    <3>5. place(p) - 1 \in DOMAIN file /\ file[place(p) - 1].shape # "line"
      BY <2>1, <3>2, <3>4 DEF StartsLine
    <3> QED
      BY <3>2, <3>5 DEF Damaged
  <2> HIDE DEF place
  <2>3. \A p, q \in Lost : before[p] = before[q] => p = q
    <3> SUFFICES ASSUME NEW p \in Lost, NEW q \in Lost, place(p) - 1 = place(q) - 1 PROVE p = q
      OBVIOUS
    <3>1. place(p) = place(q)
      BY <2>1, <2>2
    <3> QED
      BY <2>2, <3>1
  <2>4. before \in Injection(Lost, Damaged)
    <3>1. before \in [Lost -> Damaged]
      BY <2>2
    <3> HIDE DEF before
    <3> QED
      BY <2>3, <3>1 DEF Injection, IsInjective
  <2>5. IsFiniteSet(Damaged) /\ Cardinality(Damaged) <= faults /\ faults \in Nat
    BY AuditBounds DEF DamageInv, LogInv, LogTypeOK
  <2>6. IsFiniteSet(Lost) /\ Cardinality(Lost) <= Cardinality(Damaged)
    BY <2>4, <2>5, FS_Injection
  <2>7. Cardinality(Lost) \in Nat /\ Cardinality(Damaged) \in Nat
    BY <2>5, <2>6, FS_CardinalityType
  <2> QED
    BY <2>5, <2>6, <2>7
<1> QED
  BY <1>1, LogInvariant, DamageInit, DamageStep, PTL DEF LogSpec

-----------------------------------------------------------------------------
(***************************************************************************)
(* What AppendReturns rests on: who waits for Logger.mu waits for somebody *)
(* who is inside Append of that logger, and whose next step waits for      *)
(* nobody.                                                                 *)
(***************************************************************************)
HolderWorks ==
  \A l \in Loggers : holder[l] # Nobody => call[holder[l]].logger = l /\ Inside(holder[l])

\* Steps that leave the mutexes alone, and the calls of those who hold one.
LEMMA HolderUndisturbed ==
  ASSUME LogTypeOK, HolderWorks, UNCHANGED holder,
         \A c \in Callers : Inside(c) => Inside(c)' /\ call'[c].logger = call[c].logger
  PROVE  HolderWorks'
BY DEF HolderWorks, LogTypeOK

\* A caller that leaves Append gives back the only mutex it has.
LEMMA LeavingReleases ==
  ASSUME LogTypeOK, HolderWorks, NEW c \in Callers, NEW result, Return(c, result)
  PROVE  HolderWorks'
<1>1. call[c].logger \in Loggers
  BY DEF LogTypeOK, Calls
<1>2. \A l \in Loggers : holder'[l] = IF l = call[c].logger THEN Nobody ELSE holder[l]
  BY <1>1 DEF Return, LogTypeOK
<1>3. \A d \in Callers \ {c} : call'[d] = call[d]
  BY DEF Return, LogTypeOK
<1>4. ASSUME NEW l \in Loggers, holder'[l] # Nobody
      PROVE  call'[holder'[l]].logger = l /\ Inside(holder[l])' /\ holder'[l] = holder[l]
  <2>1. l # call[c].logger /\ holder'[l] = holder[l] /\ holder[l] \in Callers
    BY <1>2, <1>4 DEF LogTypeOK
  <2>2. call[holder[l]].logger = l /\ Inside(holder[l])
    BY <1>4, <2>1 DEF HolderWorks
  <2>3. holder[l] # c
    BY <2>1, <2>2
  <2>4. call'[holder[l]] = call[holder[l]]
    BY <1>3, <2>1, <2>3
  <2>5. Inside(holder[l])'
    BY <2>1, <2>2, <2>4 DEF Inside
  <2> QED
    BY <2>1, <2>2, <2>4, <2>5
<1> QED
  BY <1>4 DEF HolderWorks, Inside

LEMMA LosingReleases ==
  ASSUME LogTypeOK, HolderWorks, NEW lost \in SUBSET Loggers, Dropped(lost)
  PROVE  HolderWorks'
<1>1. /\ \A l \in Loggers : holder'[l] = IF l \in lost THEN Nobody ELSE holder[l]
      /\ \A c \in Callers : call[c].logger \notin lost => call'[c] = call[c]
  BY DEF Dropped
<1>2. ASSUME NEW l \in Loggers, holder'[l] # Nobody
      PROVE  call'[holder'[l]].logger = l /\ call'[holder'[l]].pc \in {"opening", "writing", "syncing"}
  <2>1. l \notin lost /\ holder'[l] = holder[l] /\ holder[l] \in Callers
    BY <1>1, <1>2 DEF LogTypeOK
  <2> QED
    BY <1>1, <1>2, <2>1 DEF HolderWorks, Inside
<1> QED
  BY <1>2 DEF HolderWorks, Inside

LEMMA HolderStep == LogTypeOK /\ HolderWorks /\ [LogNext]_logVars => HolderWorks'
<1> SUFFICES ASSUME LogTypeOK, HolderWorks, [LogNext]_logVars PROVE HolderWorks'
  OBVIOUS
<1>1. CASE NewLogger \/ UNCHANGED logVars
  BY <1>1, HolderUndisturbed DEF NewLogger, logVars, Inside
<1>2. ASSUME NEW c \in Callers, NEW l \in Loggers, NEW e \in Entries, Call(c, l, e)
      PROVE  HolderWorks'
  <2>1. ~Inside(c) /\ \A d \in Callers \ {c} : call'[d] = call[d]
    BY <1>2 DEF Call, Inside, LogTypeOK
  <2> QED
    BY <1>2, <2>1, HolderUndisturbed DEF Call, Inside
<1>3. ASSUME NEW c \in Callers, Acquire(c) PROVE HolderWorks'
  <2>1. call[c].logger \in Loggers
    BY DEF LogTypeOK, Calls
  <2>2. /\ \A l \in Loggers : holder'[l] = IF l = call[c].logger THEN c ELSE holder[l]
        /\ \A d \in Callers \ {c} : call'[d] = call[d]
        /\ call'[c].pc = "opening" /\ call'[c].logger = call[c].logger /\ ~Inside(c)
    BY <1>3, <2>1 DEF Acquire, Inside, LogTypeOK, Calls
  <2>3. ASSUME NEW l \in Loggers, holder'[l] # Nobody
        PROVE  call'[holder'[l]].logger = l /\ call'[holder'[l]].pc \in {"opening", "writing", "syncing"}
    <3>1. CASE l = call[c].logger
      BY <2>2, <3>1
    <3>2. CASE l # call[c].logger
      <4>1. holder'[l] = holder[l] /\ holder[l] \in Callers
        BY <2>2, <2>3, <3>2 DEF LogTypeOK
      <4>2. call[holder[l]].logger = l /\ Inside(holder[l])
        BY <2>3, <4>1 DEF HolderWorks
      <4>3. call'[holder[l]] = call[holder[l]]
        BY <2>2, <4>1, <4>2
      <4> QED
        BY <4>1, <4>2, <4>3 DEF Inside
    <3> QED
      BY <3>1, <3>2
  <2> QED
    BY <2>3 DEF HolderWorks, Inside
<1>4. ASSUME NEW c \in Callers, Number(c) \/ WriteLine(c) PROVE HolderWorks'
  <2>1. /\ call'[c].pc \in {"writing", "syncing"} /\ call'[c].logger = call[c].logger
        /\ \A d \in Callers \ {c} : call'[d] = call[d]
    BY <1>4 DEF Number, WriteLine, LogTypeOK, Calls
  <2>2. UNCHANGED holder
    BY <1>4 DEF Number, WriteLine
  <2> QED
    BY <2>1, <2>2, HolderUndisturbed DEF Inside
<1>5. ASSUME NEW c \in Callers, DirFails(c) \/ WriteFails(c) \/ Sync(c) \/ SyncFails(c)
      PROVE  HolderWorks'
  BY <1>5, LeavingReleases DEF DirFails, WriteFails, Sync, SyncFails
<1>6. ASSUME NEW c \in Callers, Collect(c) PROVE HolderWorks'
  <2>1. ~Inside(c) /\ \A d \in Callers \ {c} : call'[d] = call[d]
    BY <1>6 DEF Collect, Inside, LogTypeOK
  <2> QED
    BY <1>6, <2>1, HolderUndisturbed DEF Collect, Inside
<1>7. ASSUME NEW l \in Loggers, Kill(l) PROVE HolderWorks'
  BY <1>7, LosingReleases DEF Kill
<1>8. CASE PowerLoss
  BY <1>8, LosingReleases DEF PowerLoss
<1> QED
  BY <1>1, <1>2, <1>3, <1>4, <1>5, <1>6, <1>7, <1>8 DEF LogNext, AppendStep

\* For any callers, loggers and faults: nobody leaves Append, fails in it or dies with the mutex.
THEOREM MutexIsAtWork == LogSpec => []HolderWorks
<1>1. LogInit => HolderWorks
  BY DEF LogInit, HolderWorks
<1> QED
  BY <1>1, HolderStep, LogTypeCorrect, PTL DEF LogSpec
=============================================================================
