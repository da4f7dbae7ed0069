--------------------------- MODULE ArtifactStore ---------------------------
(***************************************************************************)
(* The content-addressed artifact store on disk: internal/artifact's       *)
(* Import, Fetch, StoreContent and Verify, and the broker's way from the   *)
(* verification of an artifact to its execution.                           *)
(*                                                                         *)
(* A writer is a process that runs `artifact import` or `artifact fetch`,  *)
(* one call each; a runner is a handler of the broker with a request for   *)
(* an artifact.  A hash stands for the content it is the hash of, so       *)
(* objects[c] is the file whose name is the hash of c.  Nothing is synced: *)
(* a power loss may take back or tear whatever the store has written.      *)
(***************************************************************************)
EXTENDS Naturals, FiniteSets

CONSTANTS
  Writers, Runners,
  Contents,   \* what artifacts hold
  Ids,        \* artifact ids: the first 16 digits of a hash
  Id,         \* [c \in Contents |-> its id]; two contents may share one
  Scan,       \* [c \in Contents |-> the risk flags scanArtifactRisks finds]
  MaxFaults,  \* bound: failing calls, killed processes, power losses, outside edits
  None,       \* no file, no content
  Empty,      \* a metadata file that has just been truncated
  Torn,       \* a file that holds part of what was written, or a mixture
  Foreign     \* an object that was overwritten from outside

ASSUME StoreConstants ==
  /\ Id \in [Contents -> Ids] /\ MaxFaults \in Nat
  /\ {None, Empty, Torn, Foreign} \cap Contents = {}
  /\ None # Torn /\ None # Foreign

VARIABLES
  objects,  \* the object files
  meta,     \* the metadata files: Empty, Torn or a record [sha, risks]
  harmed,   \* history: the objects altered since they were last renamed into place
  call,     \* the call of each writer
  run,      \* the request of each runner
  faults

storeVars == <<objects, meta, harmed, call, run, faults>>

Flags == {Scan[c] : c \in Contents} \cup {{}}
Metadata == [sha : Contents, risks : Flags]

ASSUME NoFileIsNoMetadata == {None, Empty, Torn} \cap Metadata = {}

NoCall == [pc |-> "idle", content |-> None, risks |-> {}, alone |-> FALSE]
NoRun == [pc |-> "idle", id |-> None, sha |-> None, object |-> None, meta |-> None,
          intact |-> FALSE, ran |-> None]

StoreInit ==
  /\ objects = [c \in Contents |-> None] /\ meta = [i \in Ids |-> None]
  /\ harmed = {} /\ faults = 0
  /\ call = [w \in Writers |-> NoCall] /\ run = [r \in Runners |-> NoRun]

Fault == faults < MaxFaults /\ faults' = faults + 1

Active(w) == call[w].pc \in {"checking", "renaming", "describing", "writing"}

SameId(v, c) == call[v].content # None /\ Id[call[v].content] = Id[c]

-----------------------------------------------------------------------------
(***************************************************************************)
(* Import and Fetch up to the call of StoreContent.  The file to import    *)
(* and the server belong to somebody else: they hold any content.          *)
(***************************************************************************)
\* History: alone is whether no other call for this id is under way, none has begun since,
\* and the power has not failed since.
Begin(w, c, risks) ==
  call' = [v \in Writers |->
             IF v = w THEN [pc |-> "checking", content |-> c, risks |-> risks,
                            alone |-> \A u \in Writers \ {w} : ~(Active(u) /\ SameId(u, c))]
             ELSE IF SameId(v, c) THEN [call[v] EXCEPT !.alone = FALSE]
             ELSE call[v]]

\* rejectUnsafeSourcePath has nothing against the path; the content is what ReadFile finds.
Import(w, c) ==
  /\ call[w].pc = "idle"
  /\ Begin(w, c, Scan[c])
  /\ UNCHANGED <<objects, meta, harmed, run, faults>>

\* body is None when there is no usable answer: an error, a bad status, too many bytes.
Fetch(w, https, pin, body) ==
  /\ call[w].pc = "idle"
  /\ https /\ pin # None /\ body = pin
  /\ Begin(w, body, Scan[body])
  /\ UNCHANGED <<objects, meta, harmed, run, faults>>

\* Import or Fetch returns an error before anything is stored: an unsafe path, a plain
\* http URL, no pin, or a body other than the one pinned.
Refuse(w) ==
  /\ call[w].pc = "idle"
  /\ call' = [call EXCEPT ![w].pc = "failed"]
  /\ UNCHANGED <<objects, meta, harmed, run, faults>>

-----------------------------------------------------------------------------
(***************************************************************************)
(* StoreContent.                                                           *)
(***************************************************************************)
Moved(w, pc) == call' = [call EXCEPT ![w].pc = pc]

\* A failing step returns its error; a temporary file is removed.
StoreFails(w) ==
  /\ call[w].pc \in {"checking", "renaming", "describing"} /\ Fault
  /\ Moved(w, "failed")
  /\ UNCHANGED <<objects, meta, harmed, run>>

Present(w) ==
  /\ call[w].pc = "checking" /\ objects[call[w].content] # None
  /\ Moved(w, "describing")
  /\ UNCHANGED <<objects, meta, harmed, run, faults>>

\* Mutant of Absent: the object is created under its own name.
AbsentInPlace(w) ==
  /\ call[w].pc = "checking" /\ objects[call[w].content] = None
  /\ objects' = [objects EXCEPT ![call[w].content] = Torn]
  /\ Moved(w, "renaming")
  /\ UNCHANGED <<meta, harmed, run, faults>>

\* The content goes to a temporary file that nobody else knows.
Absent(w) ==
  /\ call[w].pc = "checking" /\ objects[call[w].content] = None
  /\ Moved(w, "renaming")
  /\ UNCHANGED <<objects, meta, harmed, run, faults>>

Rename(w) ==
  LET c == call[w].content
  IN  /\ call[w].pc = "renaming"
      /\ objects' = [objects EXCEPT ![c] = c] /\ harmed' = harmed \ {c}
      /\ Moved(w, "describing")
      /\ UNCHANGED <<meta, run, faults>>

\* Mutant of Truncate: metadata that exists is left as it is.
TruncateNew(w) ==
  LET i == Id[call[w].content]
  IN  /\ call[w].pc = "describing"
      /\ IF meta[i] = None
         THEN meta' = [meta EXCEPT ![i] = Empty] /\ Moved(w, "writing")
         ELSE UNCHANGED meta /\ Moved(w, "ok")
      /\ UNCHANGED <<objects, harmed, run, faults>>

\* os.WriteFile opens with O_TRUNC ...
Truncate(w) ==
  /\ call[w].pc = "describing"
  /\ meta' = [meta EXCEPT ![Id[call[w].content]] = Empty]
  /\ Moved(w, "writing")
  /\ UNCHANGED <<objects, harmed, run, faults>>

RecordOf(w) == [sha |-> call[w].content, risks |-> call[w].risks]

\* ... and writes from the start of the file: over a longer record that another writer has
\* put there meanwhile, the end of that record remains.
WriteMetadata(w) ==
  LET i == Id[call[w].content]
  IN  /\ call[w].pc = "writing"
      /\ \/ meta' = [meta EXCEPT ![i] = RecordOf(w)]
         \/ meta[i] # Empty /\ meta' = [meta EXCEPT ![i] = Torn]
      /\ Moved(w, "ok")
      /\ UNCHANGED <<objects, harmed, run, faults>>

\* What a write that failed or was killed has done: nothing, a part or (but for the
\* newline, or the return) all of it.
CutShort(w) ==
  \/ UNCHANGED meta
  \/ /\ call[w].pc = "writing"
     /\ \E cut \in {Torn, RecordOf(w)} : meta' = [meta EXCEPT ![Id[call[w].content]] = cut]

WriteFails(w) ==
  /\ call[w].pc = "writing" /\ Fault
  /\ CutShort(w) /\ Moved(w, "failed")
  /\ UNCHANGED <<objects, harmed, run>>

-----------------------------------------------------------------------------
(***************************************************************************)
(* A request to run an artifact: store.Verify in process, the checks on    *)
(* what it returns, and the start of the command.                          *)
(***************************************************************************)
Ask(r, i, sha, object) ==
  /\ run[r].pc = "idle"
  /\ run' = [run EXCEPT ![r] = [NoRun EXCEPT !.pc = "loading", !.id = i, !.sha = sha,
                                             !.object = object]]
  /\ UNCHANGED <<objects, meta, harmed, call, faults>>

Reject(r) == run' = [run EXCEPT ![r].pc = "refused"]

\* Mutant of Load: the error of json.Unmarshal is ignored.
LoadUnparsed(r) ==
  /\ run[r].pc = "loading"
  /\ IF meta[run[r].id] = None THEN Reject(r)
     ELSE run' = [run EXCEPT ![r].pc = "hashing", ![r].meta = meta[run[r].id]]
  /\ UNCHANGED <<objects, meta, harmed, call, faults>>

Load(r) ==
  /\ run[r].pc = "loading"
  /\ IF meta[run[r].id] \in {None, Empty, Torn} THEN Reject(r)
     ELSE run' = [run EXCEPT ![r].pc = "hashing", ![r].meta = meta[run[r].id]]
  /\ UNCHANGED <<objects, meta, harmed, call, faults>>

Accepted(r) == run' = [run EXCEPT ![r].pc = "starting", ![r].intact = TRUE]

Asked(r) == run[r].meta.sha = run[r].sha /\ run[r].meta.sha = run[r].object

\* Mutant of Examine: the stored object is not hashed again.
ExamineUnhashed(r) ==
  /\ run[r].pc = "hashing"
  /\ IF /\ objects[run[r].meta.sha] # None
        /\ Asked(r) /\ run[r].meta.risks = {}
     THEN Accepted(r) ELSE Reject(r)
  /\ UNCHANGED <<objects, meta, harmed, call, faults>>

\* Lstat and hash of the object, and process's checks of hash, path and risks.
Examine(r) ==
  /\ run[r].pc = "hashing"
  /\ IF /\ objects[run[r].meta.sha] = run[r].meta.sha
        /\ Asked(r) /\ run[r].meta.risks = {}
     THEN Accepted(r) ELSE Reject(r)
  /\ UNCHANGED <<objects, meta, harmed, call, faults>>

\* A later check of process refuses: the reason, the rule, the arguments.
Decline(r) ==
  /\ run[r].pc = "starting"
  /\ Reject(r)
  /\ UNCHANGED <<objects, meta, harmed, call, faults>>

\* exec: whatever the path holds now.  Without a file, Start fails.
Execute(r) ==
  /\ run[r].pc = "starting"
  /\ run' = [run EXCEPT ![r].pc = "done", ![r].ran = objects[run[r].object]]
  /\ UNCHANGED <<objects, meta, harmed, call, faults>>

-----------------------------------------------------------------------------
KillWriter(w) ==
  /\ Active(w) /\ Fault
  /\ CutShort(w) /\ Moved(w, "dead")
  /\ UNCHANGED <<objects, harmed, run>>

PowerLoss ==
  /\ Fault
  /\ objects' \in [Contents -> Contents \cup {None, Torn, Foreign}]
  /\ \A c \in Contents : objects'[c] \in {objects[c], None, Torn} /\ (objects[c] = None => objects'[c] = None)
  /\ harmed' = harmed \cup {c \in Contents : objects'[c] # objects[c]}
  /\ \E lost, cut \in SUBSET Ids :
       meta' = [i \in Ids |-> IF meta[i] = None \/ i \in lost THEN None
                              ELSE IF i \in cut THEN Torn ELSE meta[i]]
  /\ call' = [w \in Writers |-> [call[w] EXCEPT !.pc = IF Active(w) THEN "dead" ELSE @,
                                               !.alone = FALSE]]
  /\ run' = [r \in Runners |-> IF run[r].pc \in {"done", "refused"} THEN run[r] ELSE NoRun]

\* Somebody who owns the object overwrites it, as createTamperedSmokeArtifact does.
Tamper(c) ==
  /\ objects[c] # None /\ Fault
  /\ objects' = [objects EXCEPT ![c] = Foreign] /\ harmed' = harmed \cup {c}
  /\ run' = [r \in Runners |-> IF run[r].pc = "starting" /\ run[r].object = c
                               THEN [run[r] EXCEPT !.intact = FALSE] ELSE run[r]]
  /\ UNCHANGED <<meta, call>>

WriterStep(w) ==
  \/ \E c \in Contents : Import(w, c)
  \/ \E https \in BOOLEAN, pin, body \in Contents \cup {None} : Fetch(w, https, pin, body)
  \/ Refuse(w) \/ StoreFails(w) \/ Present(w) \/ Absent(w) \/ Rename(w)
  \/ Truncate(w) \/ WriteMetadata(w) \/ WriteFails(w) \/ KillWriter(w)

RunnerStep(r) ==
  \/ \E i \in Ids, sha, object \in Contents : Ask(r, i, sha, object)
  \/ Load(r) \/ Examine(r) \/ Decline(r) \/ Execute(r)

StoreNext ==
  \/ \E w \in Writers : WriterStep(w)
  \/ \E r \in Runners : RunnerStep(r)
  \/ \E c \in Contents : Tamper(c)
  \/ PowerLoss

StoreSpec == StoreInit /\ [][StoreNext]_storeVars

-----------------------------------------------------------------------------
Calls ==
  [pc : {"idle", "checking", "renaming", "describing", "writing", "ok", "failed", "dead"},
   content : Contents \cup {None}, risks : Flags, alone : BOOLEAN]

Runs ==
  [pc : {"idle", "loading", "hashing", "starting", "done", "refused"},
   id : Ids \cup {None}, sha : Contents \cup {None}, object : Contents \cup {None},
   meta : Metadata \cup {None}, intact : BOOLEAN, ran : Contents \cup {None, Torn, Foreign}]

\* Type invariant.
StoreTypeOK ==
  /\ objects \in [Contents -> Contents \cup {None, Torn, Foreign}]
  /\ meta \in [Ids -> Metadata \cup {None, Empty, Torn}]
  /\ harmed \subseteq Contents /\ faults \in 0..MaxFaults
  /\ call \in [Writers -> Calls]
  /\ run \in [Runners -> Runs]

\* The object files are whole: whoever opens one that neither a power loss nor an outsider
\* has touched finds the content its name promises, however many calls store it at once
\* (StoreContent writes a temporary file and renames it; testcases.md AS-ART-017).
ObjectsAreWhole == \A c \in Contents \ harmed : objects[c] \in {None, c}

\* An artifact that runs is the one that was asked for and has no risk flags, unless an
\* outsider overwrote the object after the broker had hashed it: no import or fetch, not
\* even of another artifact with the same id, gets between Verify and the start.
RunsWhatWasAsked ==
  \A r \in Runners :
    run[r].ran # None /\ run[r].intact => run[r].ran = run[r].sha /\ Scan[run[r].sha] = {}

Verifies(c) ==
  /\ meta[Id[c]] \notin {None, Empty, Torn}
  /\ meta[Id[c]].sha = c /\ objects[c] = c

\* A call of StoreContent that returns nil and had its id to itself leaves an artifact that
\* verifies, even if earlier calls died half way: a retry mends what a crash tore.
RetryMends ==
  \A w \in Writers :
    call[w].pc = "ok" /\ call[w].alone /\ call[w].content \notin harmed
      => Verifies(call[w].content)

-----------------------------------------------------------------------------
\* testcases.md, AS-ART-017: many concurrent fetches of the same artifact leave it without
\* corruption.  The object, yes; but their metadata records may end up mixed.
ConcurrentStoresVerify ==
  \A w \in Writers :
    /\ \A v \in Writers : ~Active(v) /\ call[v].content \in {None, call[w].content}
    /\ faults = 0
    => (call[w].pc = "ok" => Verifies(call[w].content))
=============================================================================
