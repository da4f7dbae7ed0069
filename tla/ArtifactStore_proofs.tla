------------------------ MODULE ArtifactStore_proofs ------------------------
(***************************************************************************)
(* What ArtifactStore.tla promises, for any number of writers, runners,    *)
(* artifacts and faults.  The invariant adds to the properties where the   *)
(* risk flags come from and what a runner that is about to start a command *)
(* knows of the object.                                                    *)
(***************************************************************************)
EXTENDS ArtifactStore, TLAPS

NoRecord == {None, Empty, Torn}

\* Wherever a record stands, in a file, in a call or with a runner, its flags are those of its
\* content.
RisksTravel ==
  /\ \A i \in Ids : meta[i] \notin NoRecord => meta[i].risks = Scan[meta[i].sha]
  /\ \A w \in Writers : call[w].content # None => call[w].risks = Scan[call[w].content]
  /\ \A r \in Runners : run[r].meta # None => run[r].meta.risks = Scan[run[r].meta.sha]

\* Only a finished request has run anything, and only one that has loaded a record asks for more.
RunsInOrder ==
  \A r \in Runners :
    /\ run[r].ran # None => run[r].pc = "done"
    /\ run[r].pc \in {"loading", "hashing", "starting"} =>
         run[r].id \in Ids /\ run[r].sha \in Contents /\ run[r].object \in Contents
    /\ run[r].pc \in {"hashing", "starting"} => run[r].meta # None

\* A call that is under way knows its content.
CallsHaveContent == \A w \in Writers : Active(w) => call[w].content \in Contents

\* What a runner is about to start is what was asked for, unless it was altered since.
StartsWhatWasAsked ==
  \A r \in Runners :
    run[r].pc = "starting" /\ run[r].intact =>
      /\ run[r].object = run[r].sha /\ objects[run[r].object] = run[r].sha
      /\ Scan[run[r].sha] = {}

StoreInv ==
  /\ StoreTypeOK /\ ObjectsAreWhole /\ RunsWhatWasAsked
  /\ RisksTravel /\ RunsInOrder /\ CallsHaveContent /\ StartsWhatWasAsked

-----------------------------------------------------------------------------
\* The empty store satisfies the invariant.
LEMMA StoreInit_Inv == StoreInit => StoreInv
<1> SUFFICES ASSUME StoreInit PROVE StoreInv
  OBVIOUS
<1> USE StoreConstants DEF StoreInit
<1>1. StoreTypeOK
  BY DEF StoreTypeOK, NoCall, NoRun, Calls, Runs, Flags
<1>2. ObjectsAreWhole
  BY DEF ObjectsAreWhole
<1>3. RunsWhatWasAsked /\ RunsInOrder /\ StartsWhatWasAsked
  BY DEF RunsWhatWasAsked, RunsInOrder, StartsWhatWasAsked, NoRun
<1>4. RisksTravel
  BY DEF RisksTravel, NoRecord, NoCall, NoRun
<1>5. CallsHaveContent
  BY DEF CallsHaveContent, Active, NoCall
<1> QED
  BY <1>1, <1>2, <1>3, <1>4, <1>5 DEF StoreInv

\* A writer's step leaves the runners alone, and what it puts into the files and into its call
\* keeps the invariant.
LEMMA WriterKeeps ==
  ASSUME StoreInv, run' = run, StoreTypeOK',
         \A c \in Contents : objects'[c] = objects[c] \/ objects'[c] = c,
         \A c \in Contents : objects'[c] = objects[c] /\ c \in harmed => c \in harmed',
         \A i \in Ids : \/ meta'[i] = meta[i] \/ meta'[i] \in NoRecord
                        \/ meta'[i].risks = Scan[meta'[i].sha],
         \A w \in Writers :
           /\ call'[w].content # None => call'[w].risks = Scan[call'[w].content]
           /\ Active(w)' => call'[w].content \in Contents
  PROVE  StoreInv'
<1>1. ObjectsAreWhole'
  BY StoreConstants DEF StoreInv, ObjectsAreWhole, StoreTypeOK
<1>2. RunsWhatWasAsked' /\ RunsInOrder'
  BY DEF StoreInv, RunsWhatWasAsked, RunsInOrder
<1>3. StartsWhatWasAsked'
  BY DEF StoreInv, StartsWhatWasAsked, RunsInOrder
<1>4. RisksTravel'
  BY DEF StoreInv, RisksTravel, NoRecord
<1>5. CallsHaveContent'
  BY DEF CallsHaveContent
<1> QED
  BY <1>1, <1>2, <1>3, <1>4, <1>5 DEF StoreInv

\* A call begins, with the flags of its content.
LEMMA Begin_Inv ==
  ASSUME StoreInv, NEW w \in Writers, NEW c \in Contents, call[w].pc = "idle",
         Begin(w, c, Scan[c]), UNCHANGED <<objects, meta, harmed, run, faults>>
  PROVE  StoreInv'
<1> USE StoreConstants
<1> DEFINE Alone == \A u \in Writers \ {w} : ~(Active(u) /\ SameId(u, c))
<1>0. Alone \in BOOLEAN /\ Scan[c] \in Flags
  BY DEF Flags
<1> HIDE DEF Alone
<1>a. call' = [v \in Writers |->
                 IF v = w THEN [pc |-> "checking", content |-> c, risks |-> Scan[c],
                                alone |-> Alone]
                 ELSE IF SameId(v, c) THEN [call[v] EXCEPT !.alone = FALSE] ELSE call[v]]
  BY DEF Begin, Alone
<1>b. \A v \in Writers : call[v] \in Calls
  BY DEF StoreInv, StoreTypeOK
<1>1. \A v \in Writers :
        /\ v = w => /\ call'[v].pc = "checking" /\ call'[v].content = c
                    /\ call'[v].risks = Scan[c]
        /\ v # w => /\ call'[v].pc = call[v].pc /\ call'[v].content = call[v].content
                    /\ call'[v].risks = call[v].risks
        /\ call'[v] \in Calls
  BY <1>0, <1>a, <1>b DEF Calls
<1>c. call' \in [Writers -> Calls]
  BY <1>1, <1>a
<1>2. StoreTypeOK'
  BY <1>c DEF StoreInv, StoreTypeOK
<1>3. \A v \in Writers :
        /\ call'[v].content # None => call'[v].risks = Scan[call'[v].content]
        /\ Active(v)' => call'[v].content \in Contents
  BY <1>1 DEF StoreInv, RisksTravel, CallsHaveContent, Active
<1>4. \A i \in Ids : meta'[i] = meta[i]
  OBVIOUS
<1> QED
  BY <1>2, <1>3, <1>4, WriterKeeps

\* A call moves on and writes, at most, its own record over the file of its id.
LEMMA Move_Inv ==
  ASSUME StoreInv, NEW w \in Writers, call[w].content \in Contents \/ UNCHANGED meta,
         NEW pc \in {"renaming", "describing", "writing", "ok", "failed", "dead"},
         pc \in {"renaming", "describing", "writing"} => Active(w),
         Moved(w, pc), UNCHANGED <<objects, harmed, run>>, faults' \in 0 .. MaxFaults,
         \/ UNCHANGED meta
         \/ \E new \in {Empty, Torn, [sha |-> call[w].content, risks |-> call[w].risks]} :
              meta' = [meta EXCEPT ![Id[call[w].content]] = new]
  PROVE  StoreInv'
<1> USE StoreConstants
<1>1. call[w].content \in Contents =>
        /\ call[w].risks = Scan[call[w].content] /\ Id[call[w].content] \in Ids
        /\ Scan[call[w].content] \in Flags
  BY DEF StoreInv, RisksTravel, Flags
<1>2. meta' \in [Ids -> Metadata \cup {None, Empty, Torn}]
  <2>1. CASE UNCHANGED meta
    BY <2>1 DEF StoreInv, StoreTypeOK
  <2>2. CASE ~UNCHANGED meta
    <3>1. PICK new \in {Empty, Torn, [sha |-> call[w].content, risks |-> call[w].risks]} :
            meta' = [meta EXCEPT ![Id[call[w].content]] = new]
      BY <2>2
    <3>2. new \in Metadata \cup {None, Empty, Torn}
      <4>1. [sha |-> call[w].content, risks |-> call[w].risks] \in Metadata
        BY <1>1, <2>2 DEF Metadata
      <4> QED
        BY <4>1
    <3> QED
      BY <3>1, <3>2 DEF StoreInv, StoreTypeOK
  <2> QED
    BY <2>1, <2>2
<1>3. \A i \in Ids : \/ meta'[i] = meta[i] \/ meta'[i] \in NoRecord
                     \/ meta'[i].risks = Scan[meta'[i].sha]
  <2>1. CASE UNCHANGED meta
    BY <2>1
  <2>2. CASE ~UNCHANGED meta
    <3>1. PICK new \in {Empty, Torn, [sha |-> call[w].content, risks |-> call[w].risks]} :
            meta' = [meta EXCEPT ![Id[call[w].content]] = new]
      BY <2>2
    <3>2. new \in NoRecord \/ new.risks = Scan[new.sha]
      BY <1>1, <2>2 DEF NoRecord
    <3> QED
      BY <3>1, <3>2 DEF StoreInv, StoreTypeOK
  <2> QED
    BY <2>1, <2>2
<1>4. \A v \in Writers :
        /\ call'[v].content = call[v].content /\ call'[v].risks = call[v].risks
        /\ v # w => call'[v].pc = call[v].pc
        /\ v = w => call'[v].pc = pc
  BY DEF Moved, StoreInv, StoreTypeOK
<1>5. StoreTypeOK'
  <2>1. call' \in [Writers -> Calls]
    BY DEF Moved, StoreInv, StoreTypeOK, Calls
  <2> QED
    BY <1>2, <2>1 DEF StoreInv, StoreTypeOK
<1>6. \A v \in Writers :
        /\ call'[v].content # None => call'[v].risks = Scan[call'[v].content]
        /\ Active(v)' => call'[v].content \in Contents
  BY <1>4 DEF StoreInv, RisksTravel, CallsHaveContent, Active
<1> QED
  BY <1>3, <1>5, <1>6, WriterKeeps

\* The finished temporary file becomes the object.
LEMMA Rename_Inv ==
  ASSUME StoreInv, NEW w \in Writers, Rename(w)
  PROVE  StoreInv'
<1> USE StoreConstants
<1>1. call[w].content \in Contents
  BY DEF Rename, StoreInv, CallsHaveContent, Active
<1>2. \A v \in Writers :
        /\ call'[v].content = call[v].content /\ call'[v].risks = call[v].risks
        /\ v # w => call'[v].pc = call[v].pc
  BY DEF Rename, Moved, StoreInv, StoreTypeOK
<1>3. StoreTypeOK'
  BY <1>1 DEF Rename, Moved, StoreInv, StoreTypeOK, Calls
<1>4. /\ \A c \in Contents : objects'[c] = objects[c] \/ objects'[c] = c
      /\ \A c \in Contents \ {call[w].content} : objects'[c] = objects[c]
      /\ objects'[call[w].content] = call[w].content
      /\ harmed' = harmed \ {call[w].content}
      /\ run' = run /\ meta' = meta
  BY <1>1 DEF Rename, StoreInv, StoreTypeOK
<1>5. ObjectsAreWhole'
  BY <1>1, <1>4 DEF StoreInv, ObjectsAreWhole
<1>6. RunsWhatWasAsked' /\ RunsInOrder'
  BY <1>4 DEF StoreInv, RunsWhatWasAsked, RunsInOrder
<1>7. StartsWhatWasAsked'
  BY <1>4 DEF StoreInv, StartsWhatWasAsked, RunsInOrder
<1>8. RisksTravel'
  BY <1>2, <1>4 DEF StoreInv, RisksTravel
<1>9. CallsHaveContent'
  BY <1>1, <1>2 DEF StoreInv, CallsHaveContent, Active
<1> QED
  BY <1>3, <1>5, <1>6, <1>7, <1>8, <1>9 DEF StoreInv

\* Every step of a writer keeps the invariant.
LEMMA WriterStep_Inv ==
  ASSUME StoreInv, NEW w \in Writers, WriterStep(w)
  PROVE  StoreInv'
<1> USE StoreConstants
<1>1. ASSUME NEW c \in Contents, Import(w, c) PROVE StoreInv'
  BY <1>1, Begin_Inv DEF Import
<1>2. ASSUME NEW https \in BOOLEAN, NEW pin \in Contents \cup {None},
             NEW body \in Contents \cup {None}, Fetch(w, https, pin, body)
      PROVE  StoreInv'
  BY <1>2, Begin_Inv DEF Fetch
<1>3. faults \in 0 .. MaxFaults /\ (Fault => faults' \in 0 .. MaxFaults)
  BY DEF Fault, StoreInv, StoreTypeOK
<1>4. CASE Refuse(w)
  BY <1>3, <1>4, Move_Inv DEF Refuse, Moved
<1>5. CASE StoreFails(w)
  BY <1>3, <1>5, Move_Inv DEF StoreFails
<1>6. CASE Present(w)
  BY <1>3, <1>6, Move_Inv DEF Present, Active
<1>7. CASE Absent(w)
  BY <1>3, <1>7, Move_Inv DEF Absent, Active
<1>8. CASE Rename(w)
  BY <1>8, Rename_Inv
<1>9. Active(w) => call[w].content \in Contents
  BY DEF StoreInv, CallsHaveContent
<1>10. CASE Truncate(w)
  BY <1>3, <1>9, <1>10, Move_Inv DEF Truncate, Active
<1>11. CASE WriteMetadata(w)
  BY <1>3, <1>9, <1>11, Move_Inv DEF WriteMetadata, RecordOf, Active
<1>12. CASE WriteFails(w)
  BY <1>3, <1>9, <1>12, Move_Inv DEF WriteFails, CutShort, RecordOf, Active
<1>13. CASE KillWriter(w)
  BY <1>3, <1>9, <1>13, Move_Inv DEF KillWriter, CutShort, RecordOf
<1> QED
  BY <1>1, <1>2, <1>4, <1>5, <1>6, <1>7, <1>8, <1>10, <1>11, <1>12, <1>13 DEF WriterStep

-----------------------------------------------------------------------------
\* A runner's step keeps the types if it keeps that runner's.
LEMMA RunnerTyped ==
  ASSUME StoreInv, NEW r \in Runners, UNCHANGED <<objects, meta, harmed, call, faults>>,
         NEW new \in Runs, run' = [run EXCEPT ![r] = new]
  PROVE  StoreTypeOK'
BY DEF StoreInv, StoreTypeOK

\* A runner's step changes that runner only.
LEMMA RunnerKeeps ==
  ASSUME StoreInv, NEW r \in Runners, UNCHANGED <<objects, meta, harmed, call, faults>>,
         StoreTypeOK', \A q \in Runners \ {r} : run'[q] = run[q],
         run'[r].ran # None /\ run'[r].intact =>
           run'[r].ran = run'[r].sha /\ Scan[run'[r].sha] = {},
         run'[r].meta # None => run'[r].meta.risks = Scan[run'[r].meta.sha],
         run'[r].ran # None => run'[r].pc = "done",
         run'[r].pc \in {"loading", "hashing", "starting"} =>
           run'[r].id \in Ids /\ run'[r].sha \in Contents /\ run'[r].object \in Contents,
         run'[r].pc \in {"hashing", "starting"} => run'[r].meta # None,
         run'[r].pc = "starting" /\ run'[r].intact =>
           /\ run'[r].object = run'[r].sha /\ objects[run'[r].object] = run'[r].sha
           /\ Scan[run'[r].sha] = {}
  PROVE  StoreInv'
<1>1. ObjectsAreWhole' /\ CallsHaveContent'
  BY DEF StoreInv, ObjectsAreWhole, CallsHaveContent, Active
<1>2. RunsWhatWasAsked'
  BY DEF StoreInv, RunsWhatWasAsked
<1>3. RunsInOrder'
  BY DEF StoreInv, RunsInOrder
<1>4. StartsWhatWasAsked'
  BY DEF StoreInv, StartsWhatWasAsked
<1>5. RisksTravel'
  BY DEF StoreInv, RisksTravel
<1> QED
  BY <1>1, <1>2, <1>3, <1>4, <1>5 DEF StoreInv

\* Every step of a runner keeps the invariant.
LEMMA RunnerStep_Inv ==
  ASSUME StoreInv, NEW r \in Runners, RunnerStep(r)
  PROVE  StoreInv'
<1> USE StoreConstants
<1>1. ASSUME NEW i \in Ids, NEW sha \in Contents, NEW object \in Contents, Ask(r, i, sha, object)
      PROVE  StoreInv'
  <2> DEFINE new == [NoRun EXCEPT !.pc = "loading", !.id = i, !.sha = sha, !.object = object]
  <2>0. new \in Runs /\ new.pc = "loading" /\ new.id = i /\ new.sha = sha /\ new.object = object
        /\ new.ran = None /\ new.meta = None
    BY DEF NoRun, Runs
  <2>3. run' = [run EXCEPT ![r] = new] /\ UNCHANGED <<objects, meta, harmed, call, faults>>
    BY <1>1 DEF Ask
  <2> HIDE DEF new
  <2>1. StoreTypeOK'
    BY <2>0, <2>3, RunnerTyped
  <2>2. run'[r] = new /\ \A q \in Runners \ {r} : run'[q] = run[q]
    BY <2>3 DEF StoreInv, StoreTypeOK
  <2> QED
    BY <2>0, <2>1, <2>2, <2>3, RunnerKeeps
<1>2. ASSUME Reject(r), run[r].pc # "done", UNCHANGED <<objects, meta, harmed, call, faults>>
      PROVE  StoreInv'
  <2>1. StoreTypeOK'
    BY <1>2 DEF Reject, StoreInv, StoreTypeOK, Runs
  <2>2. /\ run'[r].pc = "refused" /\ run'[r].ran = run[r].ran /\ run'[r].meta = run[r].meta
        /\ \A q \in Runners \ {r} : run'[q] = run[q]
    BY <1>2 DEF Reject, StoreInv, StoreTypeOK, Runs
  <2>3. run[r].ran = None
    BY <1>2 DEF StoreInv, RunsInOrder
  <2>4. run'[r].meta # None => run'[r].meta.risks = Scan[run'[r].meta.sha]
    BY <2>2 DEF StoreInv, RisksTravel
  <2> QED
    BY <1>2, <2>1, <2>2, <2>3, <2>4, RunnerKeeps
<1>3. CASE Load(r)
  <2>1. CASE meta[run[r].id] \in {None, Empty, Torn}
    BY <1>2, <1>3, <2>1 DEF Load
  <2>2. CASE meta[run[r].id] \notin {None, Empty, Torn}
    <3>1. run[r].id \in Ids /\ run[r].sha \in Contents /\ run[r].object \in Contents
          /\ run[r].ran = None
      BY <1>3 DEF Load, StoreInv, RunsInOrder
    <3>2. meta[run[r].id] \in Metadata
      BY <2>2, <3>1 DEF StoreInv, StoreTypeOK
    <3>3. run' = [run EXCEPT ![r].pc = "hashing", ![r].meta = meta[run[r].id]]
      BY <1>3, <2>2 DEF Load
    <3>4. StoreTypeOK'
      <4> DEFINE new == [run[r] EXCEPT !.pc = "hashing", !.meta = meta[run[r].id]]
      <4>1. run[r] \in Runs
        BY DEF StoreInv, StoreTypeOK
      <4>2. new \in Runs
        BY <3>2, <4>1 DEF Runs
      <4>3. run' = [run EXCEPT ![r] = new]
        BY <3>3 DEF StoreInv, StoreTypeOK
      <4>4. UNCHANGED <<objects, meta, harmed, call, faults>>
        BY <1>3 DEF Load
      <4> QED
        BY <4>2, <4>3, <4>4, RunnerTyped
    <3>5. /\ run'[r].pc = "hashing" /\ run'[r].meta = meta[run[r].id]
          /\ run'[r].ran = run[r].ran /\ run'[r].id = run[r].id /\ run'[r].sha = run[r].sha
          /\ run'[r].object = run[r].object
          /\ \A q \in Runners \ {r} : run'[q] = run[q]
      BY <3>3 DEF StoreInv, StoreTypeOK
    <3>6. meta[run[r].id].risks = Scan[meta[run[r].id].sha]
      BY <2>2, <3>1 DEF StoreInv, RisksTravel, NoRecord
    <3> QED
      BY <1>3, <2>2, <3>1, <3>4, <3>5, <3>6, RunnerKeeps DEF Load
  <2> QED
    BY <2>1, <2>2
<1>4. CASE Examine(r)
  <2> DEFINE sha == run[r].meta.sha
             admits == objects[sha] = sha /\ Asked(r) /\ run[r].meta.risks = {}
  <2>1. CASE ~admits
    BY <1>2, <1>4, <2>1 DEF Examine
  <2>2. CASE admits
    <3>1. /\ run[r].id \in Ids /\ run[r].sha \in Contents /\ run[r].object \in Contents
          /\ run[r].ran = None /\ run[r].meta # None
      BY <1>4 DEF Examine, StoreInv, RunsInOrder
    <3>2. run' = [run EXCEPT ![r].pc = "starting", ![r].intact = TRUE]
      BY <1>4, <2>2 DEF Examine, Accepted
    <3>3. StoreTypeOK'
      <4> DEFINE new == [run[r] EXCEPT !.pc = "starting", !.intact = TRUE]
      <4>1. run[r] \in Runs
        BY DEF StoreInv, StoreTypeOK
      <4>2. new \in Runs
        BY <4>1 DEF Runs
      <4>3. run' = [run EXCEPT ![r] = new]
        BY <3>2 DEF StoreInv, StoreTypeOK
      <4>4. UNCHANGED <<objects, meta, harmed, call, faults>>
        BY <1>4 DEF Examine
      <4> QED
        BY <4>2, <4>3, <4>4, RunnerTyped
    <3>4. /\ run'[r].pc = "starting" /\ run'[r].meta = run[r].meta
          /\ run'[r].ran = run[r].ran /\ run'[r].id = run[r].id /\ run'[r].sha = run[r].sha
          /\ run'[r].object = run[r].object
          /\ \A q \in Runners \ {r} : run'[q] = run[q]
      BY <3>2 DEF StoreInv, StoreTypeOK
    <3>5. run[r].meta.risks = Scan[sha]
      BY <3>1 DEF StoreInv, RisksTravel
    <3>6. run[r].sha = sha /\ run[r].object = sha /\ objects[sha] = sha /\ Scan[sha] = {}
      BY <2>2, <3>5 DEF Asked
    <3>7. /\ run'[r].meta.risks = Scan[run'[r].meta.sha] /\ run'[r].ran = None
          /\ run'[r].object = run'[r].sha /\ objects[run'[r].object] = run'[r].sha
          /\ Scan[run'[r].sha] = {}
      BY <3>1, <3>4, <3>5, <3>6
    <3>8. UNCHANGED <<objects, meta, harmed, call, faults>>
      BY <1>4 DEF Examine
    <3> QED
      BY <3>1, <3>3, <3>4, <3>7, <3>8, RunnerKeeps
  <2> QED
    BY <2>1, <2>2
<1>5. CASE Decline(r)
  BY <1>2, <1>5 DEF Decline
<1>6. CASE Execute(r)
  <2>1. run[r].object \in Contents /\ run[r].meta # None
    BY <1>6 DEF Execute, StoreInv, RunsInOrder
  <2>2. StoreTypeOK'
    <3> DEFINE new == [run[r] EXCEPT !.pc = "done", !.ran = objects[run[r].object]]
    <3>1. run[r] \in Runs /\ objects[run[r].object] \in Contents \cup {None, Torn, Foreign}
      BY <2>1 DEF StoreInv, StoreTypeOK
    <3>2. new \in Runs
      BY <3>1 DEF Runs
    <3>3. run' = [run EXCEPT ![r] = new]
      BY <1>6 DEF Execute, StoreInv, StoreTypeOK
    <3>4. UNCHANGED <<objects, meta, harmed, call, faults>>
      BY <1>6 DEF Execute
    <3> QED
      BY <3>2, <3>3, <3>4, RunnerTyped
  <2>3. /\ run'[r].pc = "done" /\ run'[r].meta = run[r].meta
        /\ run'[r].ran = objects[run[r].object] /\ run'[r].intact = run[r].intact
        /\ run'[r].sha = run[r].sha
        /\ \A q \in Runners \ {r} : run'[q] = run[q]
    BY <1>6 DEF Execute, StoreInv, StoreTypeOK, Runs
  <2>4. run[r].intact => objects[run[r].object] = run[r].sha /\ Scan[run[r].sha] = {}
    BY <1>6 DEF Execute, StoreInv, StartsWhatWasAsked
  <2>5. run[r].meta.risks = Scan[run[r].meta.sha]
    BY <2>1 DEF StoreInv, RisksTravel
  <2> QED
    BY <1>6, <2>2, <2>3, <2>4, <2>5, RunnerKeeps DEF Execute
<1> QED
  BY <1>1, <1>3, <1>4, <1>5, <1>6 DEF RunnerStep

-----------------------------------------------------------------------------
\* An outsider overwrites an object: whoever was about to start it is no longer intact.
LEMMA Tamper_Inv ==
  ASSUME StoreInv, NEW c \in Contents, Tamper(c)
  PROVE  StoreInv'
<1> USE StoreConstants
<1>1. \A r \in Runners :
        /\ run'[r].pc = run[r].pc /\ run'[r].id = run[r].id /\ run'[r].sha = run[r].sha
        /\ run'[r].object = run[r].object /\ run'[r].meta = run[r].meta
        /\ run'[r].ran = run[r].ran /\ (run'[r].intact => run[r].intact)
        /\ run[r].pc = "starting" /\ run[r].object = c => ~run'[r].intact
  BY DEF Tamper, StoreInv, StoreTypeOK
<1>2. StoreTypeOK'
  <2>1. objects' \in [Contents -> Contents \cup {None, Torn, Foreign}] /\ harmed' \subseteq Contents
        /\ faults' \in 0 .. MaxFaults
    BY DEF Tamper, Fault, StoreInv, StoreTypeOK
  <2>2. run' \in [Runners -> Runs]
    <3>1. \A r \in Runners : run[r] \in Runs
      BY DEF StoreInv, StoreTypeOK
    <3>2. \A r \in Runners : [run[r] EXCEPT !.intact = FALSE] \in Runs
      BY <3>1 DEF Runs
    <3> QED
      BY <3>1, <3>2 DEF Tamper
  <2> QED
    BY <2>1, <2>2 DEF Tamper, StoreInv, StoreTypeOK
<1>3. /\ \A d \in Contents \ {c} : objects'[d] = objects[d]
      /\ harmed' = harmed \cup {c} /\ meta' = meta /\ call' = call
  BY DEF Tamper, StoreInv, StoreTypeOK
<1>4. ObjectsAreWhole' /\ CallsHaveContent'
  BY <1>3 DEF StoreInv, ObjectsAreWhole, CallsHaveContent, Active
<1>5. RunsWhatWasAsked' /\ RunsInOrder'
  BY <1>1 DEF StoreInv, RunsWhatWasAsked, RunsInOrder
<1>6. StartsWhatWasAsked'
  BY <1>1, <1>3 DEF StoreInv, StartsWhatWasAsked, RunsInOrder
<1>7. RisksTravel'
  BY <1>1, <1>3 DEF StoreInv, RisksTravel
<1> QED
  BY <1>2, <1>4, <1>5, <1>6, <1>7 DEF StoreInv

\* The power fails: files are lost or torn, calls and requests are gone.
LEMMA PowerLoss_Inv ==
  ASSUME StoreInv, PowerLoss
  PROVE  StoreInv'
<1> USE StoreConstants
<1>1. \A r \in Runners : \/ run'[r] = run[r] /\ run[r].pc \in {"done", "refused"}
                         \/ run'[r] = NoRun
  BY DEF PowerLoss
<1>2. \A w \in Writers :
        /\ call'[w].content = call[w].content /\ call'[w].risks = call[w].risks
        /\ call'[w].pc \in {"dead", call[w].pc} /\ (Active(w) => call'[w].pc = "dead")
        /\ call'[w] \in Calls
  <2> SUFFICES ASSUME NEW w \in Writers
               PROVE  /\ call'[w].content = call[w].content /\ call'[w].risks = call[w].risks
                      /\ call'[w].pc \in {"dead", call[w].pc}
                      /\ (Active(w) => call'[w].pc = "dead") /\ call'[w] \in Calls
    OBVIOUS
  <2>1. call[w] \in Calls
    BY DEF StoreInv, StoreTypeOK
  <2>2. CASE Active(w)
    <3>1. call'[w] = [call[w] EXCEPT !.pc = "dead", !.alone = FALSE]
      BY <2>2 DEF PowerLoss
    <3> QED
      BY <2>1, <3>1 DEF Calls
  <2>3. CASE ~Active(w)
    <3>1. call'[w] = [call[w] EXCEPT !.pc = call[w].pc, !.alone = FALSE]
      BY <2>3, Zenon DEF PowerLoss
    <3> QED
      BY <2>1, <2>3, <3>1 DEF Calls
  <2> QED
    BY <2>2, <2>3
<1>3. PICK lost \in SUBSET Ids, cut \in SUBSET Ids :
        meta' = [i \in Ids |-> IF meta[i] = None \/ i \in lost THEN None
                               ELSE IF i \in cut THEN Torn ELSE meta[i]]
  BY DEF PowerLoss
<1>4. \A i \in Ids : meta'[i] = meta[i] \/ meta'[i] \in NoRecord
  BY <1>3 DEF NoRecord
<1>5. StoreTypeOK'
  <2>1. meta' \in [Ids -> Metadata \cup {None, Empty, Torn}]
    BY <1>3 DEF StoreInv, StoreTypeOK
  <2>2. harmed' \subseteq Contents
    BY DEF PowerLoss, StoreInv, StoreTypeOK
  <2>5. faults' \in 0 .. MaxFaults
    <3>1. Fault
      BY DEF PowerLoss
    <3>2. faults \in 0 .. MaxFaults
      BY DEF StoreInv, StoreTypeOK
    <3> QED
      BY <3>1, <3>2 DEF Fault
  <2>6. objects' \in [Contents -> Contents \cup {None, Torn, Foreign}]
    BY DEF PowerLoss
  <2>3. call' \in [Writers -> Calls]
    BY <1>2 DEF PowerLoss
  <2>4. run' \in [Runners -> Runs]
    <3>1. NoRun \in Runs
      BY DEF NoRun, Runs
    <3> QED
      BY <3>1 DEF PowerLoss, StoreInv, StoreTypeOK
  <2> QED
    BY <2>1, <2>2, <2>3, <2>4, <2>5, <2>6 DEF StoreTypeOK
<1>6. ObjectsAreWhole'
  BY DEF PowerLoss, StoreInv, ObjectsAreWhole
<1>7. CallsHaveContent'
  BY <1>2 DEF StoreInv, CallsHaveContent, Active
<1>8. RunsWhatWasAsked' /\ RunsInOrder'
  BY <1>1 DEF StoreInv, RunsWhatWasAsked, RunsInOrder, NoRun
<1>9. StartsWhatWasAsked'
  BY <1>1 DEF StartsWhatWasAsked, NoRun
<1>10. RisksTravel'
  BY <1>1, <1>2, <1>4 DEF StoreInv, RisksTravel, NoRecord, NoRun
<1> QED
  BY <1>5, <1>6, <1>7, <1>8, <1>9, <1>10 DEF StoreInv

\* Every step of the store keeps the invariant.
LEMMA StoreNext_Inv == StoreInv /\ [StoreNext]_storeVars => StoreInv'
<1> SUFFICES ASSUME StoreInv, [StoreNext]_storeVars PROVE StoreInv'
  OBVIOUS
<1>1. CASE UNCHANGED storeVars
  BY <1>1 DEF storeVars, StoreInv, StoreTypeOK, ObjectsAreWhole, RunsWhatWasAsked, RisksTravel,
     RunsInOrder, CallsHaveContent, StartsWhatWasAsked, Active
<1>2. ASSUME NEW w \in Writers, WriterStep(w) PROVE StoreInv'
  BY <1>2, WriterStep_Inv
<1>3. ASSUME NEW r \in Runners, RunnerStep(r) PROVE StoreInv'
  BY <1>3, RunnerStep_Inv
<1>4. ASSUME NEW c \in Contents, Tamper(c) PROVE StoreInv'
  BY <1>4, Tamper_Inv
<1>5. CASE PowerLoss
  BY <1>5, PowerLoss_Inv
<1> QED
  BY <1>1, <1>2, <1>3, <1>4, <1>5 DEF StoreNext

-----------------------------------------------------------------------------
\* The strengthened invariant, for every reachable state of the store.
THEOREM StoreInvariant == StoreSpec => []StoreInv
<1> QED
  BY StoreInit_Inv, StoreNext_Inv, PTL DEF StoreSpec

\* Type correctness of the artifact store.
THEOREM StoreTypeCorrect == StoreSpec => []StoreTypeOK
<1>1. StoreInv => StoreTypeOK
  BY DEF StoreInv
<1> QED
  BY <1>1, StoreInvariant, PTL

\* Object files are whole, however many calls store however many artifacts at once.
THEOREM StoredObjectsAreWhole == StoreSpec => []ObjectsAreWhole
<1>1. StoreInv => ObjectsAreWhole
  BY DEF StoreInv
<1> QED
  BY <1>1, StoreInvariant, PTL

\* No import, fetch, crash or collision of ids makes the broker run another artifact than the
\* one that was asked for, or one with risk flags.
THEOREM ArtifactRunIsTheOneAsked == StoreSpec => []RunsWhatWasAsked
<1>1. StoreInv => RunsWhatWasAsked
  BY DEF StoreInv
<1> QED
  BY <1>1, StoreInvariant, PTL

-----------------------------------------------------------------------------
(***************************************************************************)
(* A call that has its id to itself is not disturbed: RetryMends.  What a  *)
(* lone call has done so far is still there, because whoever changes the   *)
(* metadata of an id is an active call for that id.                        *)
(***************************************************************************)
Alone(w) == \A u \in Writers \ {w} : ~(Active(u) /\ SameId(u, call[w].content))

Lone(w) ==
  LET c == call[w].content
  IN  /\ c \in Contents /\ Alone(w)
      /\ call[w].pc \in {"describing", "writing", "ok"} /\ c \notin harmed => objects[c] = c
      /\ call[w].pc = "writing" => meta[Id[c]] = Empty
      /\ call[w].pc = "ok" => meta[Id[c]] = RecordOf(w)

LoneInv == \A w \in Writers : call[w].alone => Lone(w)

\* Before any call nobody is alone.
LEMMA LoneInit == StoreInit => LoneInv
BY DEF StoreInit, LoneInv, NoCall

\* A new call ends the solitude of those with its id.
LEMMA Begin_Lone ==
  ASSUME StoreInv, LoneInv, NEW w \in Writers, NEW c \in Contents, NEW risks,
         Begin(w, c, risks), UNCHANGED <<objects, meta, harmed>>
  PROVE  LoneInv'
<1> USE StoreConstants
<1> DEFINE Free == \A u \in Writers \ {w} : ~(Active(u) /\ SameId(u, c))
<1>1. Free \in BOOLEAN
  OBVIOUS
<1>2. /\ call'[w].pc = "checking" /\ call'[w].content = c /\ call'[w].alone = Free
      /\ \A v \in Writers \ {w} :
           /\ call'[v].pc = call[v].pc /\ call'[v].content = call[v].content
           /\ call'[v].alone => ~SameId(v, c) /\ call'[v] = call[v] /\ call[v].alone
  <2> HIDE DEF Free
  <2>1. call' = [v \in Writers |->
                  IF v = w THEN [pc |-> "checking", content |-> c, risks |-> risks, alone |-> Free]
                  ELSE IF SameId(v, c) THEN [call[v] EXCEPT !.alone = FALSE] ELSE call[v]]
    BY DEF Begin, Free
  <2>2. \A v \in Writers : call[v] \in Calls
    BY DEF StoreInv, StoreTypeOK
  <2> QED
    BY <2>1, <2>2 DEF Calls
<1>3. \A v \in Writers \ {w} : Active(v)' = Active(v)
  BY <1>2 DEF Active
<1>4. ASSUME call'[w].alone PROVE Lone(w)'
  BY <1>2, <1>3, <1>4 DEF Lone, Alone, SameId
<1>5. ASSUME NEW v \in Writers \ {w}, call'[v].alone PROVE Lone(v)'
  <2>1. Lone(v) /\ ~SameId(v, c) /\ call'[v] = call[v]
    BY <1>2, <1>5 DEF LoneInv
  <2>2. Alone(v)'
    <3>1. SUFFICES ASSUME NEW u \in Writers \ {v} PROVE ~(Active(u)' /\ SameId(u, call[v].content)')
      BY <2>1 DEF Alone
    <3>2. CASE u = w
      BY <1>2, <2>1, <3>2 DEF SameId, Lone
    <3>3. CASE u # w
      BY <1>2, <1>3, <2>1, <3>3 DEF SameId, Lone, Alone
    <3> QED
      BY <3>2, <3>3
  <2> QED
    BY <2>1, <2>2 DEF Lone, RecordOf
<1> QED
  BY <1>4, <1>5 DEF LoneInv

\* Another's step of a call leaves a lone call undisturbed.
LEMMA Others_Lone ==
  ASSUME StoreInv, LoneInv, NEW w \in Writers, NEW pc, Moved(w, pc),
         pc \in {"checking", "renaming", "describing", "writing"} => Active(w),
         \A c \in Contents :
           (objects'[c] = objects[c] /\ (c \in harmed => c \in harmed'))
           \/ (Active(w) /\ c = call[w].content),
         \A i \in Ids : meta'[i] = meta[i] \/ (Active(w) /\ i = Id[call[w].content])
  PROVE  /\ \A v \in Writers \ {w} : call'[v].alone => Lone(v)'
         /\ call'[w].pc = pc /\ call'[w].content = call[w].content
         /\ call'[w].risks = call[w].risks /\ call'[w].alone = call[w].alone
         /\ call[w].alone => Lone(w) /\ Alone(w)'
<1> USE StoreConstants
<1>1. /\ call'[w].pc = pc /\ call'[w].content = call[w].content
      /\ call'[w].risks = call[w].risks /\ call'[w].alone = call[w].alone
      /\ \A v \in Writers \ {w} : call'[v] = call[v]
  BY DEF Moved, StoreInv, StoreTypeOK, Calls
<1>2. /\ \A v \in Writers \ {w} : Active(v)' = Active(v)
      /\ Active(w)' => Active(w)
  BY <1>1 DEF Active
<1>3. \A v \in Writers : call[v].alone => Lone(v) /\ Alone(v)'
  BY <1>1, <1>2 DEF LoneInv, Lone, Alone, SameId
<1>4. ASSUME NEW v \in Writers \ {w}, call'[v].alone PROVE Lone(v)'
  <2>1. Lone(v) /\ Alone(v)' /\ call'[v] = call[v] /\ call[v].content \in Contents
    BY <1>1, <1>3, <1>4 DEF Lone
  <2>2. Active(w) => Id[call[w].content] # Id[call[v].content]
    BY <2>1 DEF Lone, Alone, SameId, StoreInv, CallsHaveContent
  <2>3. /\ meta'[Id[call[v].content]] = meta[Id[call[v].content]]
        /\ objects'[call[v].content] = objects[call[v].content]
        /\ call[v].content \in harmed => call[v].content \in harmed'
    BY <2>1, <2>2
  <2> QED
    BY <2>1, <2>3 DEF Lone, RecordOf
<1> QED
  BY <1>1, <1>3, <1>4

\* Every step of a writer keeps what the lone calls have done.
LEMMA WriterStep_Lone ==
  ASSUME StoreInv, LoneInv, NEW w \in Writers, WriterStep(w)
  PROVE  LoneInv'
<1> USE StoreConstants
<1>1. objects \in [Contents -> Contents \cup {None, Torn, Foreign}]
      /\ meta \in [Ids -> Metadata \cup {None, Empty, Torn}]
      /\ (Active(w) => call[w].content \in Contents)
  BY DEF StoreInv, StoreTypeOK, CallsHaveContent
<1>2. CASE \E c \in Contents : Import(w, c)
  BY <1>2, Begin_Lone DEF Import
<1>3. CASE \E https \in BOOLEAN, pin, body \in Contents \cup {None} : Fetch(w, https, pin, body)
  BY <1>3, Begin_Lone DEF Fetch
<1>4. CASE Refuse(w) \/ StoreFails(w) \/ Absent(w)
  <2>1. PICK pc \in {"failed", "renaming"} : Moved(w, pc) /\ (pc = "renaming" => Active(w))
    BY <1>4 DEF Refuse, Moved, StoreFails, Absent, Active
  <2>2. UNCHANGED <<objects, meta, harmed>>
    BY <1>4 DEF Refuse, StoreFails, Absent
  <2> QED
    BY <2>1, <2>2, Others_Lone DEF LoneInv, Lone
<1>5. CASE Present(w)
  <2>1. Moved(w, "describing") /\ Active(w) /\ UNCHANGED <<objects, meta, harmed>>
    BY <1>5 DEF Present, Active
  <2>2. call[w].content \notin harmed => objects[call[w].content] = call[w].content
    BY <1>1, <1>5, <2>1 DEF Present, StoreInv, ObjectsAreWhole
  <2> QED
    BY <2>1, <2>2, Others_Lone DEF LoneInv, Lone
<1>6. CASE Rename(w)
  <2>1. Moved(w, "describing") /\ Active(w) /\ UNCHANGED meta
    BY <1>6 DEF Rename, Active
  <2>2. /\ objects'[call[w].content] = call[w].content
        /\ \A c \in Contents \ {call[w].content} :
             objects'[c] = objects[c] /\ (c \in harmed => c \in harmed')
    BY <1>1, <1>6, <2>1 DEF Rename
  <2>3. /\ \A v \in Writers \ {w} : call'[v].alone => Lone(v)'
        /\ call'[w].pc = "describing" /\ call'[w].content = call[w].content
        /\ call'[w].alone = call[w].alone /\ (call[w].alone => Lone(w) /\ Alone(w)')
    BY <2>1, <2>2, Others_Lone
  <2> QED
    BY <2>2, <2>3 DEF LoneInv, Lone
<1>7. ASSUME NEW pc \in {"writing", "ok", "failed", "dead"}, Moved(w, pc), Active(w),
             UNCHANGED <<objects, harmed>>, meta' = meta \/ (\E new : meta' = [meta EXCEPT ![Id[call[w].content]] = new]),
             pc = "writing" => meta'[Id[call[w].content]] = Empty /\ call[w].pc = "describing",
             pc = "ok" /\ meta[Id[call[w].content]] = Empty => meta'[Id[call[w].content]] = RecordOf(w),
             pc = "ok" => call[w].pc = "writing"
      PROVE  LoneInv'
  <2>1. \A i \in Ids : meta'[i] = meta[i] \/ (Active(w) /\ i = Id[call[w].content])
    BY <1>1, <1>7
  <2>2. /\ \A v \in Writers \ {w} : call'[v].alone => Lone(v)'
        /\ call'[w].pc = pc /\ call'[w].content = call[w].content
        /\ call'[w].risks = call[w].risks /\ call'[w].alone = call[w].alone
        /\ call[w].alone => Lone(w) /\ Alone(w)'
    BY <1>7, <2>1, Others_Lone
  <2>3. call'[w].alone => Lone(w)'
    BY <1>7, <2>2 DEF Lone, RecordOf
  <2> QED
    BY <2>2, <2>3 DEF LoneInv
<1>8. CASE Truncate(w)
  BY <1>1, <1>7, <1>8 DEF Truncate, Active
<1>9. CASE WriteMetadata(w)
  <2>1. /\ Moved(w, "ok") /\ Active(w) /\ call[w].pc = "writing" /\ UNCHANGED <<objects, harmed>>
        /\ \E new : meta' = [meta EXCEPT ![Id[call[w].content]] = new]
    BY <1>9 DEF WriteMetadata, Active
  <2>2. meta[Id[call[w].content]] = Empty => meta'[Id[call[w].content]] = RecordOf(w)
    BY <1>1, <1>9, <2>1 DEF WriteMetadata
  <2> QED
    BY <1>7, <2>1, <2>2
<1>10. CASE WriteFails(w)
  BY <1>7, <1>10 DEF WriteFails, CutShort, Active
<1>11. CASE KillWriter(w)
  BY <1>7, <1>11 DEF KillWriter, CutShort
<1> QED
  BY <1>2, <1>3, <1>4, <1>5, <1>6, <1>8, <1>9, <1>10, <1>11 DEF WriterStep

\* So does every step of the store.
LEMMA StoreNext_Lone == StoreInv /\ LoneInv /\ [StoreNext]_storeVars => LoneInv'
<1> SUFFICES ASSUME StoreInv, LoneInv, [StoreNext]_storeVars PROVE LoneInv'
  OBVIOUS
<1>1. CASE UNCHANGED <<objects, meta, harmed, call>>
  BY <1>1 DEF LoneInv, Lone, Alone, Active, SameId, RecordOf
<1>2. CASE \E w \in Writers : WriterStep(w)
  BY <1>2, WriterStep_Lone
<1>3. ASSUME NEW r \in Runners, RunnerStep(r) PROVE UNCHANGED <<objects, meta, harmed, call>>
  BY <1>3 DEF RunnerStep, Ask, Load, Examine, Decline, Execute
<1>4. ASSUME NEW c \in Contents, Tamper(c) PROVE LoneInv'
  BY <1>4 DEF Tamper, StoreInv, StoreTypeOK, LoneInv, Lone, Alone, Active, SameId, RecordOf
<1>5. CASE PowerLoss
  <2>1. \A w \in Writers : ~call'[w].alone
    BY <1>5 DEF PowerLoss, StoreInv, StoreTypeOK, Calls
  <2> QED
    BY <2>1 DEF LoneInv
<1> QED
  BY <1>1, <1>2, <1>3, <1>4, <1>5 DEF StoreNext, storeVars

\* A store or retry that has its id to itself leaves an artifact that verifies, whatever
\* earlier calls, crashes and power losses have left of it.
THEOREM RetriesMend == StoreSpec => []RetryMends
<1>1. StoreInv /\ LoneInv => RetryMends
  <2> SUFFICES ASSUME StoreInv, LoneInv, NEW w \in Writers,
                      call[w].pc = "ok", call[w].alone, call[w].content \notin harmed
               PROVE  Verifies(call[w].content)
    BY DEF RetryMends
  <2>1. Lone(w)
    BY DEF LoneInv
  <2>2. RecordOf(w) \in Metadata /\ RecordOf(w).sha = call[w].content
    BY <2>1 DEF Lone, RecordOf, Metadata, StoreInv, StoreTypeOK, Calls
  <2> QED
    BY <2>1, <2>2, NoFileIsNoMetadata DEF Lone, Verifies
<1> QED
  BY <1>1, StoreInvariant, LoneInit, StoreNext_Lone, PTL DEF StoreSpec
=============================================================================
