---------------------------- MODULE Setup_proofs ----------------------------
(***************************************************************************)
(* Theorems about Setup: for any shells, clients, brokers and faults, the  *)
(* trust file keeps who was enrolled, and install and trust add leave what *)
(* a broker needs to start.                                                *)
(***************************************************************************)
EXTENDS Setup, TLAPS

-----------------------------------------------------------------------------
\* An enrolment under way has read every client that is claimed to be enrolled.
StoresCarry == \A o \in Adding : enrolled \subseteq job[o].store

\* Who thinks no other enrolment runs at the same time is right.
AloneIsAlone == \A o \in Adding : job[o].alone => Adding = {o}

\* A trust file that is being written and has had no company is still as it was truncated.
WriterHasNoCompany ==
  "trust" \notin spoiled =>
    /\ \A o, p \in Saving : o = p
    /\ Saving # {} => "trust" \in blank

\* The inductive invariant behind EnrolmentKept.
TrustInv == TypeOK /\ StoresCarry /\ AloneIsAlone /\ WriterHasNoCompany /\ EnrolmentKept

-----------------------------------------------------------------------------
\* Replacing a client keeps one entry for each id, and everybody else's.
LEMMA ReplacedIsAStore ==
  ASSUME NEW s \in {t \in SUBSET Enrollees : OneEach(t)}, NEW c \in Enrollees
  PROVE  /\ Replaced(s, c) \in {t \in SUBSET Enrollees : OneEach(t)}
         /\ \A e \in SUBSET s : Without(e, c.id) \cup {c} \subseteq Replaced(s, c)
  BY DEF Replaced, Without, OneEach

\* What a file that parses holds is a store, and so is what Load makes of it.
LEMMA LoadedIsAStore ==
  ASSUME TypeOK, disk.trust # UnparsableFile
  PROVE  LoadTrust(disk.trust) \in {s \in SUBSET Enrollees : OneEach(s)}
  BY StoresAreFiles DEF TypeOK, TrustContents, LoadTrust, OneEach

\* The files keep their type when one of them gets a new content.
LEMMA FillType ==
  ASSUME TypeOK, NEW f \in {"policy", "trust"}, NEW content, NEW same, Fill(f, content, same),
         f = "policy" => content \in PolicyContents,
         f = "trust" => content \in TrustContents
  PROVE  /\ disk' \in [policy : PolicyContents, trust : TrustContents]
         /\ blank' \subseteq {"policy", "trust"}
  BY DEF TypeOK, Fill, PolicyContents, TrustContents

\* EnsurePrivateDir leaves a directory in a state it can be in.
LEMMA EnsuredType == \A s \in DirStates : Ensured(s) \in DirStates
  BY DEF Ensured, DirStates

-----------------------------------------------------------------------------
\* Init and every step keep the types.
LEMMA TypeInit == Init => TypeOK
  <1> SUFFICES ASSUME Init PROVE TypeOK
    OBVIOUS
  <1>1. Idle \in [pc : {"idle", "absent", "creating", "loaded", "saving"},
                  store : {s \in SUBSET Enrollees : OneEach(s)},
                  client : Enrollees \cup {NoClient}, alone : BOOLEAN]
    BY DEF Idle, OneEach
  <1>2. faults \in 0..MaxFaults
    BY SetupBounds DEF Init
  <1> QED
    BY <1>1, <1>2, SetupBounds DEF Init, TypeOK, PolicyContents, TrustContents, Idle

LEMMA TypeStep == TypeOK /\ [Next]_vars => TypeOK'
  <1> SUFFICES ASSUME TypeOK, [Next]_vars PROVE TypeOK'
    OBVIOUS
  <1> DEFINE Jobs == [pc : {"idle", "absent", "creating", "loaded", "saving"},
                      store : {s \in SUBSET Enrollees : OneEach(s)},
                      client : Enrollees \cup {NoClient}, alone : BOOLEAN]
  <1>idle. Idle \in Jobs /\ Idle.pc = "idle"
    BY DEF Idle, OneEach
  <1>job. job \in [Operators -> Jobs]
    BY DEF TypeOK
  <1>ends. ASSUME NEW o \in Operators, Ends(o)
           PROVE  /\ job' \in [Operators -> Jobs]
                  /\ \A p \in Operators :
                       job'[p].pc \in {"loaded", "saving"} => job'[p].client \in Enrollees
    <2>1. job' = [job EXCEPT ![o] = Idle]
      BY <1>ends DEF Ends
    <2>2. \A p \in Operators : job'[p] = IF p = o THEN Idle ELSE job[p]
      BY <2>1, <1>job
    <2> QED
      BY <2>1, <2>2, <1>idle, <1>job DEF TypeOK
  <1>goes. ASSUME NEW o \in Operators, NEW pc \in {"absent", "creating", "saving"}, Goes(o, pc),
                  pc = "saving" => job[o].client \in Enrollees
           PROVE  /\ job' \in [Operators -> Jobs]
                  /\ \A p \in Operators :
                       job'[p].pc \in {"loaded", "saving"} => job'[p].client \in Enrollees
    <2>1. \A p \in Operators : job'[p] = IF p = o THEN [job[p] EXCEPT !.pc = pc] ELSE job[p]
      BY <1>goes, <1>job DEF Goes
    <2>2. [job[o] EXCEPT !.pc = pc] \in Jobs
      BY <1>job
    <2>3. job' \in [Operators -> Jobs]
      BY <1>goes, <2>2, <1>job DEF Goes
    <2>4. [job[o] EXCEPT !.pc = pc].pc = pc /\ [job[o] EXCEPT !.pc = pc].client = job[o].client
      BY <1>job
    <2> QED
      BY <2>1, <2>3, <2>4, <1>goes DEF TypeOK
  <1>trunc. ASSUME NEW f \in {"policy", "trust"}, Truncate(f)
            PROVE  /\ disk' \in [policy : PolicyContents, trust : TrustContents]
                   /\ blank' \subseteq {"policy", "trust"}
    BY <1>trunc DEF Truncate, TypeOK, PolicyContents, TrustContents
  <1>fault. Fault => faults' \in 0..MaxFaults
    BY SetupBounds DEF Fault, TypeOK
  <1>1. ASSUME NEW o \in Operators, Install(o) PROVE TypeOK'
    <2>1. dirs' \in [Dirs -> DirStates]
      BY <1>1, EnsuredType DEF Install, EnsureAll, TypeOK
    <2>2. installed' \in BOOLEAN
      BY <1>1 DEF Install, TypeOK
    <2>3. CASE UNCHANGED job
      BY <1>1, <2>1, <2>2, <2>3 DEF Install, TypeOK
    <2>4. CASE Goes(o, "absent")
      BY <1>1, <2>1, <2>2, <2>4, <1>goes DEF Install, TypeOK
    <2> QED
      BY <1>1, <2>3, <2>4 DEF Install
  <1>2. ASSUME NEW o \in Operators, OpenPolicy(o) PROVE TypeOK'
    BY <1>2, <1>goes, <1>trunc DEF OpenPolicy, TypeOK
  <1>3. ASSUME NEW o \in Operators, WritePolicy(o) PROVE TypeOK'
    <2>1. DefaultPolicy \in PolicyContents
      BY DEF PolicyContents
    <2>2. Fill("policy", DefaultPolicy, TRUE)
      BY <1>3 DEF WritePolicy
    <2>3. /\ disk' \in [policy : PolicyContents, trust : TrustContents]
          /\ blank' \subseteq {"policy", "trust"}
      BY <2>1, <2>2, FillType
    <2> QED
      BY <1>3, <2>3, <1>ends DEF WritePolicy, TypeOK
  <1>4. ASSUME NEW o \in Operators, NEW c \in Enrollees, LoadStore(o, c) PROVE TypeOK'
    <2> DEFINE store == LoadTrust(disk.trust)
               new == [pc |-> "loaded", store |-> store, client |-> c, alone |-> Adding = {}]
    <2>1. store \in {s \in SUBSET Enrollees : OneEach(s)}
      BY <1>4, LoadedIsAStore DEF LoadStore
    <2>2. new \in Jobs /\ new.client \in Enrollees
      BY <2>1
    <2>3. \A p \in Operators : /\ [job[p] EXCEPT !.alone = FALSE] \in Jobs
                               /\ [job[p] EXCEPT !.alone = FALSE].pc = job[p].pc
                               /\ [job[p] EXCEPT !.alone = FALSE].client = job[p].client
      BY <1>job
    <2>4. job' = [p \in Operators |-> IF p = o THEN new
                    ELSE IF p \in Adding THEN [job[p] EXCEPT !.alone = FALSE] ELSE job[p]]
      BY <1>4 DEF LoadStore, Loads
    <2> HIDE DEF new
    <2>5. /\ job' \in [Operators -> Jobs]
          /\ \A p \in Operators :
               job'[p].pc \in {"loaded", "saving"} => job'[p].client \in Enrollees
      BY <2>2, <2>3, <2>4, <1>job DEF TypeOK
    <2> QED
      BY <1>4, <2>5 DEF LoadStore, TypeOK
  <1>5. ASSUME NEW o \in Operators, OpenTrust(o) PROVE TypeOK'
    <2>1. dirs' \in [Dirs -> DirStates]
      BY <1>5, EnsuredType DEF OpenTrust, TypeOK, Dirs
    <2>2. CASE dirs["config"] = "alien"
      BY <1>5, <2>1, <2>2, <1>ends DEF OpenTrust, TypeOK
    <2>3. CASE dirs["config"] # "alien"
      <3>1. Truncate("trust") /\ Goes(o, "saving") /\ spoiled' \subseteq {"policy", "trust"}
        BY <1>5, <2>3 DEF OpenTrust, TypeOK
      <3>2. job[o].client \in Enrollees
        BY <1>5 DEF OpenTrust, TypeOK
      <3> QED
        BY <1>5, <2>1, <3>1, <3>2, <1>goes, <1>trunc DEF OpenTrust, TypeOK
    <2> QED
      BY <2>2, <2>3
  <1>6. ASSUME NEW o \in Operators, WriteTrust(o) PROVE TypeOK'
    <2> DEFINE c == job[o].client
               content == Replaced(job[o].store, c)
    <2>1. c \in Enrollees /\ job[o].store \in {s \in SUBSET Enrollees : OneEach(s)}
      BY <1>6, <1>job DEF WriteTrust, TypeOK
    <2>2. content \in TrustContents
      BY <2>1, ReplacedIsAStore DEF TrustContents
    <2>3. Fill("trust", content, FALSE)
      BY <1>6 DEF WriteTrust
    <2> HIDE DEF content
    <2>4. /\ disk' \in [policy : PolicyContents, trust : TrustContents]
          /\ blank' \subseteq {"policy", "trust"}
      BY <2>2, <2>3, FillType
    <2>5. enrolled' \subseteq Enrollees
      BY <1>6, <2>1 DEF WriteTrust, Without, TypeOK
    <2> QED
      BY <1>6, <2>4, <2>5, <1>ends DEF WriteTrust, TypeOK
  <1>7. ASSUME NEW o \in Operators, Dies(o) PROVE TypeOK'
    BY <1>7, <1>ends, <1>fault DEF Dies, TypeOK
  <1>8. ASSUME NEW o \in Operators, DiesWriting(o) PROVE TypeOK'
    <2> DEFINE f == IF job[o].pc = "creating" THEN "policy" ELSE "trust"
               all == IF f = "policy" THEN DefaultPolicy
                      ELSE Replaced(job[o].store, job[o].client)
               some == IF f = "policy" THEN disk.policy ELSE UnparsableFile
    <2>1. f \in {"policy", "trust"}
      OBVIOUS
    <2>2. f = "policy" => all \in PolicyContents /\ some \in PolicyContents
      BY DEF PolicyContents, TypeOK
    <2>3. f = "trust" => all \in TrustContents /\ some \in TrustContents
      <3> SUFFICES ASSUME f = "trust" PROVE all \in TrustContents /\ some \in TrustContents
        OBVIOUS
      <3>1. job[o].pc = "saving"
        BY <1>8 DEF DiesWriting
      <3>2. job[o].client \in Enrollees /\ job[o].store \in {s \in SUBSET Enrollees : OneEach(s)}
        BY <3>1, <1>job DEF TypeOK
      <3> QED
        BY <3>2, ReplacedIsAStore DEF TrustContents
    <2>4. UNCHANGED <<disk, blank>> \/ \E content \in {some, all} : Fill(f, content, f = "policy")
      BY <1>8 DEF DiesWriting
    <2>5. Ends(o) /\ Fault /\ spoiled' = spoiled \cup {f} /\ UNCHANGED <<dirs, booted, installed, promised>>
      BY <1>8 DEF DiesWriting
    <2>6. enrolled' \subseteq Enrollees
      BY <1>8 DEF DiesWriting, Without, TypeOK
    <2> HIDE DEF f, all, some
    <2>7. /\ disk' \in [policy : PolicyContents, trust : TrustContents]
          /\ blank' \subseteq {"policy", "trust"}
      <3>1. CASE UNCHANGED <<disk, blank>>
        BY <3>1 DEF TypeOK
      <3>2. CASE \E content \in {some, all} : Fill(f, content, f = "policy")
        BY <3>2, <2>1, <2>2, <2>3, FillType
      <3> QED
        BY <3>1, <3>2, <2>4
    <2> QED
      BY <2>1, <2>5, <2>6, <2>7, <1>ends, <1>fault DEF TypeOK
  <1>9. ASSUME NEW d \in Dirs, UseDir(d) PROVE TypeOK'
    BY <1>9, EnsuredType DEF UseDir, TypeOK
  <1>10. ASSUME NEW f \in {"policy", "trust"}, Remove(f) PROVE TypeOK'
    BY <1>10 DEF Remove, TypeOK, PolicyContents, TrustContents
  <1>11. ASSUME NEW b \in Brokers, StartBroker(b) PROVE TypeOK'
    <2> DEFINE config == [rules |-> LoadPolicy(disk.policy).rules,
                          clients |-> LoadTrust(disk.trust)]
    <2>1. disk.policy \in {MissingFile, DefaultPolicy}
      BY <1>11 DEF StartBroker, LoadPolicy, TypeOK, PolicyContents
    <2>2. config \in Configurations
      BY <1>11, <2>1, LoadedIsAStore DEF StartBroker, Configurations
    <2>3. booted' = [booted EXCEPT ![b] = config]
      BY <1>11 DEF StartBroker
    <2> HIDE DEF config
    <2> QED
      BY <1>11, <2>2, <2>3 DEF StartBroker, TypeOK
  <1>12. ASSUME PowerLoss PROVE TypeOK'
    BY <1>12, <1>idle, <1>fault DEF PowerLoss, TypeOK
  <1>13. CASE UNCHANGED vars
    BY <1>13 DEF vars, TypeOK
  <1> QED
    BY <1>1, <1>2, <1>3, <1>4, <1>5, <1>6, <1>7, <1>8, <1>9, <1>10, <1>11, <1>12, <1>13 DEF Next

-----------------------------------------------------------------------------
\* Type correctness of the set-up, for any shells, clients, brokers and number of faults.
THEOREM TypeCorrect == Spec => []TypeOK
  BY TypeInit, TypeStep, PTL DEF Spec

-----------------------------------------------------------------------------
(***************************************************************************)
(* EnrolmentKept.  Actions that touch neither the trust file nor an        *)
(* enrolment under way keep TrustInv whatever else they do.                *)
(***************************************************************************)
LEMMA TrustUntouched ==
  ASSUME TrustInv, TypeOK', disk'.trust = disk.trust, enrolled' = enrolled,
         "trust" \in blank <=> "trust" \in blank', "trust" \in spoiled <=> "trust" \in spoiled',
         \A o \in Operators : o \in Adding \/ o \in Adding' => job'[o] = job[o]
  PROVE  TrustInv'
  <1>1. Adding' = Adding /\ Saving' = Saving
    BY DEF Adding, Saving
  <1>2. \A o \in Adding : job'[o] = job[o]
    BY DEF Adding
  <1>3. StoresCarry'
    BY <1>1, <1>2 DEF TrustInv, StoresCarry
  <1>4. AloneIsAlone'
    BY <1>1, <1>2 DEF TrustInv, AloneIsAlone
  <1>5. WriterHasNoCompany'
    BY <1>1 DEF TrustInv, WriterHasNoCompany
  <1>6. EnrolmentKept'
    BY <1>1 DEF TrustInv, EnrolmentKept
  <1> QED
    BY <1>3, <1>4, <1>5, <1>6 DEF TrustInv

\* When a shell gets its prompt back it adds and saves no more; nothing else about who adds
\* and who saves changes.
LEMMA EndsIdle ==
  ASSUME TypeOK, NEW o \in Operators, Ends(o)
  PROVE  /\ Adding' = Adding \ {o} /\ Saving' = Saving \ {o}
         /\ \A p \in Operators \ {o} : job'[p] = job[p]
  <1>1. \A p \in Operators : job'[p] = IF p = o THEN Idle ELSE job[p]
    BY DEF Ends, TypeOK
  <1>2. Idle.pc = "idle"
    BY DEF Idle
  <1> QED
    BY <1>1, <1>2 DEF Adding, Saving

\* A shell that moves to another stage of its command keeps the rest of its state.
LEMMA GoesOnly ==
  ASSUME TypeOK, NEW o \in Operators, NEW pc, Goes(o, pc)
  PROVE  /\ \A p \in Operators \ {o} : job'[p] = job[p]
         /\ job'[o].pc = pc /\ job'[o].store = job[o].store /\ job'[o].alone = job[o].alone
  BY DEF Goes, TypeOK

\* A shell that has loaded the store knows whether it is alone, and tells all others it is there.
LEMMA LoadsOnly ==
  ASSUME TypeOK, NEW o \in Operators, NEW store, NEW c, Loads(o, store, c)
  PROVE  /\ job'[o].pc = "loaded" /\ job'[o].store = store
         /\ (job'[o].alone <=> Adding = {})
         /\ \A p \in Operators \ {o} :
              /\ job'[p].pc = job[p].pc /\ job'[p].store = job[p].store
              /\ p \in Adding => ~job'[p].alone
  <1> DEFINE new == [pc |-> "loaded", store |-> store, client |-> c, alone |-> Adding = {}]
  <1>1. \A p \in Operators :
          job'[p] = IF p = o THEN new
                    ELSE IF p \in Adding THEN [job[p] EXCEPT !.alone = FALSE] ELSE job[p]
    BY DEF Loads
  <1>2. \A p \in Operators : /\ [job[p] EXCEPT !.alone = FALSE].pc = job[p].pc
                             /\ [job[p] EXCEPT !.alone = FALSE].store = job[p].store
                             /\ [job[p] EXCEPT !.alone = FALSE].alone = FALSE
    BY DEF TypeOK
  <1>3. new.pc = "loaded" /\ new.store = store /\ (new.alone <=> Adding = {})
    OBVIOUS
  <1> HIDE DEF new
  <1> QED
    BY <1>1, <1>2, <1>3

LEMMA TrustStep == TrustInv /\ [Next]_vars => TrustInv'
  <1> SUFFICES ASSUME TrustInv, [Next]_vars PROVE TrustInv'
    OBVIOUS
  <1>type. TypeOK /\ TypeOK'
    BY TypeStep DEF TrustInv
  <1>1. ASSUME NEW o \in Operators, Install(o) PROVE TrustInv'
    <2>1. \A p \in Operators : p \in Adding \/ p \in Adding' => job'[p] = job[p]
      <3>1. CASE UNCHANGED job
        BY <3>1
      <3>2. CASE Goes(o, "absent")
        BY <3>2, <1>1, <1>type, GoesOnly DEF Install, Adding
      <3> QED
        BY <3>1, <3>2, <1>1 DEF Install
    <2> QED
      BY <1>1, <1>type, <2>1, TrustUntouched DEF Install
  <1>2. ASSUME NEW o \in Operators, OpenPolicy(o) PROVE TrustInv'
    <2>1. \A p \in Operators : p \in Adding \/ p \in Adding' => job'[p] = job[p]
      BY <1>2, <1>type, GoesOnly DEF OpenPolicy, Adding
    <2>2. disk'.trust = disk.trust /\ ("trust" \in blank <=> "trust" \in blank')
      BY <1>2, <1>type DEF OpenPolicy, Truncate, TypeOK
    <2> QED
      BY <1>2, <1>type, <2>1, <2>2, TrustUntouched DEF OpenPolicy
  <1>3. ASSUME NEW o \in Operators, WritePolicy(o) PROVE TrustInv'
    <2>1. \A p \in Operators : p \in Adding \/ p \in Adding' => job'[p] = job[p]
      BY <1>3, <1>type, EndsIdle DEF WritePolicy, Adding
    <2>2. disk'.trust = disk.trust /\ ("trust" \in blank <=> "trust" \in blank')
      BY <1>3, <1>type DEF WritePolicy, Fill, TypeOK
    <2> QED
      BY <1>3, <1>type, <2>1, <2>2, TrustUntouched DEF WritePolicy
  <1>4. ASSUME NEW o \in Operators, NEW c \in Enrollees, LoadStore(o, c) PROVE TrustInv'
    <2>1. /\ job'[o].pc = "loaded" /\ job'[o].store = LoadTrust(disk.trust)
          /\ (job'[o].alone <=> Adding = {})
          /\ \A p \in Operators \ {o} :
               /\ job'[p].pc = job[p].pc /\ job'[p].store = job[p].store
               /\ p \in Adding => ~job'[p].alone
      BY <1>4, <1>type, LoadsOnly DEF LoadStore
    <2>3. Adding' = Adding \cup {o} /\ Saving' = Saving
      BY <1>4, <2>1 DEF LoadStore, Adding, Saving
    <2>4. enrolled' = enrolled /\ enrolled \subseteq LoadTrust(disk.trust)
      BY <1>4 DEF LoadStore, TrustInv, EnrolmentKept
    <2>5. StoresCarry'
      BY <2>1, <2>3, <2>4 DEF TrustInv, StoresCarry, Adding
    <2>6. AloneIsAlone'
      BY <2>1, <2>3 DEF TrustInv, AloneIsAlone, Adding
    <2>7. WriterHasNoCompany' /\ EnrolmentKept'
      BY <1>4, <2>3 DEF LoadStore, TrustInv, WriterHasNoCompany, EnrolmentKept
    <2> QED
      BY <1>type, <2>5, <2>6, <2>7 DEF TrustInv
  <1>5. ASSUME NEW o \in Operators, OpenTrust(o) PROVE TrustInv'
    <2>1. CASE dirs["config"] = "alien"
      <3>1. Ends(o) /\ UNCHANGED <<disk, blank, spoiled, enrolled>> /\ o \notin Saving
        BY <1>5, <2>1 DEF OpenTrust, Saving
      <3>2. Adding' = Adding \ {o} /\ Saving' = Saving /\ \A p \in Adding' : job'[p] = job[p]
        BY <3>1, <1>type, EndsIdle DEF Adding
      <3> QED
        BY <1>type, <3>1, <3>2
        DEF TrustInv, StoresCarry, AloneIsAlone, WriterHasNoCompany, EnrolmentKept
    <2>2. CASE dirs["config"] # "alien"
      <3>1. /\ Truncate("trust") /\ Goes(o, "saving") /\ enrolled' = enrolled
            /\ spoiled' = IF Saving = {} THEN spoiled \ {"trust"} ELSE spoiled \cup {"trust"}
        BY <1>5, <2>2 DEF OpenTrust
      <3>2. Saving' = Saving \cup {o} /\ Adding' = Adding
        BY <3>1, <1>5, <1>type, GoesOnly DEF OpenTrust, Saving, Adding
      <3>3. disk'.trust = UnparsableFile /\ "trust" \in blank'
        BY <3>1, <1>type DEF Truncate, TypeOK
      <3>4. \A p \in Adding : job'[p].store = job[p].store /\ job'[p].alone = job[p].alone
        BY <3>1, <1>5, <1>type, GoesOnly DEF Adding
      <3>5. StoresCarry' /\ AloneIsAlone'
        BY <3>1, <3>2, <3>4 DEF TrustInv, StoresCarry, AloneIsAlone
      <3>6. WriterHasNoCompany' /\ EnrolmentKept'
        BY <3>1, <3>2, <3>3 DEF WriterHasNoCompany, EnrolmentKept
      <3> QED
        BY <1>type, <3>5, <3>6 DEF TrustInv
    <2> QED
      BY <2>1, <2>2
  <1>6. ASSUME NEW o \in Operators, WriteTrust(o) PROVE TrustInv'
    <2> DEFINE c == job[o].client
               content == Replaced(job[o].store, c)
    <2>1. /\ o \in Saving /\ o \in Adding /\ c \in Enrollees
          /\ job[o].store \in {s \in SUBSET Enrollees : OneEach(s)}
      BY <1>6, <1>type DEF WriteTrust, Saving, Adding, TypeOK
    <2>2. enrolled' = Without(enrolled, c.id) \cup (IF job[o].alone THEN {c} ELSE {})
      BY <1>6 DEF WriteTrust
    <2>3. enrolled' \subseteq content
      <3>1. enrolled \subseteq job[o].store
        BY <2>1 DEF TrustInv, StoresCarry
      <3> QED
        BY <2>1, <2>2, <3>1, ReplacedIsAStore
    <2>4. content \in SUBSET Enrollees
      BY <2>1, ReplacedIsAStore
    <2>5. Fill("trust", content, FALSE) /\ Ends(o) /\ spoiled' = spoiled
      BY <1>6 DEF WriteTrust
    <2> HIDE DEF content
    <2>6. /\ Adding' = Adding \ {o} /\ Saving' = Saving \ {o}
          /\ \A p \in Adding' : job'[p] = job[p]
      BY <2>5, <1>type, EndsIdle DEF Adding
    <2>7. disk'.trust = content \/ (disk'.trust = UnparsableFile /\ "trust" \notin blank)
      BY <2>5, <1>type DEF Fill, TypeOK
    <2>8. LoadTrust(content) = content /\ content # UnparsableFile
      BY <2>4, StoresAreFiles DEF LoadTrust
    <2>9. StoresCarry'
      <3>1. SUFFICES ASSUME NEW p \in Adding' PROVE enrolled' \subseteq job'[p].store
        BY DEF StoresCarry
      <3>2. ~job[o].alone
        BY <2>1, <2>6, <3>1 DEF TrustInv, AloneIsAlone
      <3> QED
        BY <2>2, <2>6, <3>1, <3>2 DEF TrustInv, StoresCarry, Without
    <2>10. AloneIsAlone'
      BY <2>6 DEF TrustInv, AloneIsAlone
    <2>11. WriterHasNoCompany'
      BY <2>1, <2>5, <2>6 DEF TrustInv, WriterHasNoCompany
    <2>12. EnrolmentKept'
      <3>1. CASE disk'.trust = content
        BY <3>1, <2>3, <2>8 DEF EnrolmentKept
      <3>2. CASE disk'.trust = UnparsableFile /\ "trust" \notin blank
        BY <3>2, <2>1, <2>5 DEF EnrolmentKept, TrustInv, WriterHasNoCompany
      <3> QED
        BY <2>7, <3>1, <3>2
    <2> QED
      BY <1>type, <2>9, <2>10, <2>11, <2>12 DEF TrustInv
  <1>7. ASSUME NEW o \in Operators, Dies(o) PROVE TrustInv'
    <2>1. /\ Ends(o) /\ UNCHANGED <<disk, blank, spoiled, enrolled>> /\ o \notin Saving
      BY <1>7 DEF Dies, Saving
    <2>2. Adding' = Adding \ {o} /\ Saving' = Saving /\ \A p \in Adding' : job'[p] = job[p]
      BY <2>1, <1>type, EndsIdle DEF Adding
    <2> QED
      BY <1>type, <2>1, <2>2
      DEF TrustInv, StoresCarry, AloneIsAlone, WriterHasNoCompany, EnrolmentKept
  <1>8. ASSUME NEW o \in Operators, DiesWriting(o) PROVE TrustInv'
    <2>1. CASE job[o].pc = "creating"
      <3>1. /\ \/ UNCHANGED <<disk, blank>>
               \/ \E content \in {disk.policy, DefaultPolicy} : Fill("policy", content, TRUE)
            /\ spoiled' = spoiled \cup {"policy"} /\ enrolled' = enrolled /\ Ends(o)
        BY <1>8, <2>1 DEF DiesWriting
      <3>2. disk'.trust = disk.trust /\ ("trust" \in blank <=> "trust" \in blank')
        <4>1. CASE UNCHANGED <<disk, blank>>
          BY <4>1
        <4>2. ASSUME NEW content, Fill("policy", content, TRUE)
              PROVE  disk'.trust = disk.trust /\ ("trust" \in blank <=> "trust" \in blank')
          BY <4>2, <1>type DEF Fill, TypeOK
        <4> QED
          BY <3>1, <4>1, <4>2
      <3>3. \A p \in Operators : p \in Adding \/ p \in Adding' => job'[p] = job[p]
        BY <3>1, <2>1, <1>type, EndsIdle DEF Adding
      <3> QED
        BY <1>type, <3>1, <3>2, <3>3, TrustUntouched
    <2>2. CASE job[o].pc = "saving"
      <3> DEFINE c == job[o].client
                 all == Replaced(job[o].store, c)
      <3>1. /\ o \in Adding /\ c \in Enrollees
            /\ job[o].store \in {s \in SUBSET Enrollees : OneEach(s)}
        BY <1>type, <2>2 DEF Adding, TypeOK
      <3>2. /\ \/ UNCHANGED <<disk, blank>>
               \/ \E content \in {UnparsableFile, all} : Fill("trust", content, FALSE)
            /\ spoiled' = spoiled \cup {"trust"} /\ enrolled' = Without(enrolled, c.id) /\ Ends(o)
        BY <1>8, <2>2 DEF DiesWriting
      <3>3. all \in SUBSET Enrollees /\ enrolled' \subseteq all
        <4>1. enrolled \subseteq job[o].store
          BY <3>1 DEF TrustInv, StoresCarry
        <4> QED
          BY <3>1, <3>2, <4>1, ReplacedIsAStore
      <3> HIDE DEF all
      <3>4. disk'.trust \in {disk.trust, UnparsableFile, all}
        <4>1. CASE UNCHANGED <<disk, blank>>
          BY <4>1
        <4>2. ASSUME NEW content \in {UnparsableFile, all}, Fill("trust", content, FALSE)
              PROVE  disk'.trust \in {UnparsableFile, all}
          BY <4>2, <1>type DEF Fill, TypeOK
        <4> QED
          BY <3>2, <4>1, <4>2
      <3>5. Adding' = Adding \ {o} /\ \A p \in Adding' : job'[p] = job[p]
        BY <3>2, <1>type, EndsIdle DEF Adding
      <3>6. enrolled' \subseteq enrolled
        BY <3>2 DEF Without
      <3>7. StoresCarry' /\ AloneIsAlone'
        BY <3>5, <3>6 DEF TrustInv, StoresCarry, AloneIsAlone
      <3>8. WriterHasNoCompany'
        BY <3>2 DEF WriterHasNoCompany
      <3>9. EnrolmentKept'
        <4>1. LoadTrust(all) = all
          BY <3>3, StoresAreFiles DEF LoadTrust
        <4> QED
          BY <3>2, <3>3, <3>4, <3>6, <4>1 DEF EnrolmentKept, TrustInv
      <3> QED
        BY <1>type, <3>7, <3>8, <3>9 DEF TrustInv
    <2> QED
      BY <1>8, <2>1, <2>2 DEF DiesWriting
  <1>9. ASSUME NEW d \in Dirs, UseDir(d) PROVE TrustInv'
    BY <1>9, <1>type, TrustUntouched DEF UseDir
  <1>10. ASSUME NEW f \in {"policy", "trust"}, Remove(f) PROVE TrustInv'
    <2>1. CASE f = "policy"
      <3>1. /\ disk'.trust = disk.trust /\ enrolled' = enrolled /\ job' = job
            /\ ("trust" \in blank <=> "trust" \in blank')
            /\ ("trust" \in spoiled <=> "trust" \in spoiled')
        BY <1>10, <2>1, <1>type DEF Remove, TypeOK
      <3> QED
        BY <1>type, <3>1, TrustUntouched
    <2>2. CASE f = "trust"
      <3>1. disk'.trust = MissingFile /\ enrolled' = {} /\ Adding' = {} /\ Saving' = {}
        BY <1>10, <2>2, <1>type DEF Remove, TypeOK, Adding, Saving
      <3> QED
        BY <1>type, <3>1, StoresAreFiles
        DEF TrustInv, StoresCarry, AloneIsAlone, WriterHasNoCompany, EnrolmentKept
    <2> QED
      BY <2>1, <2>2
  <1>11. ASSUME NEW b \in Brokers, StartBroker(b) PROVE TrustInv'
    BY <1>11, <1>type, TrustUntouched DEF StartBroker
  <1>12. ASSUME PowerLoss PROVE TrustInv'
    <2>1. Adding' = {} /\ Saving' = {}
      BY <1>12 DEF PowerLoss, Adding, Saving, Idle
    <2>2. enrolled' = {} /\ (disk'.trust = UnparsableFile => "trust" \in spoiled')
      BY <1>12 DEF PowerLoss
    <2> QED
      BY <1>type, <2>1, <2>2
      DEF TrustInv, StoresCarry, AloneIsAlone, WriterHasNoCompany, EnrolmentKept
  <1>13. CASE UNCHANGED vars
    BY <1>13, <1>type, TrustUntouched DEF vars
  <1> QED
    BY <1>1, <1>2, <1>3, <1>4, <1>5, <1>6, <1>7, <1>8, <1>9, <1>10, <1>11, <1>12, <1>13 DEF Next

LEMMA TrustInit == Init => TrustInv
  <1> SUFFICES ASSUME Init PROVE TrustInv
    OBVIOUS
  <1>1. Adding = {} /\ Saving = {} /\ enrolled = {} /\ disk.trust = MissingFile
    BY DEF Init, Adding, Saving, Idle
  <1> QED
    BY <1>1, TypeInit, StoresAreFiles
    DEF TrustInv, StoresCarry, AloneIsAlone, WriterHasNoCompany, EnrolmentKept

\* Whoever was enrolled alone stays in the trust file, through any overlap, failure or death of
\* later enrolments, in any number of shells.
THEOREM EnrolmentIsKept == Spec => []EnrolmentKept
  <1>1. TrustInv => EnrolmentKept
    BY DEF TrustInv
  <1> QED
    BY <1>1, TrustInit, TrustStep, PTL DEF Spec

-----------------------------------------------------------------------------
(***************************************************************************)
(* SetupSuffices.                                                          *)
(***************************************************************************)
DirsEnsured == \A d \in Dirs : dirs[d] \in {"private", "theirs"}
Installing == {o \in Operators : job[o].pc \in {"absent", "creating"}}
Creating == {o \in Operators : job[o].pc = "creating"}

\* Once an install has looked at the directories they are what it made of them, and the policy
\* file is there; it is ruined only if an install is at it or was cut short.
PolicyInv ==
  /\ installed \/ Installing # {} => DirsEnsured
  /\ installed => disk.policy # MissingFile
  /\ disk.policy = UnparsableFile => "policy" \in spoiled \/ Creating # {}

\* The default policy passes Validate.
LEMMA DefaultRuleIsValid ==
  ASSUME NEW id, id # None, NEW exe, NEW verified \in BOOLEAN,
         ~verified => exe.abs /\ ~IsShellExecutable(exe),
         NEW argv, \A i \in DOMAIN argv : argv[i].any = FALSE
  PROVE  ValidRule(DefaultRule(id, exe, argv, verified))
  BY DEF ValidRule, DefaultRule, Effects, EffectReadOnly

LEMMA DefaultLoads == LoadPolicy(DefaultPolicy) # None
  <1> DEFINE a1 == <<Exactly("hello")>>
             a2 == <<Exactly("self-test-ok")>>
             a3 == <<>>
             r1 == DefaultRule("dev.echo.hello", EchoPath, a1, FALSE)
             r2 == DefaultRule("dev.echo.self_test", EchoPath, a2, FALSE)
             r3 == DefaultRule("artifact.verified.noargs", NoPath, a3, TRUE)
             p == [DefaultPolicy EXCEPT !.version = IF @ = 0 THEN 1 ELSE @]
  <1>1. /\ r1.id = "dev.echo.hello" /\ r2.id = "dev.echo.self_test"
        /\ r3.id = "artifact.verified.noargs"
    BY DEF DefaultRule
  <1>2. ~IsShellExecutable(EchoPath) /\ EchoPath.abs
    BY DEF IsShellExecutable, EchoPath
  <1>3. /\ \A i \in DOMAIN a1 : a1[i].any = FALSE
        /\ \A i \in DOMAIN a2 : a2[i].any = FALSE
        /\ \A i \in DOMAIN a3 : a3[i].any = FALSE
    BY DEF Exactly
  <1> HIDE DEF a1, a2, a3, r1, r2, r3
  <1>4. DefaultPolicy = [version |-> 1, rules |-> <<r1, r2, r3>>]
    BY DEF DefaultPolicy, a1, a2, a3, r1, r2, r3
  <1>5. r1.id # None /\ r2.id # None /\ r3.id # None
    BY <1>4, DefaultIsAFile
  <1>6. ValidRule(r1) /\ ValidRule(r2) /\ ValidRule(r3)
    <2>1. ValidRule(r1)
      BY <1>1, <1>2, <1>3, <1>5, DefaultRuleIsValid DEF r1
    <2>2. ValidRule(r2)
      BY <1>1, <1>2, <1>3, <1>5, DefaultRuleIsValid DEF r2
    <2>3. ValidRule(r3)
      BY <1>1, <1>3, <1>5, DefaultRuleIsValid DEF r3
    <2> QED
      BY <2>1, <2>2, <2>3
  <1>7. p = DefaultPolicy
    BY <1>4
  <1>8. Validate(DefaultPolicy)
    BY <1>1, <1>4, <1>6 DEF Validate
  <1> QED
    BY <1>7, <1>8, DefaultIsAFile DEF LoadPolicy

\* Actions that leave the policy file and the installs alone and make no directory worse keep
\* PolicyInv.
LEMMA PolicyUntouched ==
  ASSUME TypeOK, PolicyInv, disk'.policy = disk.policy, installed' = installed,
         "policy" \in spoiled => "policy" \in spoiled',
         Installing' \subseteq Installing, Creating \subseteq Creating',
         \A d \in Dirs : dirs'[d] \in {dirs[d], Ensured(dirs[d])}
  PROVE  PolicyInv'
  <1>1. DirsEnsured => DirsEnsured'
    BY DEF DirsEnsured, Ensured
  <1> QED
    BY <1>1 DEF PolicyInv

LEMMA PolicyStep == TypeOK /\ PolicyInv /\ [Next]_vars => PolicyInv'
  <1> SUFFICES ASSUME TypeOK, PolicyInv, [Next]_vars PROVE PolicyInv'
    OBVIOUS
  <1>ends. ASSUME NEW o \in Operators, Ends(o)
           PROVE  Installing' = Installing \ {o} /\ Creating' = Creating \ {o}
    <2>1. \A p \in Operators : job'[p] = IF p = o THEN Idle ELSE job[p]
      BY <1>ends DEF Ends, TypeOK
    <2>2. Idle.pc = "idle"
      BY DEF Idle
    <2> QED
      BY <2>1, <2>2 DEF Installing, Creating
  <1>1. ASSUME NEW o \in Operators, Install(o) PROVE PolicyInv'
    <2>1. DirsEnsured \/ (~\E d \in Dirs : dirs[d] = "alien") => DirsEnsured'
      <3> SUFFICES ASSUME ~\E d \in Dirs : dirs[d] = "alien" PROVE DirsEnsured'
        BY DEF DirsEnsured
      <3>1. \A d \in Dirs : Made(d)
        BY DEF Made, Dirs, DirOrder
      <3>2. \A d \in Dirs : dirs'[d] = Ensured(dirs[d])
        BY <1>1, <3>1 DEF Install, EnsureAll
      <3> QED
        BY <3>2 DEF DirsEnsured, Ensured, TypeOK, DirStates
    <2>2. disk' = disk /\ spoiled' = spoiled
      BY <1>1 DEF Install
    <2>3. CASE UNCHANGED job
      <3>1. Installing' = Installing /\ Creating' = Creating
        BY <2>3 DEF Installing, Creating
      <3>2. installed' => installed \/ (disk.policy # MissingFile /\ ~\E d \in Dirs : dirs[d] = "alien")
        BY <1>1 DEF Install, Goes, TypeOK
      <3> QED
        BY <2>1, <2>2, <3>1, <3>2 DEF PolicyInv
    <2>4. CASE /\ Goes(o, "absent") /\ UNCHANGED installed
               /\ ~\E d \in Dirs : dirs[d] = "alien"
      <3>1. Creating' = Creating
        BY <1>1, <2>4, GoesOnly DEF Install, Creating
      <3> QED
        BY <2>1, <2>2, <2>4, <3>1 DEF PolicyInv
    <2> QED
      BY <1>1, <2>3, <2>4 DEF Install
  <1>2. ASSUME NEW o \in Operators, OpenPolicy(o) PROVE PolicyInv'
    <2>1. disk'.policy = UnparsableFile
      BY <1>2 DEF OpenPolicy, Truncate, TypeOK
    <2>2. o \in Installing /\ o \in Creating'
      BY <1>2, GoesOnly DEF OpenPolicy, Installing, Creating
    <2> QED
      BY <1>2, <2>1, <2>2, StoresAreFiles DEF OpenPolicy, PolicyInv, DirsEnsured
  <1>3. ASSUME NEW o \in Operators, WritePolicy(o) PROVE PolicyInv'
    <2>1. disk'.policy = DefaultPolicy
      BY <1>3 DEF WritePolicy, Fill, TypeOK
    <2>2. o \in Installing
      BY <1>3 DEF WritePolicy, Installing
    <2> QED
      BY <1>3, <2>1, <2>2, DefaultIsAFile DEF WritePolicy, PolicyInv, DirsEnsured
  <1>4. ASSUME NEW o \in Operators, NEW c \in Enrollees, LoadStore(o, c) PROVE PolicyInv'
    <2>1. job'[o].pc = "loaded" /\ \A p \in Operators \ {o} : job'[p].pc = job[p].pc
      BY <1>4, LoadsOnly DEF LoadStore
    <2>3. Installing' = Installing /\ Creating' = Creating
      BY <1>4, <2>1 DEF LoadStore, Installing, Creating
    <2> QED
      BY <1>4, <2>3, PolicyUntouched DEF LoadStore
  <1>5. ASSUME NEW o \in Operators, OpenTrust(o) PROVE PolicyInv'
    <2>1. \A d \in Dirs : dirs'[d] \in {dirs[d], Ensured(dirs[d])}
      BY <1>5 DEF OpenTrust, TypeOK
    <2>2. disk'.policy = disk.policy /\ ("policy" \in spoiled => "policy" \in spoiled')
      BY <1>5 DEF OpenTrust, Truncate, TypeOK
    <2>3. Installing' = Installing /\ Creating' = Creating
      <3>1. CASE Ends(o)
        BY <3>1, <1>5, <1>ends DEF OpenTrust, Installing, Creating
      <3>2. CASE Goes(o, "saving")
        BY <3>2, <1>5, GoesOnly DEF OpenTrust, Installing, Creating
      <3> QED
        BY <3>1, <3>2, <1>5 DEF OpenTrust
    <2> QED
      BY <1>5, <2>1, <2>2, <2>3, PolicyUntouched DEF OpenTrust
  <1>6. ASSUME NEW o \in Operators, WriteTrust(o) PROVE PolicyInv'
    <2>1. Installing' = Installing /\ Creating' = Creating
      BY <1>6, <1>ends DEF WriteTrust, Installing, Creating
    <2>2. disk'.policy = disk.policy
      <3>1. Fill("trust", Replaced(job[o].store, job[o].client), FALSE)
        BY <1>6 DEF WriteTrust
      <3> QED
        BY <3>1 DEF Fill, TypeOK
    <2> QED
      BY <1>6, <2>1, <2>2, PolicyUntouched DEF WriteTrust
  <1>7. ASSUME NEW o \in Operators, Dies(o) PROVE PolicyInv'
    <2>1. Installing' \subseteq Installing /\ Creating' = Creating
      BY <1>7, <1>ends DEF Dies, Creating
    <2> QED
      BY <1>7, <2>1, PolicyUntouched DEF Dies
  <1>8. ASSUME NEW o \in Operators, DiesWriting(o) PROVE PolicyInv'
    <2>1. CASE job[o].pc = "creating"
      <3>1. /\ \/ UNCHANGED <<disk, blank>>
               \/ \E content \in {disk.policy, DefaultPolicy} : Fill("policy", content, TRUE)
            /\ spoiled' = spoiled \cup {"policy"} /\ Ends(o) /\ UNCHANGED <<dirs, installed>>
        BY <1>8, <2>1 DEF DiesWriting
      <3>2. disk'.policy \in {disk.policy, DefaultPolicy}
        BY <3>1 DEF Fill, TypeOK
      <3>3. Installing' \subseteq Installing /\ (DirsEnsured => DirsEnsured')
        BY <3>1, <1>ends DEF DirsEnsured
      <3> QED
        BY <3>1, <3>2, <3>3, DefaultIsAFile DEF PolicyInv
    <2>2. CASE job[o].pc = "saving"
      <3> DEFINE all == Replaced(job[o].store, job[o].client)
      <3>1. /\ \/ UNCHANGED <<disk, blank>>
               \/ \E content \in {UnparsableFile, all} : Fill("trust", content, FALSE)
            /\ spoiled' = spoiled \cup {"trust"} /\ Ends(o) /\ UNCHANGED <<dirs, installed>>
        BY <1>8, <2>2 DEF DiesWriting
      <3> HIDE DEF all
      <3>2. disk'.policy = disk.policy
        BY <3>1 DEF Fill, TypeOK
      <3>3. Installing' = Installing /\ Creating' = Creating
        BY <3>1, <2>2, <1>ends DEF Installing, Creating
      <3> QED
        BY <3>1, <3>2, <3>3, PolicyUntouched
    <2> QED
      BY <1>8, <2>1, <2>2 DEF DiesWriting
  <1>9. ASSUME NEW d \in Dirs, UseDir(d) PROVE PolicyInv'
    <2>1. \A e \in Dirs : dirs'[e] \in {dirs[e], Ensured(dirs[e])}
      BY <1>9 DEF UseDir, TypeOK
    <2> QED
      BY <1>9, <2>1, PolicyUntouched DEF UseDir, Installing, Creating
  <1>10. ASSUME NEW f \in {"policy", "trust"}, Remove(f) PROVE PolicyInv'
    <2>1. Installing' = Installing /\ Creating = {} /\ Creating' = {} /\ dirs' = dirs
      BY <1>10 DEF Remove, Installing, Creating
    <2>2. CASE f = "policy"
      BY <1>10, <2>1, <2>2, StoresAreFiles DEF Remove, TypeOK, PolicyInv, DirsEnsured
    <2>3. CASE f = "trust"
      <3>1. disk'.policy = disk.policy /\ installed' = installed
            /\ ("policy" \in spoiled => "policy" \in spoiled')
        BY <1>10, <2>3 DEF Remove, TypeOK
      <3> QED
        BY <2>1, <3>1, PolicyUntouched
    <2> QED
      BY <2>2, <2>3
  <1>11. ASSUME NEW b \in Brokers, StartBroker(b) PROVE PolicyInv'
    BY <1>11, PolicyUntouched DEF StartBroker, Installing, Creating
  <1>12. ASSUME PowerLoss PROVE PolicyInv'
    <2>1. Installing' = {} /\ ~installed'
      BY <1>12 DEF PowerLoss, Installing, Idle
    <2>2. disk'.policy = UnparsableFile => "policy" \in spoiled'
      BY <1>12 DEF PowerLoss
    <2> QED
      BY <2>1, <2>2 DEF PolicyInv
  <1>13. CASE UNCHANGED vars
    BY <1>13, PolicyUntouched DEF vars, Installing, Creating
  <1> QED
    BY <1>1, <1>2, <1>3, <1>4, <1>5, <1>6, <1>7, <1>8, <1>9, <1>10, <1>11, <1>12, <1>13 DEF Next

LEMMA PolicyInit == Init => PolicyInv
  BY StoresAreFiles DEF Init, PolicyInv, Installing, Idle

LEMMA InvariantsSuffice == TrustInv /\ PolicyInv => SetupSuffices
  <1> SUFFICES ASSUME TrustInv, PolicyInv, installed, spoiled = {}, Saving = {},
                      \A o \in Operators : job[o].pc # "creating",
                      \A d \in Dirs : dirs[d] # "theirs", enrolled # {}
               PROVE  PathsSecure /\ LoadPolicy(disk.policy) # None /\ ~SelfTestFails
    BY DEF SetupSuffices
  <1>1. \A d \in Dirs : dirs[d] = "private"
    BY DEF PolicyInv, DirsEnsured
  <1>2. disk.policy = DefaultPolicy
    BY DEF PolicyInv, Creating, TrustInv, TypeOK, PolicyContents
  <1>3. disk.trust \notin {MissingFile, UnparsableFile}
    BY DEF TrustInv, EnrolmentKept, LoadTrust
  <1> QED
    BY <1>1, <1>2, <1>3, DefaultLoads, DefaultIsAFile DEF PathsSecure, SelfTestFails

\* Whatever the directories were like and however commands overlapped or died, what install and
\* trust add have left is what New and self-test want.
THEOREM SetupIsEnough == Spec => []SetupSuffices
  BY TrustInit, TrustStep, PolicyInit, PolicyStep, TypeInit, TypeStep, InvariantsSuffice, PTL
  DEF Spec

-----------------------------------------------------------------------------
\* What a broker has loaded holds whoever was enrolled when it started.
BootedInv ==
  \A b \in Brokers : /\ booted[b] = None => promised[b] = {}
                     /\ booted[b] # None => promised[b] \subseteq booted[b].clients

LEMMA BootedStep == TrustInv /\ BootedInv /\ [Next]_vars => BootedInv'
  <1> SUFFICES ASSUME TrustInv, BootedInv, [Next]_vars PROVE BootedInv'
    OBVIOUS
  <1>1. CASE UNCHANGED <<booted, promised>>
    BY <1>1 DEF BootedInv
  <1>2. ASSUME NEW b \in Brokers, StartBroker(b) PROVE BootedInv'
    <2> DEFINE config == [rules |-> LoadPolicy(disk.policy).rules,
                          clients |-> LoadTrust(disk.trust)]
    <2>1. /\ booted' = [booted EXCEPT ![b] = config] /\ promised' = [promised EXCEPT ![b] = enrolled]
      BY <1>2 DEF StartBroker
    <2>2. enrolled \subseteq config.clients
      BY <1>2 DEF StartBroker, TrustInv, EnrolmentKept
    <2>3. config # None
      <3>1. disk.policy \in {MissingFile, DefaultPolicy}
        BY <1>2 DEF StartBroker, LoadPolicy, TrustInv, TypeOK, PolicyContents
      <3> QED
        BY <1>2, <3>1, LoadedIsAStore, NoneIsNoConfiguration DEF StartBroker, Configurations, TrustInv
    <2> HIDE DEF config
    <2> QED
      BY <2>1, <2>2, <2>3 DEF BootedInv, TrustInv, TypeOK
  <1> QED
    BY <1>1, <1>2 DEF Next, vars, Install, OpenPolicy, WritePolicy, LoadStore, OpenTrust, WriteTrust,
       Dies, DiesWriting, UseDir, Remove, PowerLoss

\* trust.Match over what a broker has loaded: of the clients with an enrolled id, it knows the one
\* that was enrolled last, and no other.
EnrolledIsKnown ==
  \A b \in Brokers : booted[b] # None =>
    \A c \in promised[b], e \in Enrollees : e.id = c.id =>
      (TrustMatch(booted[b].clients, [client |-> c.id, peer |-> Observed(e)]) <=> e = c)

LEMMA BootedSuffices == TypeOK /\ BootedInv => EnrolledIsKnown
  <1> SUFFICES ASSUME TypeOK, BootedInv, NEW b \in Brokers, booted[b] # None,
                      NEW c \in promised[b], NEW e \in Enrollees, e.id = c.id
               PROVE  TrustMatch(booted[b].clients, [client |-> c.id, peer |-> Observed(e)])
                        <=> e = c
    BY DEF EnrolledIsKnown
  <1> DEFINE clients == booted[b].clients
  <1>1. clients \in SUBSET Enrollees /\ OneEach(clients)
    BY DEF TypeOK, Configurations
  <1>2. c \in clients /\ c \in Enrollees
    BY <1>1 DEF BootedInv
  <1>3. \A d \in clients : TrustedPath(d) = d.path
    BY <1>1, EnrolleesResolved
  <1>4. None \notin {c.id, e.path, e.sha}
    BY <1>2, EnrolleesResolved
  <1>5. e = [id |-> e.id, path |-> e.path, sha |-> e.sha]
        /\ c = [id |-> c.id, path |-> c.path, sha |-> c.sha]
    BY <1>2, EnrolleesResolved
  <1>6. TrustMatch(clients, [client |-> c.id, peer |-> Observed(e)])
          <=> \E d \in clients : d.id = c.id /\ d.path = e.path /\ d.sha = e.sha
    BY <1>3, <1>4 DEF TrustMatch, Observed
  <1>7. \A d \in clients : d.id = c.id => d = c
    BY <1>1, <1>2 DEF OneEach
  <1> HIDE DEF clients
  <1>8. TrustMatch(clients, [client |-> c.id, peer |-> Observed(e)])
          <=> c.path = e.path /\ c.sha = e.sha
    BY <1>2, <1>6, <1>7
  <1>9. c.path = e.path /\ c.sha = e.sha <=> e = c
    BY <1>5
  <1> QED
    BY <1>8, <1>9 DEF clients

-----------------------------------------------------------------------------
\* The rules of the default policy, and that loading it changes nothing of them.
LEMMA DefaultRules ==
  ASSUME NEW i \in 1..3
  PROVE  LET rule == DefaultPolicy.rules[i]
         IN  /\ rule.exe = IF i = 3 THEN NoPath ELSE EchoPath
             /\ rule.argv = IF i = 1 THEN <<Exactly("hello")>>
                            ELSE IF i = 2 THEN <<Exactly("self-test-ok")>> ELSE <<>>
             /\ rule.clients = {"codex", "claude-code", "cursor", "opencode", "local-dev",
                                "test-client"}
             /\ rule.effect = EffectReadOnly /\ rule.approval = "not_required" /\ rule.cwd = {}
  <1>1. /\ DefaultPolicy.rules[1] = DefaultRule("dev.echo.hello", EchoPath, <<Exactly("hello")>>, FALSE)
        /\ DefaultPolicy.rules[2]
             = DefaultRule("dev.echo.self_test", EchoPath, <<Exactly("self-test-ok")>>, FALSE)
        /\ DefaultPolicy.rules[3] = DefaultRule("artifact.verified.noargs", NoPath, <<>>, TRUE)
    BY DEF DefaultPolicy
  <1>2. CASE i = 1
    BY <1>1, <1>2 DEF DefaultRule
  <1>3. CASE i = 2
    BY <1>1, <1>3 DEF DefaultRule
  <1>4. CASE i = 3
    BY <1>1, <1>4 DEF DefaultRule
  <1> QED
    BY <1>2, <1>3, <1>4

LEMMA DefaultHasThreeRules == DOMAIN DefaultPolicy.rules = 1..3
  BY DEF DefaultPolicy

\* process under the default policy: a request that fits it, from a client that is trusted, gets
\* as far as the rules, and the rule for its word lets it through.
LEMMA FittingGetsToTheRules ==
  ASSUME NEW rules, NEW clients, NEW r \in Requests, NEW peer,
         TrustMatch(clients, ApplyObserved(r, peer))
  PROVE  LET req == ApplyObserved(r, peer)
             rule == MatchedRule(rules, <<>>, req)
         IN  Process(rules, clients, <<>>, req)
               = IF rule = None THEN NoRuleRefusal(req) ELSE RuleVerdict(rule, req, {})
  <1> DEFINE req == ApplyObserved(r, peer)
  <1>1. req = [type |-> "run", schema |-> 1, client |-> r.client, peer |-> peer,
               cwd |-> r.cwd, exe |-> EchoPath, argv |-> r.argv, env |-> r.env,
               artifact |-> None, artifactSHA |-> None, reason |-> r.reason]
    <2>1. r = [type |-> "run", schema |-> 1, client |-> r.client, peer |-> [exe |-> None, sha |-> None],
               cwd |-> r.cwd, exe |-> EchoPath, argv |-> r.argv, env |-> r.env,
               artifact |-> None, artifactSHA |-> None, reason |-> r.reason]
      BY RequestsFitTheDefaults
    <2> QED
      BY <2>1 DEF ApplyObserved
  <1>2. /\ r.cwd # None /\ Len(r.argv) = 1 /\ DOMAIN r.argv = {1} /\ r.argv[1] \notin NulWords
        /\ ReasonValid(r.reason, EffectReadOnly)
    <2>1. r.argv \in {<<"hello">>, <<"self-test-ok">>}
      BY RequestsFitTheDefaults
    <2>2. Len(r.argv) = 1 /\ DOMAIN r.argv = {1}
      BY <2>1
    <2> QED
      BY <2>2, RequestsFitTheDefaults
  <1>3. EchoPath.abs = TRUE /\ EchoPath.nul = FALSE /\ EchoPath.base = "echo"
    BY DEF EchoPath
  <1> HIDE DEF req
  <1>4. /\ req.type = "run" /\ req.schema = 1 /\ req.cwd = r.cwd /\ req.exe = EchoPath
        /\ req.argv = r.argv /\ req.artifact = None /\ req.reason = r.reason
    BY <1>1
  <1>5. ShapeRefusal(req) = None
    <2>1. ~\E i \in DOMAIN req.argv : req.argv[i] \in NulWords
      BY <1>2, <1>4
    <2>2. ~(Len(req.argv) > MaxArgv)
      <3>1. Len(req.argv) = 1
        BY <1>2, <1>4
      <3>2. ~(1 > MaxArgv)
        BY DEF MaxArgv
      <3> QED
        BY <3>1, <3>2
    <2>3. req.cwd # None /\ req.exe.abs /\ ~req.exe.nul
      BY <1>2, <1>3, <1>4
    <2> QED
      BY <1>4, <2>1, <2>2, <2>3, Zenon DEF ShapeRefusal
  <1>6. ArtifactRefusal(<<>>, req) = None /\ RisksOf(<<>>, req) = {}
    BY <1>4 DEF ArtifactRefusal, RisksOf
  <1>7. EffectOf(req) = EffectReadOnly
    BY <1>3, <1>4 DEF EffectOf, InferEffect, IsShellExecutable
  <1> QED
    BY <1>2, <1>4, <1>5, <1>6, <1>7 DEF Process, req

LEMMA NoVerdictDistrusts ==
  ASSUME NEW rule, NEW req, NEW risks
  PROVE  /\ NoRuleRefusal(req).decision # "CLIENT_NOT_TRUSTED"
         /\ RuleVerdict(rule, req, risks).decision # "CLIENT_NOT_TRUSTED"
  BY DEF NoRuleRefusal, RuleVerdict, Decline, Execute

LEMMA FittingIsExecuted ==
  ASSUME NEW r \in Requests, NEW peer
  PROVE  LET req == ApplyObserved(r, peer)
             rule == MatchedRule(DefaultPolicy.rules, <<>>, req)
         IN  rule # None /\ RuleVerdict(rule, req, {}).decision = "EXECUTE"
  <1> DEFINE req == ApplyObserved(r, peer)
             rules == DefaultPolicy.rules
             fits == {i \in DOMAIN rules : RuleMatches(rules[i], req, FALSE, {})}
             k == IF r.argv = <<"hello">> THEN 1 ELSE 2
  <1>1. r = [type |-> "run", schema |-> 1, client |-> r.client, peer |-> [exe |-> None, sha |-> None],
             cwd |-> r.cwd, exe |-> EchoPath, argv |-> r.argv, env |-> r.env,
             artifact |-> None, artifactSHA |-> None, reason |-> r.reason]
    BY RequestsFitTheDefaults
  <1>2. /\ req.client = r.client /\ req.exe = EchoPath /\ req.argv = r.argv /\ req.env = r.env
        /\ req.artifact = None
    BY <1>1 DEF ApplyObserved
  <1>3. /\ r.argv \in {<<"hello">>, <<"self-test-ok">>} /\ r.argv[1] \notin MetaWords
        /\ r.client \in {"codex", "claude-code", "cursor", "opencode", "local-dev", "test-client"}
        /\ r.env \cap DangerousKeys = {}
    BY RequestsFitTheDefaults
  <1>4. Len(r.argv) = 1 /\ DOMAIN r.argv = {1} /\ r.argv[1] = IF k = 1 THEN "hello" ELSE "self-test-ok"
    BY <1>3
  <1>5. NoPath # EchoPath /\ ~IsShellExecutable(EchoPath)
    BY DEF NoPath, EchoPath, IsShellExecutable
  <1>6. \A w, x : x # None => (ArgMatches(Exactly(x), w) <=> w = x)
    BY DEF ArgMatches, Exactly
  <1> HIDE DEF req
  <1>7. ASSUME NEW i \in 1..3 PROVE RuleMatches(rules[i], req, FALSE, {}) <=> i = k
    <2>1. CASE i = 3
      BY <2>1, <1>2, <1>5, DefaultRules DEF RuleMatches
    <2>2. CASE i # 3
      <3> DEFINE word == IF i = 1 THEN "hello" ELSE "self-test-ok"
      <3>1. rules[i].argv = <<Exactly(word)>>
        BY <2>2, DefaultRules
      <3>2. Len(rules[i].argv) = 1 /\ DOMAIN rules[i].argv = {1} /\ rules[i].argv[1] = Exactly(word)
        BY <3>1
      <3>3. word # None
        BY DefaultIsAFile
      <3>4. RuleMatches(rules[i], req, FALSE, {}) <=> ArgMatches(Exactly(word), r.argv[1])
        BY <2>2, <3>2, <1>2, <1>3, <1>4, DefaultRules DEF RuleMatches, CwdAllowed
      <3>5. ArgMatches(Exactly(word), r.argv[1]) <=> r.argv[1] = word
        BY <1>6, <3>3
      <3> QED
        <4>1. "hello" # "self-test-ok"
          OBVIOUS
        <4>2. i \in {1, 2} /\ k \in {1, 2}
          BY <2>2
        <4> HIDE DEF k
        <4>3. word = r.argv[1] <=> i = k
          BY <4>1, <4>2, <1>4
        <4> QED
          BY <3>4, <3>5, <4>3
    <2> QED
      BY <2>1, <2>2
  <1>8. k \in 1..3 /\ fits = {k}
    <2>1. k \in 1..3
      OBVIOUS
    <2> HIDE DEF k, rules
    <2>2. DOMAIN rules = 1..3
      BY DefaultHasThreeRules DEF rules
    <2>3. \A i \in 1..3 : RuleMatches(rules[i], req, FALSE, {}) <=> i = k
      BY <1>7
    <2> QED
      BY <2>1, <2>2, <2>3
  <1>9. (CHOOSE i \in fits : \A j \in fits : i <= j) = k
    <2> HIDE DEF k, fits
    <2>1. \A i : (i \in fits /\ \A j \in fits : i <= j) <=> i = k
      BY <1>8
    <2> QED
      BY <2>1
  <1>10. Match(rules, req, FALSE, {}) = rules[k]
    BY <1>8, <1>9 DEF Match
  <1>11. MatchedRule(rules, <<>>, req) = rules[k]
    BY <1>2, <1>10 DEF MatchedRule, RisksOf
  <1> HIDE DEF k
  <1>12. rules[k] # None
    BY <1>8, DefaultIsAFile
  <1>13. /\ rules[k].effect = EffectReadOnly /\ rules[k].approval = "not_required"
    BY <1>8, DefaultRules
  <1>14. EffectOf(req) = EffectReadOnly
    BY <1>2, <1>5 DEF EffectOf, InferEffect, EchoPath
  <1>15. ~ShellDenied(rules[k], req) /\ ~DeniedEnv(rules[k], req)
    BY <1>2, <1>3, <1>4, <1>5 DEF ShellDenied, HasShellMetacharacters, DeniedEnv
  <1>16. RuleVerdict(rules[k], req, {}) = Execute(rules[k])
    BY <1>2, <1>13, <1>14, <1>15 DEF RuleVerdict
  <1> QED
    BY <1>11, <1>12, <1>16 DEF Execute, req

LEMMA KnownIsAdmitted == TypeOK /\ BootedInv => EnrolledIsAdmitted
  <1> SUFFICES ASSUME TypeOK, BootedInv, NEW b \in Brokers, booted[b] # None,
                      NEW c \in promised[b], NEW e \in Enrollees, NEW r \in Requests,
                      e.id = c.id, r.client = c.id
               PROVE  LET verdict == Decide(booted[b].rules, booted[b].clients, <<>>, r,
                                            Observed(e)).decision
                      IN  IF e # c THEN verdict = "CLIENT_NOT_TRUSTED"
                          ELSE /\ verdict # "CLIENT_NOT_TRUSTED"
                               /\ booted[b].rules = DefaultPolicy.rules => verdict = "EXECUTE"
    BY DEF EnrolledIsAdmitted
  <1> DEFINE clients == booted[b].clients
             rules == booted[b].rules
             req == ApplyObserved(r, Observed(e))
  <1>1. TrustMatch(clients, [client |-> c.id, peer |-> Observed(e)]) <=> e = c
    BY BootedSuffices DEF EnrolledIsKnown
  <1>2. r = [type |-> "run", schema |-> 1, client |-> r.client, peer |-> [exe |-> None, sha |-> None],
             cwd |-> r.cwd, exe |-> EchoPath, argv |-> r.argv, env |-> r.env,
             artifact |-> None, artifactSHA |-> None, reason |-> r.reason]
    BY RequestsFitTheDefaults
  <1>3. req.client = c.id /\ req.peer = Observed(e) /\ req.type = "run" /\ req.schema = 1
    BY <1>2 DEF ApplyObserved
  <1>4. TrustMatch(clients, req) <=> e = c
    BY <1>1, <1>3 DEF TrustMatch
  <1>5. ~ClaimDenied(r, Observed(e))
    <2>1. None \notin {e.path, e.sha}
      BY EnrolleesResolved
    <2>2. r.peer.exe = None /\ r.peer.sha = None
      BY <1>2
    <2> QED
      BY <2>1, <2>2 DEF ClaimDenied, Observed
  <1>6. Decide(rules, clients, <<>>, r, Observed(e)) = Process(rules, clients, <<>>, req)
    BY <1>5 DEF Decide
  <1> HIDE DEF req, clients, rules
  <1>7. CASE e # c
    <2>1. Process(rules, clients, <<>>, req) = Decline("CLIENT_NOT_TRUSTED")
      BY <1>3, <1>4, <1>7 DEF Process
    <2> QED
      BY <1>6, <1>7, <2>1 DEF Decline, rules, clients
  <1>8. CASE e = c
    <2> DEFINE rule == MatchedRule(rules, <<>>, req)
    <2>1. Process(rules, clients, <<>>, req)
            = IF rule = None THEN NoRuleRefusal(req) ELSE RuleVerdict(rule, req, {})
      BY <1>4, <1>8, FittingGetsToTheRules DEF req
    <2>2. rules = DefaultPolicy.rules => rule # None /\ RuleVerdict(rule, req, {}).decision = "EXECUTE"
      BY FittingIsExecuted DEF req
    <2> HIDE DEF rule
    <2> QED
      BY <1>6, <1>8, <2>1, <2>2, NoVerdictDistrusts DEF rules, clients
  <1> QED
    BY <1>7, <1>8

\* From the file to the verdict: a broker decides for the binary that was enrolled last before it
\* started and against every other binary of that client, and runs what the default policy is for.
THEOREM EnrolledIsAdmittedByBrokers == Spec => []EnrolledIsAdmitted
  <1>1. Init => BootedInv
    BY DEF Init, BootedInv
  <1> QED
    BY <1>1, TrustInit, TrustStep, TypeInit, TypeStep, BootedStep, KnownIsAdmitted, PTL DEF Spec
=============================================================================
