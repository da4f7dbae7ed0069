-------------------------------- MODULE Setup --------------------------------
(***************************************************************************)
(* What has to be on disk before a broker can serve: `agent-sudo install`, *)
(* `agent-sudo trust add`, and New, which loads what they have written.    *)
(* Commands may run at once, in several shells.                            *)
(*                                                                         *)
(* Both files are written in place by os.WriteFile: the file is truncated, *)
(* then written at offset 0 by whoever has it open, without a lock and     *)
(* without a sync.  AddClient reads, changes and writes the whole file.    *)
(* These are the steps behind EditDisk of Broker.tla.                      *)
(***************************************************************************)
EXTENDS Decision

CONSTANTS
  Operators,    \* the shells in which commands are typed
  Enrollees,    \* the clients, with their hashes, that `trust add` may find
  Brokers,      \* the brokers, each started as often as one likes
  Requests,     \* what enrolled clients ask for
  InitialDirs,  \* what the directories may be like at first
  Root,         \* whether everything runs as root
  MaxFaults     \* bound on deaths, failed writes and power losses

VARIABLES
  disk,      \* the policy and trust files
  blank,     \* the files that have been truncated and hold no bytes yet
  dirs,      \* the directories that must be private
  job,       \* the command that runs in each shell
  booted,    \* the policy and clients each broker has loaded
  faults,    \* how much has gone wrong
  spoiled,   \* history: the files whose last writing was cut short, or had company
  installed, \* history: an install has returned nil since the policy file was last lost
  enrolled,  \* history: the clients whose enrolment returned nil and that nothing has put in doubt
  promised   \* history: enrolled, as it was when each broker loaded its files

vars == <<disk, blank, dirs, job, booted, faults, spoiled, installed, enrolled, promised>>

\* The directories of the default paths, in the order in which install makes them; the audit
\* log lies in the state directory.
DirOrder == <<"run", "config", "state", "artifacts">>
Dirs == {"run", "config", "state", "artifacts"}

\* "loose": the group or others may write; "alien": a symlink or no directory; "theirs": a
\* private directory of another owner.
DirStates == {"missing", "private", "loose", "alien", "theirs"}

\* ClientForPath enrols resolved paths only, and parseTrustAddArgs no empty ones.
ASSUME EnrolleesResolved ==
  \A c \in Enrollees :
    /\ c = [id |-> c.id, path |-> c.path, sha |-> c.sha]
    /\ TrustedPath(c) = c.path /\ None \notin {c.id, c.path, c.sha}
ASSUME StoresAreFiles ==
  MissingFile # UnparsableFile /\ \A s \in SUBSET Enrollees : s \notin {MissingFile, UnparsableFile}
ASSUME SetupBounds == 
  MaxFaults \in Nat /\ InitialDirs \subseteq [Dirs -> DirStates] /\ Root \in BOOLEAN

NoClient == [id |-> None, path |-> None, sha |-> None]
Idle == [pc |-> "idle", store |-> {}, client |-> NoClient, alone |-> TRUE]

\* policy.DefaultPolicy: two commands by their one argument, and every verified artifact.
Exactly(w) == [exact |-> w, enum |-> {}, prefix |-> None, any |-> FALSE]
DefaultRule(id, exe, argv, verified) ==
  [id |-> id, exe |-> exe, argv |-> argv, verified |-> verified,
   clients |-> {"codex", "claude-code", "cursor", "opencode", "local-dev", "test-client"},
   effect |-> EffectReadOnly, approval |-> "not_required", cwd |-> {}, env |-> {},
   allowShell |-> FALSE, allowMeta |-> FALSE, allowAny |-> FALSE, network |-> FALSE,
   hooks |-> FALSE]
EchoPath == [abs |-> TRUE, nul |-> FALSE, base |-> "echo"]
NoPath == [abs |-> FALSE, nul |-> FALSE, base |-> ""]

DefaultPolicy ==
  [version |-> 1,
   rules |-> <<DefaultRule("dev.echo.hello", EchoPath, <<Exactly("hello")>>, FALSE),
               DefaultRule("dev.echo.self_test", EchoPath, <<Exactly("self-test-ok")>>, FALSE),
               DefaultRule("artifact.verified.noargs", NoPath, <<>>, TRUE)>>]

\* A trust file names each client once.
OneEach(clients) == \A c, d \in clients : c.id = d.id => c = d

\* What New can have loaded.
Configurations ==
  [rules : {LoadPolicy(policy).rules : policy \in {MissingFile, DefaultPolicy}},
   clients : {s \in SUBSET Enrollees : OneEach(s)}]

ASSUME NoneIsNoConfiguration == None \notin Configurations

\* What the default policy is for: one of its clients has echo say one of the two words, from
\* anywhere, without an environment that matters and with a reason that will do.
ASSUME RequestsFitTheDefaults ==
  \A r \in Requests :
    /\ r = [type |-> "run", schema |-> 1, client |-> r.client, peer |-> [exe |-> None, sha |-> None],
            cwd |-> r.cwd, exe |-> EchoPath, argv |-> r.argv, env |-> r.env,
            artifact |-> None, artifactSHA |-> None, reason |-> r.reason]
    /\ r.client \in {"codex", "claude-code", "cursor", "opencode", "local-dev", "test-client"}
    /\ r.cwd # None /\ r.env \cap DangerousKeys = {}
    /\ r.argv \in {<<"hello">>, <<"self-test-ok">>} /\ r.argv[1] \notin MetaWords \cup NulWords
    /\ ReasonValid(r.reason, EffectReadOnly)
ASSUME DefaultIsAFile ==
  /\ DefaultPolicy \notin {MissingFile, UnparsableFile, None}
  /\ \A i \in 1..3 : DefaultPolicy.rules[i].id # None /\ DefaultPolicy.rules[i] # None
  /\ None \notin {"hello", "self-test-ok"}

Init ==
  /\ disk = [policy |-> MissingFile, trust |-> MissingFile] /\ blank = {}
  /\ dirs \in InitialDirs
  /\ job = [o \in Operators |-> Idle]
  /\ booted = [b \in Brokers |-> None]
  /\ faults = 0
  /\ spoiled = {} /\ installed = FALSE
  /\ enrolled = {} /\ promised = [b \in Brokers |-> {}]

-----------------------------------------------------------------------------
(***************************************************************************)
(* Directories: fsutil.EnsurePrivateDir, which looks at no owner, and      *)
(* validatePrivilegedBrokerPaths, which looks at everything.               *)
(***************************************************************************)
\* Mutant of Ensured: an existing directory keeps its mode.
EnsuredUnchanged(state) == IF state = "missing" THEN "private" ELSE state

\* What EnsurePrivateDir makes of a directory; it fails for an alien one.
Ensured(state) == IF state \in {"missing", "loose"} THEN "private" ELSE state

\* install makes the directories one by one, up to one that it cannot make.
Made(d) ==
  \E i \in DOMAIN DirOrder : d = DirOrder[i] /\ \A j \in 1..i : dirs[DirOrder[j]] # "alien"

EnsureAll == dirs' = [d \in Dirs |-> IF Made(d) THEN Ensured(dirs[d]) ELSE dirs[d]]

PathsSecure ==
  Root => /\ \A d \in Dirs : dirs[d] = "private"
          /\ MissingFile \notin {disk.policy, disk.trust}

\* Serving makes the run directory private, importing the artifacts' one, and each Append, as
\* well as self-test, that of the audit log.
UseDir(d) ==
  /\ d \in {"run", "state", "artifacts"}
  /\ dirs' = [dirs EXCEPT ![d] = Ensured(@)]
  /\ UNCHANGED <<disk, blank, job, booted, faults, spoiled, installed, enrolled, promised>>

-----------------------------------------------------------------------------
(***************************************************************************)
(* Writing a file in place.                                                *)
(***************************************************************************)
Truncate(f) ==
  /\ disk' = [disk EXCEPT ![f] = UnparsableFile]
  /\ blank' = blank \cup {f}

\* What is written covers what another wrote since the truncation, unless it is shorter.
Fill(f, content, same) ==
  /\ disk' \in {[disk EXCEPT ![f] = result] :
                  result \in {content} \cup (IF f \in blank \/ same THEN {} ELSE {UnparsableFile})}
  /\ blank' = blank \ {f}

Goes(o, pc) == job' = [job EXCEPT ![o].pc = pc]
Ends(o) == job' = [job EXCEPT ![o] = Idle]

-----------------------------------------------------------------------------
(***************************************************************************)
(* agent-sudo install.                                                     *)
(***************************************************************************)
\* It ends here if a directory cannot be made, or with success if there is a policy file.
Install(o) ==
  /\ job[o].pc = "idle"
  /\ EnsureAll
  /\ LET fails == \E d \in Dirs : dirs[d] = "alien"
     IN  IF fails \/ disk.policy # MissingFile
         THEN UNCHANGED job /\ installed' = (installed \/ ~fails)
         ELSE Goes(o, "absent") /\ UNCHANGED installed
  /\ UNCHANGED <<disk, blank, booted, faults, spoiled, enrolled, promised>>

OpenPolicy(o) ==
  /\ job[o].pc = "absent"
  /\ Truncate("policy") /\ Goes(o, "creating")
  /\ UNCHANGED <<dirs, booted, faults, spoiled, installed, enrolled, promised>>

\* Whoever writes the default policy writes the same bytes.
WritePolicy(o) ==
  /\ job[o].pc = "creating"
  /\ Fill("policy", DefaultPolicy, TRUE) /\ Ends(o)
  /\ installed' = TRUE
  /\ UNCHANGED <<dirs, booted, faults, spoiled, enrolled, promised>>

-----------------------------------------------------------------------------
(***************************************************************************)
(* agent-sudo trust add: AddClient.                                        *)
(***************************************************************************)
Adding == {o \in Operators : job[o].pc \in {"loaded", "saving"}}
Saving == {o \in Operators : job[o].pc = "saving"}

Without(clients, id) == {c \in clients : c.id # id}

\* Mutant of Replaced: a client that is enrolled again keeps its old hash.
ReplacedNot(clients, client) ==
  IF \E c \in clients : c.id = client.id THEN clients ELSE clients \cup {client}

\* Mutant of Replaced: the entry with the same id is not looked for.
ReplacedBeside(clients, client) == clients \cup {client}

\* The client takes the place of the one with its id.
Replaced(clients, client) == Without(clients, client.id) \cup {client}

Loads(o, store, client) ==
  job' = [p \in Operators |->
    IF p = o THEN [pc |-> "loaded", store |-> store, client |-> client, alone |-> Adding = {}]
    ELSE IF p \in Adding THEN [job[p] EXCEPT !.alone = FALSE] ELSE job[p]]

\* Mutant of LoadStore: a file that does not parse counts as an empty store.
LoadStoreLenient(o, client) ==
  /\ job[o].pc = "idle"
  /\ Loads(o, IF disk.trust = UnparsableFile THEN {} ELSE LoadTrust(disk.trust), client)
  /\ UNCHANGED <<disk, blank, dirs, booted, faults, spoiled, installed, enrolled, promised>>

\* ClientForPath and Load; AddClient gives up on a file that does not parse.
LoadStore(o, client) ==
  /\ job[o].pc = "idle" /\ disk.trust # UnparsableFile
  /\ Loads(o, LoadTrust(disk.trust), client)
  /\ UNCHANGED <<disk, blank, dirs, booted, faults, spoiled, installed, enrolled, promised>>

\* Save, if it can have the directory, truncates the file.
OpenTrust(o) ==
  /\ job[o].pc = "loaded"
  /\ dirs' = [dirs EXCEPT !["config"] = Ensured(@)]
  /\ IF dirs["config"] = "alien"
     THEN Ends(o) /\ UNCHANGED <<disk, blank, spoiled>>
     ELSE /\ Truncate("trust") /\ Goes(o, "saving")
          /\ spoiled' = IF Saving = {} THEN spoiled \ {"trust"} ELSE spoiled \cup {"trust"}
  /\ UNCHANGED <<booted, faults, installed, enrolled, promised>>

\* What was enrolled at the same time may be lost, and is not claimed.
WriteTrust(o) ==
  LET client == job[o].client
  IN  /\ job[o].pc = "saving"
      /\ Fill("trust", Replaced(job[o].store, client), FALSE) /\ Ends(o)
      /\ enrolled' = Without(enrolled, client.id) \cup (IF job[o].alone THEN {client} ELSE {})
      /\ UNCHANGED <<dirs, booted, faults, spoiled, installed, promised>>

-----------------------------------------------------------------------------
(***************************************************************************)
(* What goes wrong, and what the operator does about it.                   *)
(***************************************************************************)
Fault == faults < MaxFaults /\ faults' = faults + 1

\* A command is killed before it opens its file.
Dies(o) ==
  /\ job[o].pc \in {"absent", "loaded"} /\ Fault
  /\ Ends(o)
  /\ UNCHANGED <<disk, blank, dirs, booted, spoiled, installed, enrolled, promised>>

\* A command is killed, or its write fails, before, amid or after its bytes go out.  The first
\* bytes of a policy over the same bytes change nothing.
DiesWriting(o) ==
  LET f == IF job[o].pc = "creating" THEN "policy" ELSE "trust"
      client == job[o].client
      all == IF f = "policy" THEN DefaultPolicy ELSE Replaced(job[o].store, client)
      some == IF f = "policy" THEN disk.policy ELSE UnparsableFile
  IN  /\ job[o].pc \in {"creating", "saving"} /\ Fault
      /\ Ends(o)
      /\ spoiled' = spoiled \cup {f}
      /\ \/ UNCHANGED <<disk, blank>>
         \/ \E content \in {some, all} : Fill(f, content, f = "policy")
      /\ enrolled' = IF f = "trust" THEN Without(enrolled, client.id) ELSE enrolled
      /\ UNCHANGED <<dirs, booted, installed, promised>>

PolicyContents == {MissingFile, UnparsableFile, DefaultPolicy}
TrustContents == {MissingFile, UnparsableFile} \cup {s \in SUBSET Enrollees : OneEach(s)}

\* Nothing was synced: after a power loss a file may be as it was at any time, or ruined, and
\* nothing is claimed of it.
PowerLoss ==
  /\ Fault
  /\ disk' \in [policy : PolicyContents, trust : TrustContents]
  /\ blank' = {}
  /\ job' = [o \in Operators |-> Idle]
  /\ spoiled' = {f \in {"policy", "trust"} : disk'[f] = UnparsableFile}
  /\ installed' = FALSE /\ enrolled' = {}
  /\ UNCHANGED <<dirs, booted, promised>>

\* Nothing in the code mends a file that does not parse: the operator removes it.
Remove(f) ==
  /\ disk[f] = UnparsableFile /\ \A o \in Operators : job[o].pc = "idle"
  /\ disk' = [disk EXCEPT ![f] = MissingFile]
  /\ blank' = blank \ {f} /\ spoiled' = spoiled \ {f}
  /\ installed' = (installed /\ f # "policy")
  /\ enrolled' = IF f = "trust" THEN {} ELSE enrolled
  /\ UNCHANGED <<dirs, job, booted, faults, promised>>

-----------------------------------------------------------------------------
\* New, which checks the paths first if it runs as root.
StartBroker(b) ==
  /\ PathsSecure
  /\ LoadPolicy(disk.policy) # None /\ disk.trust # UnparsableFile
  /\ booted' = [booted EXCEPT ![b] = [rules |-> LoadPolicy(disk.policy).rules,
                                      clients |-> LoadTrust(disk.trust)]]
  /\ promised' = [promised EXCEPT ![b] = enrolled]
  /\ UNCHANGED <<disk, blank, dirs, job, faults, spoiled, installed, enrolled>>

Next ==
  \/ \E o \in Operators :
       \/ Install(o) \/ OpenPolicy(o) \/ WritePolicy(o)
       \/ \E client \in Enrollees : LoadStore(o, client)
       \/ OpenTrust(o) \/ WriteTrust(o)
       \/ Dies(o) \/ DiesWriting(o)
  \/ \E d \in Dirs : UseDir(d)
  \/ \E f \in {"policy", "trust"} : Remove(f)
  \/ \E b \in Brokers : StartBroker(b)
  \/ PowerLoss

\* Nobody has to type a command: there is no fairness to assume.
Spec == Init /\ [][Next]_vars

-----------------------------------------------------------------------------
\* What self-test reports as FAIL of directories and files.  A socket that does not answer and
\* a sudo without a password are warnings.
SelfTestFails ==
  \/ \E d \in Dirs : dirs[d] \in {"missing", "loose", "alien"}
  \/ LoadPolicy(disk.policy) = None
  \/ disk.trust = UnparsableFile

\* Type invariant; a trust file holds one client of each id.
TypeOK ==
  /\ disk \in [policy : PolicyContents, trust : TrustContents]
  /\ blank \subseteq {"policy", "trust"} /\ spoiled \subseteq {"policy", "trust"}
  /\ dirs \in [Dirs -> DirStates]
  /\ job \in [Operators -> [pc : {"idle", "absent", "creating", "loaded", "saving"},
                            store : {s \in SUBSET Enrollees : OneEach(s)}, client : Enrollees \cup {NoClient},
                            alone : BOOLEAN]]
  /\ \A o \in Operators : job[o].pc \in {"loaded", "saving"} => job[o].client \in Enrollees
  /\ faults \in 0..MaxFaults /\ installed \in BOOLEAN
  /\ enrolled \subseteq Enrollees /\ promised \in [Brokers -> SUBSET Enrollees]
  /\ booted \in [Brokers -> Configurations \cup {None}]

\* AddClient keeps its word: who was enrolled without another enrolment at the same time stays
\* in the trust file, whatever overlapping, failing or dying enrolments follow, as long as the
\* file parses; and if it does not, its last writing was cut short or had company.
EnrolmentKept ==
  /\ disk.trust # UnparsableFile => enrolled \subseteq LoadTrust(disk.trust)
  /\ disk.trust = UnparsableFile => "trust" \in spoiled \/ Saving # {}

\* What install and trust add leave is what New wants: once both have returned, whatever modes
\* the directories had and however installs overlapped, a broker starts, as root too, and
\* self-test finds nothing to fail.  Another owner's directory is beyond them.
SetupSuffices ==
  /\ installed /\ spoiled = {} /\ Saving = {}
  /\ \A o \in Operators : job[o].pc # "creating"
  /\ \A d \in Dirs : dirs[d] # "theirs"
  /\ enrolled # {}
  => (\A b \in Brokers : PathsSecure /\ LoadPolicy(disk.policy) # None) /\ ~SelfTestFails

Observed(c) == [exe |-> c.path, sha |-> c.sha]

\* From the file to the verdict: a broker that was started after an enrolment had returned knows
\* the client by the path and hash of that enrolment and by no earlier one, and under the default
\* policy runs what the policy is for.
EnrolledIsAdmitted ==
  \A b \in Brokers : booted[b] # None =>
    \A c \in promised[b], e \in Enrollees, r \in Requests :
      e.id = c.id /\ r.client = c.id =>
        LET verdict == Decide(booted[b].rules, booted[b].clients, <<>>, r, Observed(e)).decision
        IN  IF e # c THEN verdict = "CLIENT_NOT_TRUSTED"
            ELSE /\ verdict # "CLIENT_NOT_TRUSTED"
                 /\ booted[b].rules = DefaultPolicy.rules => verdict = "EXECUTE"
=============================================================================
