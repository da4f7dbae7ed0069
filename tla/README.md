# agent-sudo: specifications and proofs

agent-sudo is a broker that runs privileged commands on behalf of agents. An
agent sends a request over a Unix socket; the broker checks who is asking, what
is asked and why, matches it against a policy, runs the command without a
shell, writes an audit record and answers. This directory holds TLA+ modules
translated from the Go source, TLC configurations that check them, and TLAPS
proofs.

## 1. Inventory

| Component | State | Operations | Hard behaviour | What makes it correct |
|---|---|---|---|---|
| Broker (`internal/broker/broker.go`) | policy, trust and artifact store loaded once; listener; one goroutine per connection | `New`, `ServeWithOptions`, `handleConn`, `ProcessWithPeer`, `process`, `execute` | concurrent handlers, overlapping brokers, death in the middle of a request | every success is recorded; refused means not run; verdict by the broker's own policy |
| Policy (`internal/policy`) | none after loading | `LoadPolicy`, `Validate`, `Match`, `InferEffect`, `ValidateReason`, `DeniedEnv` | order of checks, first match, boundaries, retry after `REASON_INVALID` | a command runs exactly if all requirements hold |
| Trust (`internal/trust`) | trusted clients file | `Load`, `Save`, `AddClient`, `Match` | unlocked read-change-write, save in place, death between truncation and write | who was enrolled stays enrolled, with the last hash; a file that does not parse is not written over |
| Peer (`internal/peer`) | none | `Observe`, `ApplyObserved` | unobservable peer | a claim never overrides what was observed |
| Audit (`internal/audit`) | log file, mutex and sequence counter per logger | `Append`, `Tail`, `Show`, `Capture.Write` | concurrent appends, short writes, crashes, power loss, several loggers on one file | nil means durable; numbers ordered; append only; exact captures |
| Execution (`execute` with `os/exec`) | process group, deadline, watcher and copier goroutines, pipe | `Start`, `Wait`, `Cancel` | deadline against exit, background processes that hold the pipe | the exit code and output reported are what happened |
| Artifacts (`internal/artifact`) | objects and metadata on disk | `Import`, `Fetch`, `StoreContent`, `Verify` | crash between object and metadata, changed objects, id collisions | what verifies is what was imported |
| Socket path checks (`path_security.go`) | modes and owners of directories and files | `validatePrivilegedBrokerPaths`, `validateSecurePath` | directories made by one command and judged by another | what `install` leaves is what they accept |
| Client (`client.go`) | none | `FillClientMetadata`, `Send` | a dial without a later deadline, a listener that goes away | `Send` returns; no answer is made up |
| fsutil (`internal/fsutil`) | modes of directories | `EnsurePrivateDir`, `CanonicalPath`, `SHA256File` | looks at no owner | private directories |
| cli (`internal/cli`) | none of its own | `install`, `trust add`, `run`, `artifact`, `audit`, `broker serve` | commands at once in several shells | `install` and `trust add` are enough for a broker to start |
| selftest (`internal/selftest`) | none | `Run` | it makes a directory private on the way | fails nothing after a good set-up |
| config (`internal/config`) | none | paths from the environment | none | pure functions |
| Root smoke supervisor (`devtools/root_smoke.go`) | `cancel`, `done`, sockets | `start`, `stop`, `restart`, `status` | restart and stop at once, stale socket, timeout of a stop | no broker out of reach of a stop; a stop leaves nothing |
| launchd development install (`devtools/launchd_dev.go`) | tree, marker, plist, service | `install`, `uninstall`, cleanup | steps that fail or crash in between | nothing foreign is removed; it can always be cleaned up |

Interaction: `cli` creates a `Broker`, which reads the policy and trust files
once (`New`) and owns a `Logger`. Each connection's handler calls
`peer.Observe`, decodes, calls `ProcessWithPeer`, which runs `process` (policy,
trust, artifacts), possibly `execute`, then `Logger.Append`, then encodes the
reply. Handlers share only the logger's mutex and the log file; several brokers
share the log file, the socket path and the files of policy and trust. A
listener that starts removes whatever is at the path, and one that closes
unlinks the path, whoever listens there by then. `install` and `trust add` write
the files that the next `New` reads.

`PROJECT.json` lists the components with their status, every hazard at its line,
and for each definition the lines it translates.

## 2. Modules

| Module | Models | State and actions |
|---|---|---|
| `Policy` | `internal/policy` | operators only; strings are members of small sets and carry the facts the code finds out about them |
| `Decision` | `process`, `ApplyObserved`, `trust.Load` and `Match`, the use of `Verify` | the early returns of `process` in their order, ending in a refusal, a pong or `EXECUTE` |
| `Adjudication`, `MCAdjudication` | an agent that asks and asks again | `Start` loads a policy, `FirstSubmission` and `Resubmit` call `Decide`; the reference is `MayRun` and, for what is refused, `Objections(stage)`: sets of answers, one per stage of `process` |
| `Adjudication_proofs` | - | theorems about `Policy`, `Decision` and `Adjudication` |
| `AuditLog`, `MCAuditLog` | `Logger.Append`, the lines `Show` can parse, crashes | `file` and `synced` are the log file and its durable part; `holder` and `seq` are `Logger.mu` and `Logger.seq`; one action per step of `Append` |
| `AuditLog_proofs` | - | theorems about `AuditLog` |
| `Execution`, `MCExecution` | one call of `execute` with os/exec | `pc` is the handler, `watcher` and the `Copy` action the goroutines of os/exec, `child` and `background` the command and a process it has started, `outside` those of them that have left the group (`Leave`), which `SignalGroup` does not reach |
| `Execution_proofs` | - | theorems about `Execution` |
| `BrokeredExecution` | abstract | what a broker promises of each request |
| `Broker`, `MCBroker` | `Send`, `New`, `ServeWithOptions`, `handleConn`, `ProcessWithPeer` | composes `Decision` and `AuditLog`: each connection's handler is a caller of `Append`; `Dial` goes to whoever listens at the `socket` path; `Exit` and `PowerOff` break connections and take handlers, listeners and, with the power, commands along |
| `Broker_proofs` | - | theorems about `Broker`, on top of those about `AuditLog`; the refinement of `BrokeredExecution` |
| `Setup`, `MCSetup` | `install`, `trust add` (`AddClient`, `Save`), `SaveDefaultPolicy`, `DefaultPolicy`, `EnsurePrivateDir`, the path checks, `New`, the failures of `self-test` | `job` is the command that runs in each shell, one action per step between reading, truncating and writing a file; `dirs` are the directories; the steps behind `Broker`'s `EditDisk` |
| `Setup_proofs` | - | theorems about `Setup` |
| `ArtifactStore`, `MCArtifactStore` | `Import`, `Fetch`, `StoreContent`, `Verify` and the way from `Verify` to the start of the command | `objects` and `meta` are the two directories; one action per step that a crash or another process can come between: the check for the object, its rename, the truncation and the writing of the metadata, the reading of both, the start |
| `ArtifactStore_proofs` | - | theorems about `ArtifactStore` |
| `Supervisor`, `MCSupervisor` | the root smoke supervisor: `start`, `stop`, `restart`, `status`, `tamper-artifact`, control handlers, main's end, the broker goroutines it starts and requests in flight | `mu` is the mutex, `tracked` the broker that `cancel` and `done` belong to, `call` what main and each handler are doing; `brokers` and `socket` follow `ServeWithOptions`, whose path is unlinked by name; `tree` is the disposable tree, which `Write` makes again and whose removal may fail (`RemoveFails`) |
| `Supervisor_proofs` | - | theorems about `Supervisor` |
| `LaunchdDev`, `MCLaunchdDev` | `launchd-dev install`, `check`, `uninstall` and the supervisor's cycle | `tree` is what lies under the root (the marker among it), `plist` what its text looks like, `loaded` and `brokers` launchd; one action per step that a kill, a failure or another command can come between; a broker's `Listen` binds the socket and its `Secure` sets owner and mode |
| `LaunchdDev_proofs` | - | theorems about `LaunchdDev` |

`Broker` implements `BrokeredExecution`: the ledger is the set of whole records
in the synced part of the file, the answer is the response the handler has
built, the command is the command.

`Setup` ends where `Broker` begins: its `StartBroker` is `Broker`'s `New` with
the checks of paths that root makes first, and its `EnrolledIsAdmitted` goes on
from there to the verdict of `Decide`.

`Supervisor` and `LaunchdDev` each have brokers of their own, reduced to the
life of the listener and its path: what a request is answered is the matter of
`Broker`. A terminal's launchd command is a process of its own, a handler's runs
in the supervisor under `launchdMu`.

External behaviour (os/exec's watcher and copier, the command itself, write(2)
cut short, death of a process, power loss, the operator's edits) is modelled
from how the code uses it and is marked external in the map.

## 3. Runs

| Run | Bounds | States | What it shows |
|---|---|---|---|
| `adjudication` | 9 good and 5 bad rules alone and in pairs, 165 commands, 3 peers, 9 reasons | 163,419 | `DecisionIsReference`: what is executed meets every requirement of a reference without order, and what is refused is answered with an objection of the first stage that has one. `ReasonCanBeMended`, `RefusalStands`: what a refusal promises of another attempt is true |
| `audit_log` | 2 callers, 2 loggers, 2 calls each, 2 faults | 78,424 | `AckedDurable`, `SequenceGrows`, `AppendOnly`, `OneLossPerFault`, `AppendReturns` |
| `execution` | output 0..3 around a limit of 2, exit codes 0, 3, 124, signals, a background process that may leave the group | 7,738 | `ZeroMeansSuccess`, `TimeoutIsReal`, `CaptureExact`, `ReturnsOrIsHeld` |
| `broker` | 2 connections, 2 brokers that share the socket path, 1 fault, the client enrolled or not | 1,319,628 | `ApprovedIsRecorded`, `RecordIsTrue`, `RunsByOwnPolicy`, `ImplementsBrokeredExecution` |
| `broker_live` | 2 connections, 1 broker, 1 fault | 72,036 | `SendReturns` |
| `artifact_store` | 3 writers, 1 runner, a harmless and a risky artifact with the same id, 2 faults | 391,974 | `ObjectsAreWhole`, `RunsWhatWasAsked`, `RetryMends` |
| `supervisor` | 2 connections with one command or request each, 3 brokers, any number of failures and late deadlines | 300,551 | `NoStrayBroker`, `TrackedIsReachable`, `SerialRestartSucceeds`, `LeavesNothing`, `CommandAnswered`, `SupervisorStops`, `CancelledEnds` |
| `launchd` | 1 terminal, 2 handlers, 3 commands, 2 faults, 2 brokers | 4,035,369 | `NothingForeignGoes`, `InstallRepairs`, `RemovedIsGone` |
| `setup` | 2 shells, 2 clients and a replaced binary of one, 1 broker as often as one likes, run as root, 2 faults, 4 layouts of directories | 1,035,470 | `EnrolmentKept`, `SetupSuffices`, `EnrolledIsAdmitted` |
| `conflicting_rules` | as `adjudication` | violated | `SafestRuleWins`: of two rules that fit, the first decides and not the safest |
| `timeout_group` | as `execution`, without output | violated | `TimeoutEndsTheGroup`: a command that ends by itself leaves its group alive, though it is reported as timed out |
| `concurrent_stores` | 2 writers of one artifact | violated | `ConcurrentStoresVerify`: two stores at once tear the metadata |

The last three are places where the code does not do what its comments or
documents say; `findings` quotes them.

Why the bounds are enough: in `adjudication` each early return of `process` has
a request that only it refuses and each field of a rule a pair of rules that
differ in it. Two callers are what it takes for an interleaving inside `Append`,
two loggers for a restart or an overlap, two faults for a torn line followed by
a crash. An output limit of two bytes has sizes below, at and above it and chunks
that straddle it. Two brokers, two connections and one fault cover a restart
during a request and a second request on either broker. In `artifact_store` two
writers interleave while the third comes in a retry after a crash, the shared id
makes every second store a collision, and the second fault is an outside edit or
another crash. In `supervisor` two connections are every pair of overlapping commands and requests,
and either may also overlap main's end; each can start one broker, so that three
exist at most. In `launchd` three commands are a fault, what it leaves and a
second command on that, with the third to overlap any of them; the second fault
is one during the clean-up of the first. Two brokers are that of the first install and
that of its repair; with a third, for which the run takes twice as long (6,762,710
states), nothing else is found. In `setup` two shells are every overlap of
two commands, the replaced binary is the case of an older enrolment coming back,
two faults are a torn write and another during its repair, and each layout has
a directory in a state that one of the checks refuses. The bounds are the constants
`MaxLogger`, `MaxSeq`, `MaxFaults`, `MaxOutput`, `MaxChunk`, `MaxCommands` and
`MaxBrokers`; the proofs do not depend on them.

What the properties except, and what the model shows there:

- `DecisionIsReference` takes `Policy.Match` at its word: of the rules that fit, the
  first in the file counts. `docs/testcases.md` (AS-POL-018) wants the safest to
  win and the conflict to be audited, which `SafestRuleWins` shows not to be so:
  a rule for any argument in front of one that asks for a review waives the
  review. AS-POL-011 and AS-POL-012 (and `docs/broker-design.md:242-250`) want
  approval for destructive and shell commands; the code leaves this to the rule
  that fits, which may say `approval: not_required`, and the run has such rules.
- `OneLossPerFault` allows the one loss: after a `Write` that was cut short the file
  ends in half a line, the next `Append` does not notice and continues it, and
  its record, though synced and acknowledged, cannot be shown. `audit.go:1-2`
  calls the log crash-safe, and `docs/broker-design.md:659` asks for records that stay
  parseable after crashes: this holds of all records but that one. It says nothing of
  lines over 64 KiB, at which the scanner of `Show` stops.
- `ImplementsBrokeredExecution` allows commands that nobody has recorded: the one
  record of a request is appended after `execute` has returned (broker.go:188), so
  a broker that is killed while its command runs leaves none, although AS-AUD-008
  (`docs/testcases.md:144`) asks for an audit that indicates the interrupted request.
  `BrokeredExecution` says what is promised of them all the same: the client is never
  told that such a request succeeded or was refused.
- `EnrolmentKept` claims nothing of enrolments that overlap: each rewrites the
  file from what it has read, so that one is lost or an old hash comes back
  (trust.go:63). `EnrolmentKept` is about those that ran alone, through whatever
  overlaps later.
- `SetupSuffices` excepts a directory of another owner, which `EnsurePrivateDir`
  accepts and root's broker does not, and files whose last writing was cut
  short: nothing mends them, and `install` says "Initialized" of a policy
  file that does not load (policy.go:109). `Remove` is the operator's mending.
- `ReturnsOrIsHeld` excepts what `Held` names, a process that no kill hits. Either the
  command ends and leaves a process in the background that keeps its output open:
  the group is killed by the deadline only while the command runs; once it has
  ended, os/exec's watcher is gone, and nothing ends the wait for the pipe. Or a
  process has left the group by `setsid` or `setpgid` (`Leave`): `signalGroup`
  does not reach it, and if it is the command itself, or keeps the pipe, `execute`
  waits for it after the kill.
- `TimeoutIsReal` says of a killed command that nothing of its group lives, and of a
  timeout only that the deadline has passed. That the group is gone after every
  timeout, as broker.go:349-351 and AS-SEC-011 have it, is violated: see
  `TimeoutEndsTheGroup`.
- `SendReturns` excepts what `ReturnsOrIsHeld` does, and peers that connect and
  write nothing: `handleConn` waits for them for ever.
- `TrackedIsReachable` and `SerialRestartSucceeds` speak of commands that do not
  overlap. Two restarts at once can leave a tracked broker whose socket the end
  of another has unlinked, while `status` says "root-smoke broker running"
  (root_smoke.go:612).
- `LeavesNothing` excepts a removal that fails (`RemoveFails`): main then returns the
  error and leaves the tree (root_smoke.go:527-529). It also excepts connections that
  write to the tree while its last directory goes, or later: main waits for neither a
  `tamper-artifact` command (root_smoke.go:681) nor a request that a broker's
  `handleConn` is still at (broker.go:148), and both make the directories they write
  to. Neither exception assumes anything of the code: `trouble` records what
  happened, and without either TLC finds the tree left.
- `InstallRepairs` excepts an install whose check comes between the bind and the chmod
  of its own broker (`CheckTooEarly`): `waitForLaunchdDevSocket` waits for the name of
  the socket only (launchd_dev.go:708), and `verifyLaunchdDevOwnership` then finds
  neither group nor mode (launchd_dev.go:985). Such an install fails though nothing has
  gone wrong; `RemovedIsGone` covers the clean-up that follows. It excepts a root
  without its marker and a cut plist, which the code refuses as foreign: a kill between two steps leaves them, and so does
  `check` where nothing is installed: it stores its artifact first and so makes
  the root (`Check`). It also excepts a broker that is alive without a socket: the wait
  of `stopLaunchdDev` does not see it, and it unlinks the next one's path when it ends.
- `InstallRepairs` and `RemovedIsGone` are about the brokers' life as `Listen`, `Secure`,
  `Close` and `Exit` have it. A request in flight in a broker that ends, whose
  `Append` might remake a directory of an uninstalled tree, is in `Supervisor`
  (`Request`) and not in `LaunchdDev`.
- `RemovedIsGone` allows a failed install that says "cleaned up dev service" to
  leave an unmarked root or a cut plist, for it does so if the marker or the
  plist is what could not be written.

Deadlock is not checked where a system may come to rest: all loggers dead, a
finished call of `execute`, no client left, no command to come.

## 4. Fairness

- `AuditLog`: a goroutine inside `Append` goes on (weak fairness of each step).
  `Acquire` is strongly fair: Go's mutex hands itself to a waiter that has waited
  for a millisecond.
- `Execution`: every goroutine of the broker that can go on does, the deadline
  comes, and nothing is assumed of the command, which may run for ever.
- `Broker`: handlers go on, the accept loop among them; clients, operators and
  commands owe nothing. `SendReturns` therefore excepts a command that never
  ends, and `ReturnsOrIsHeld` says which those are.
- `Supervisor`: goroutines go on, nobody has to give a command and no call has
  to fail. Each goroutine takes finitely many steps, so that weak fairness of
  all of them together (`GoesOn`) is fairness of each. `waitForSocket` and the
  wait of `stop` end because their deadlines may come at any time.
- `Adjudication`, `ArtifactStore` and `Setup` have no fairness and no liveness
  property: nobody has to type a command.
- `LaunchdDev` has no liveness property: each command is a finite sequence of
  steps with deadlines.

## 5. Proofs

`AuditLog_proofs` proves, for any set of callers and entries and any bounds
that satisfy `AuditBounds`:

- `LogTypeCorrect`: `LogSpec => []LogTypeOK`
- `AcknowledgedIsDurable`: `LogSpec => []AckedDurable`
- `SequenceIsStrict`: `LogSpec => []SequenceGrows`
- `StorageIsAppendOnly`: `LogSpec => AppendOnly`
- `LossesAreBounded`: `LogSpec => []OneLossPerFault`
- `MutexIsAtWork`: `LogSpec => []HolderWorks`, on which `AppendReturns` rests

None of these is inductive alone. `LogInv` adds: a caller inside `Append` holds
its logger's mutex (`InsideHolds`), a call in progress has its event
(`CallsAreFilled`), no number in the file or in a call exceeds the logger's
counter (`NumbersAreGiven`), a caller about to write has a number larger than
all of its logger's in the file (`WriterIsAhead`), and a caller about to sync
has its whole record in the file (`SyncerHasWritten`). The mutex gives
exclusion; exclusion makes a new number larger than all others; and a record
that is in the file at `Sync` is durable when `Sync` returns, since crashes keep
the synced prefix. `DamageInv` counts: a piece that is not a whole line was cut
by a fault, and a fault cuts one piece. Each acknowledged record that cannot be
read comes right after such a piece, and no two after the same one, so that this
injection bounds their number by that of the faults. `HolderWorks` says that
whoever holds a mutex is inside `Append` of that logger, whatever fails or is
killed.

`ArtifactStore_proofs` proves, for any writers, runners, artifacts, ids (shared
or not) and number of faults, from `StoreConstants`:

- `StoreTypeCorrect`: `StoreSpec => []StoreTypeOK`
- `StoredObjectsAreWhole`: `StoreSpec => []ObjectsAreWhole`
- `ArtifactRunIsTheOneAsked`: `StoreSpec => []RunsWhatWasAsked`
- `RetriesMend`: `StoreSpec => []RetryMends`, with `NoFileIsNoMetadata` (an id
  under which there is no file has no metadata)

`StoreInv` adds to them: the flags in a record are those of its content
(`RisksTravel`), a request in progress knows what it asks for (`RunsInOrder`), a
call under way knows its content (`CallsHaveContent`), and what a runner is about
to start is intact or known not to be (`StartsWhatWasAsked`). The argument for
the window between `Verify` and the start is that a rename puts an object's own
content in its place, so that no writer can change what has been verified.
`LoneInv` follows a call that is alone with its id from its first step to its
return: what it has done is still there, since only an active call for an id
changes that id's metadata. It says nothing of what the call has found, which is
why the theorem holds after any crashes and failed calls.

`Supervisor_proofs` proves, for any number of control connections, from
`SupervisorConstants`:

- `SupervisorTypeCorrect`: `Spec => []TypeOK`
- `NoBrokerStrays`: `Spec => []NoStrayBroker`
- `TrackedIsReached`: `Spec => []TrackedIsReachable`
- `RestartsSucceed`: `Spec => []SerialRestartSucceeds`
- `NothingIsLeft`: `Spec => []LeavesNothing`
- `NobodyIsHeldUp`: `Spec => []SomebodyIsFree`, and `EveryStepLeadsOn`:
  `Spec => [][StepsLeadOn]_vars`, on which the liveness properties rest

`start` assigns `cancel` and `done` without looking at them again. `SupervisorInv`
says why nothing is lost by that: whoever has passed the check of `cancel` holds
the mutex (`StarterHoldsMutex`), and while somebody waits for a new broker none is
tracked (`WaiterIsAlone`). `stop` forgets a broker before it cancels it, but then
the broker is the one its caller is about to cancel.

What clients reach depends on the socket path, which nobody owns: each listener
that closes unlinks it by name. `SerialInv` follows it in two layers. `Orderly`,
while commands do not overlap and no deadline passes: at most one broker lives,
the tracked one or the one that the command under way has to do with, and the path is
its own from `opening` to `accepting` and gone before and after. `NothingIsLeft`
follows from it: the tree is gone when main leaves, unless the removal failed, and nobody
is writing then, or `trouble` says so. `Smooth`, if no call fails either: the tracked broker serves until a
stop cancels it, and a restart that has got as far as its answer has one that
serves. `TrackedIsReached` and `RestartsSucceed` follow from both.

`LaunchdDev_proofs` proves, for any terminals, handlers, numbers of commands,
brokers and faults, from `LaunchdConstants`:

- `LaunchdTypes`: `Spec => []TypeOK`
- `ForeignFilesStay`: `Spec => NothingForeignGoes`
- `InstallsRepair`: `Spec => []InstallRepairs`
- `UninstallsRemove`: `Spec => []RemovedIsGone`

For `ForeignFilesStay` the checks for the marker and for the plist's text come some
steps before what they guard. `ForeignInv` carries them there: a tree of others
has no marker and nobody is erasing, making or marking it (`TheirsUnmarked`),
nobody writes over a foreign plist (`ForeignUnwritten`). The assumption is that
others put their files there while no command runs (`Outsider`); between a check
and its use they would not be seen.

The other two speak of a command that is alone with the machine from its first step
to its answer, whatever was there before it. `InstallInv` says for all commands
where each may be with which results (`ActorsOK`), that the one handler that is
busy has the mutex (`MutexOK`), that files and launchd make sense (`FilesOK`,
`ServiceOK`, `CountsOK`), and, for a command that has been alone so far
(`Followed`), what each phase has achieved: what is already in place, or, during
a clean-up (also one after a check that came too early), what is already gone and what it still has before it. A step of anybody else
ends the course of a command, so that only the command's own steps must carry
these facts.

`Setup_proofs` proves, for any shells, clients, brokers, initial directories and
number of faults, from the assumptions of `Setup`:

- `TypeCorrect`: `Spec => []TypeOK`
- `EnrolmentIsKept`: `Spec => []EnrolmentKept`
- `SetupIsEnough`: `Spec => []SetupSuffices`
- `EnrolledIsAdmittedByBrokers`: `Spec => []EnrolledIsAdmitted`, for requests
  that the default policy is for (`RequestsFitTheDefaults`)

`TrustInv` adds to `EnrolmentKept` that an enrolment under way has read everyone
who is claimed to be enrolled (`StoresCarry`), that who thinks itself alone is
(`AloneIsAlone`), and that a file whose writer has had no company is as it was
truncated (`WriterHasNoCompany`): that is what makes a write in place whole.
`PolicyInv` says of the policy file, whose writers all write the same bytes,
that it does not parse only while an install writes it or after one was cut
short, and of the directories that `install` has passed that they stay private.
`BootedInv` carries what was enrolled when a broker started. From there to the
verdict it is the default policy's turn: no check before the rules refuses a
fitting request of a known client (`FittingGetsToTheRules`), and the first rule
that fits executes it (`FittingIsExecuted`).

`Adjudication_proofs` proves, for any policy files, requests, reasons, clients,
artifacts and peers that have the fields of the code's types:

- `DecisionsAreTheReference`: `Spec => []DecisionIsReference`
- `RefusalsStand`: `Spec => RefusalStands`
- `ReasonsCanBeMended`: `Spec => []ReasonCanBeMended`, provided an agent can say
  that it wants to inspect a file (`AgentsCanExplain`)
- `LaterRulesHaveNoSay`: rules after the one that fits change nothing

`DecisionsAreTheReference` goes through the stages in their order: a request that has
no objection of the first ones is answered by the next as its set says
(`ShapeAnswers`, `ArtifactAnswers`, `PolicyAnswers`, `FirstObjection`). They rest on `FirstMatch` (the least index exists because `<` on the naturals is
well-founded, and `Match` returns its rule) and on an invariant that every
reply is that of `Decide` for the request it answers. `RefusalsStand` holds because
only one check reads the reason, and its own refusal is retryable.

`Execution_proofs` proves, for any exit codes, limit, output and sizes of chunks:

- `ExecutionTypeCorrect`: `Spec => []TypeOK`
- `ZeroIsSuccess`: `Spec => []ZeroMeansSuccess`
- `TimeoutsAreReal`: `Spec => []TimeoutIsReal`
- `CaptureIsExact`: `Spec => []CaptureExact`
- `NothingElseHolds`: `Spec => []GoesOnOrIsHeld`, on which `ReturnsOrIsHeld` rests

The invariant follows the handler: where it is says what the command and the
watcher can be (`Phases`); a kill comes after the deadline and takes whoever is still in
the group (`KillsAreLate`); the capture is exact at all times of what has been read
(`CaptureFollows`), and nothing is unread once `Wait` has returned
(`NothingLeft`); and the code is computed from these (`CodeIsComputed`).

`Broker_proofs` proves, for any connections, brokers, files, requests, peers and
faults, from the assumptions of `AuditLog` and `Broker`:

- `BrokerTypeCorrect`: `Spec => []TypeOK`
- `SuccessIsRecorded`: `Spec => []ApprovedIsRecorded`
- `RecordsAreTrue`: `Spec => []RecordIsTrue`
- `CommandsAreAdmitted`: `Spec => []RunsByOwnPolicy`
- `BrokersExecuteAsPromised`: `Spec => ImplementsBrokeredExecution`
- `NoHandlerHangs`: `Spec => []HandlersGoOn`, and `HandlersComeToAnEnd`:
  `Spec => [][HandlersLeadOn]_vars`, on which `SendReturns` rests

A step of the broker is a step of `AuditLog` or none (`StepOfLog`), so that
`LogInv` and what follows from it hold here too: a log proved once serves any
number of handlers. `BrokerInv` adds what each connection's stage says: the call
of `Append` under way is that of its decision (`CallMatches`), nothing gets as
far as a command without a verdict by its own broker (`Admitted`), nothing is
decided or told before the command has ended (`Staged`), what is decided has
happened (`Decided`), what is told was decided, and success also acknowledged by
`Append` (`Told`); and every record in the file is some connection's decision
(`RecordsMatch`). The decision procedure itself does not matter here beyond the
range of its answers (`ProcessRange`). For the refinement, a record reaches the
ledger when `Sync` or a power loss makes it durable: it is true then, because a
decision is never made again (`DecisionsStay`) and a decided command no longer
runs.

`NoHandlerHangs` needs `WaitInv` as well: an open connection leads to a broker
that runs (`Lives`), and a logger has been called by no more connections than have
decided (`CallsAreCounted`), so that the bound `MaxSeq`, which is no smaller than the
number of connections (`OneAppendPerConnection`), never keeps a handler from its record.

Only model-checked: the six liveness properties `AppendReturns`,
`ReturnsOrIsHeld`, `SendReturns`, `CommandAnswered`, `SupervisorStops` and
`CancelledEnds`. Fairness and ENABLED are out of the prover's reach. What they rest
on is proved, as far as it is safety: that somebody can go on as long as the
goal has not been reached (`MutexIsAtWork`, `NothingElseHolds`, `NoHandlerHangs`,
`NobodyIsHeldUp`, with the guards written out in place of ENABLED) and, for
`Broker` and `Supervisor`, that there are finitely many steps on the way
(`HandlersComeToAnEnd`, `EveryStepLeadsOn`). All safety invariants and action
properties of the passing runs have a theorem.

## 6. Not modelled

Wording, encodings and file modes; `Tail` and redaction; `Observe`'s system
calls; the parsing and printing of the command line and the commands that only
read; the path checks of `rejectUnsafeSourcePath` (their verdict is a choice);
the one-shot smoke run, the single requests of the smoke checks (`tamper-artifact` is there) and the launchd
diagnostics, which are sequences of calls of what is modelled; a trust file
edited by hand to name a client twice. A matcher with an empty prefix, which accepts every
argument, loads without `allow_high_risk_wildcard` (policy.go:194): `Policy` models
it, no property speaks of it. An object that a power loss or an
outsider has damaged stays damaged, because `StoreContent` never rewrites an
object that exists: `RetryMends` excepts it.

## 7. Plan

Done, in this order: `Policy` and `Decision` (what is decided), `AuditLog` with its
proofs (what is recorded), `Execution` (what is run), `Broker` over
`BrokeredExecution` (how these fit together), `ArtifactStore`, `Supervisor` and
`LaunchdDev`, `Setup` (what is on disk before a broker starts), then for each of
them the proofs of all its safety properties, the refinement among them, and of what its
liveness properties rest on.

Open, should the code grow in these places:

1. `AuditLog`: `Show`'s and `Tail`'s scanning, and records longer than they can scan.
2. A refinement of `Broker`'s `Start` and `CommandEnds` by `Execution`, which they
   summarise: `NothingElseHolds` says when a handler stays at `running`.
3. `Supervisor`: `LeavesNothing` without its exceptions, if main should ever wait for
   the handlers of its connections.
4. `InstallRepairs` without the early check, if the wait should ever look at the
   socket's mode.
