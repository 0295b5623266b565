# Verification of the FOG Agent

TLA+ models of the FOG Agent (this repository), the TLC runs that check them on
small instances and the TLAPS proofs that hold for every instance. The source is
the reference: each definition names the lines it stands for in `PROJECT.json`
(`map`). Paths below are relative to the repository.

## The system

The agent is one Go process on a managed machine. It polls its FOG server, makes
the machine match the desired state in the answer, and keeps what it must not
forget in a state directory. `cmd/fog-agent/main.go` (`runAgent`) is the loop, and
everything else is called from it, one call at a time: what makes the code hard
is not threads but **crashes between two writes**, **a second process** (a command
run by hand beside the service), **failed steps that have to be undone**, **answers
that are lost**, and **state copied to another machine by imaging**.

| Part | State | Operations | What makes it correct |
|---|---|---|---|
| reboot policy (`internal/reboot`) | none | `Merge`, `Drop`, `Decide`, `Execute` | a forced reason is never deferred, a merge never loses a source |
| reboot coordinator (`main.go` 691-719, 1371-1574) | `PendingReboot`, `RebootedForTask` in config.json; the latch in the rejoin marker; BootNext | record a reason, decide, claim, persist, arm, ask the OS, undo | no request lost, none served twice, BootNext set only for a restart on its way |
| netboot arming (`internal/netboot`) | BootNext, a firmware variable | `Find`, `Arm`, `Disarm` | the right entry or none |
| self-update (`internal/provider/update`, `cmd/fog-agent/update.go`) | binary, `.prev`, `.bad`, `config.json.prev`, probation, revert note, sequence floor | `Run`, `Arm`, `swap`, `Revert`, probation checked each round | an unproven binary has a way back, there is a binary to start, it can read its configuration, no older manifest after a newer |
| release manifests (`internal/release`) | none | `Verify`, `Fresh`, `Find` | only what was signed, only if newer |
| directory rejoin (`cmd/fog-agent/directory_rejoin.go`, `internal/provider/directoryjoin`) | the attempt marker, archived markers | reserve, start, latch, native call, save the outcome, restart, verify, archive | one native call per attempt, never forgotten, verified only after a restart |
| enrollment (`internal/enroll`) | key, identity, certificate, config.json | `EnsureKey`, `RotateIdentity`, enroll, `SaveIssued`, `DropIssued`, refusals, renewal | nothing acts as another machine, a working enrollment is kept, an agent comes back |
| trust (`state.go`, `caprobe.go`, setup in `main.go`) | pinned CA or system trust, server, certificate, token | `openState`, `forgetStaleTrust`, `settleTrust`, `prepareState` | a setup that fails leaves what it found, the certificate goes with the trust, a token is not lost |
| run loop and reconcile (`main.go` 789-1006) | applied revision, capability set | poll, converge, report, drift | what a recorded revision orders is there, as long as nothing more would be sent |
| sessions, auto log out (`sessions.go`, `autologout.go`, `internal/usersession`, `internal/provider/autologout`) | open set and warned set in memory; pending closures, acknowledged digest, policy in config.json | sample, attach, record, warn, log off | no end lost or invented, the server follows, nobody logged off unwarned, an idle session leaves |
| facts (`facts.go`) | hashes per block, wanted flags, when gathered | `factsDue`, `attachFacts`, `recordFacts` | what is on record is what the server has; a change gets there |
| power schedules (`internal/provider/power`, `waitOrFire`) | schedules, last firing | `Next`, sleep, fire | the first minute named, none slept over, each once |
| service (`service_windows.go`) | the service manager's recovery settings | install, `ensureRecoveryActions` | it runs again after a crash or an update |
| providers | mostly the operating system's | one call per capability | the outcome reported is the one that happened |
| fact gatherers, HTTP client | none | read and parse, request | a reading that failed is not a fact |

Interactions. The loop owns the one copy of the configuration in memory and every
part saves the whole of it. Rejoin, providers, power and tasks record reasons with
the coordinator; the coordinator's claim of a rejoin restart goes through the
rejoin marker and not through config.json. A new key archives the rejoin marker.
A completed poll proves a new binary (probation) and ends a run of refusals
(enrollment). `fog-agent renew`, `update`, `update-revert` and `run --once` are
further processes on the same files; only the rejoin marker is locked.

Each hazard this leads to is listed with its line in `PROJECT.json` (`hazards`),
with the properties aimed at it.

## The modules

| Module | Models |
|---|---|
| `RebootReasons` | `Merge`, `Drop`, `Decide` and the netboot answers as operators on sets of reasons |
| `RebootCoordinator` | the coordinator and everything that records a reason, EXTENDS `RebootReasons` |
| `RebootCoordinatorProofs` | its theorems |
| `SelfUpdate` | update, probation, revert, by the service and by hand |
| `SelfUpdateProofs` | its theorems |
| `DirectoryRejoin` | the attempt protocol of several agents on one marker |
| `RejoinLatch` | the restart latch of that marker, which `DirectoryRejoin` and `RebootCoordinator` both implement |
| `DirectoryRejoinProofs` | its theorems |
| `Enrollment` | key, identity, certificate and config through images, crashes and refusals |
| `EnrollmentProofs` | its theorems |
| `Reconcile` | the revision, the capabilities and their reports, the update, the drift check |
| `ReconcileProofs` | its theorems |
| `Sessions` | the session sampler, its report in the poll, and auto log out |
| `Facts` | the collectors' failures, the hash gate, and what is recorded as sent |
| `FactsRecord` | the part of it that its promise is about: what is on record as sent, what the server has |
| `ReportsProofs` | the theorems of `Sessions` and of `Facts` |
| `Installation` | setup, `service install` and the service on one state directory; the service manager |
| `InstallationProofs` | its theorems |
| `Cron` | cron expressions over a calendar, and the steps of `Next` |
| `PowerSchedules` | the search, the sleep and the firing, EXTENDS `Cron` |
| `Alarm` | what power schedules promise, which `PowerSchedules` implements |
| `PowerSchedulesProofs` | its theorems, the refinement among them |
| `MC*` | the values of the constants TLC uses |

One step of an action is the code between two points at which a crash, or another
process, would find something different: normally one write to the disk, one
request to the operating system or one exchange with the server. Each process
has a program counter named after what it does next (`pc`), its locals (`plan`,
`loc`, `at`, `st`), and loses both in a crash. Files are variables that survive.
Failures of a write or of a request are separate disjuncts where the code goes on
after them; where it returns an error, the process ends, as in a crash. History
variables, read only by properties, are declared apart and commented.

An operator named just before one it resembles, with the same parameters and
used nowhere (`TrustsTheServer` before `ValidateReservedRetry`, say) is that
operator with a plausible bug: putting it in place makes a named property fail
(`mutants`), which is how each property is known to depend on the code.

### RebootCoordinator

`cfg` is `st.Config`, `disk` is config.json. A poll is: reconcile, schedules or
rejoin may record reasons; `NothingPending` ... `Decided` is the head of
`coordinateForPlatform` up to the decision; `ClaimLatch`, `Persist`, `Arm`,
`Execute` are its four effects in order, each with its failure; `Unlatch`,
`Disarm`, `Restore` are the way back of `refusedDirectoryReboot` and the refusal
path. `CliLoad`/`CliSave` is `fog-agent renew`, which writes back the whole
configuration it once read. Of the rejoin the module keeps one attempt and what its
marker says: `FollowsLatch` maps both to `RejoinLatch`.

### SelfUpdate

`RunByHand` and `Run` begin an update; `CopyRefused`/`CopyVerified`/`NextCopy` are
`manifestFor` over the server's and the origin's manifest, and `SaveSequence` raises the
floor, which either may fail to read: `accept` drops that error (`update.go:261`) and
takes the floor for zero, and `SaveSequence` then writes the lower number. `KeepConfig`, `Record`,
`Forget`, `Aside`, `Install`, `Unrecord` are the file operations of `Arm` and `swap`
in their order; `ProbationDue` ... `WriteNote` those of `Revert`. Versions are
numbers in the order of `Compare`; a version belongs to `CanStart` and `CanPoll` or
not, which is how a broken release is represented.

### DirectoryRejoin

`SaveAttempt`, `ReserveAttempt`, `RemoveAttemptForRetry`, `SetAttemptRebootRequested`
and `ArchiveVerifiedAttempt` are the operations under the file lock, each one
step comparing the file with the writer's copy; between them any process may act.
The server hands out plans in increasing order, may repeat or forget an answer,
and a process may act on a stale one. A machine that restarts ends all processes.
Two simplifications: the host id bound to a key is not kept apart from the key, and
the checks of the plan against the machine (names, roles, domain) only ever end a
round early.

`RejoinLatch` is what a restart of the machine may rely on: an attempt that awaits its
restart (`Await`) is claimed by one request at a time (`Claim`), a claim is given back
(`Release`) only while the system has accepted no restart for it (`Accept`), and the
attempt is verified only after a boot. `FollowsLatch` here maps it to the marker file
and the history of requests.

### Enrollment

`EnsureKey` decides; `WriteKey`, `WriteIdentity`, `RemoveCertificate`, `ResetConfig`
are its four writes. `Prepare` is `prepareDirectoryIdentity` (with the server's
identity check), `LocalCloneGuard` the guard without it; `Round`, `EnrollRequest`,
`Issue`, `Save`, `Check`, the `Poll...` outcomes, `Applied`, `Renew` and `DropIssued`
are the loop. `Capture` and `Deploy` move a state directory to another machine or
back to this one; `Read` may fail, which the code has to tell from another machine.
A certificate is the key it was issued for: presented with another key the TLS
handshake fails, which `UseCertificate` does not look at.

### Reconcile

A poll brings the desired state when its revision is not the applied one; `loc` is
the pass: the state, the capabilities left, whether the revision may be recorded. One action
is one capability with its report, or one snapin task; `Place` is the order of the
capabilities, `ComesNext` says whose turn it is. The directory is three steps: `Directory`
decides and makes the first native call, `SetComputerName` the second of a rename,
`ReportDirectory` reports. `Advance` keeps what the code keeps of a capability, which for
most is whether its report landed and not whether it did what it was asked. Tasks are numbered as the server queues them, so a queue is a
set and its head the smallest. The machine is Windows, where a
name waits for a restart: `host.name` is the running name, `host.next` the one of
the next boot, `host.object` the name of the computer object. The server
(`order`, `belief`, `cooling`) is external: it digests what an admin wants and the
facts it was sent into a revision, sends a join or rename to a host it believes in
need of one and none for an hour after an attempt (`docs/design/0009`, `0017`).
Printers behave as software does, a scheduled task is in `RebootCoordinator`, wake,
activation and auto log out keep nothing a later pass depends on. Whether a pending
restart is made is that module's business too; here it may be, at the end of a poll.

### Sessions

`Sample` is `sessionWatcher.sample` with `autoLogout` on top, at the end of each
sample interval of a wait; `Poll` is `attach`, which reads the open set again;
`Arrive`, `Lose`, `Record` and `Pass` are the answer, `recordSessions` and the policy
a pass brings. A session is its key and the number of its logon, so that a key
given out again is another session. Time is counted in sample intervals, and
`unwatched` marks who was on while nothing looked. The server's rows are external:
closures, then the open set, then what is left over (`docs/design/0008`).

### Facts

The many readings of a collector are two, the one it starts from and the others;
`Gather` says for each block and build what is reported when some fail, and a
block's hash is the block. `Poll` is `attachFacts` with at most one block failing,
`Record` is `recordFacts`, `Hour` the end of `FactsInterval`. `known` is what memory has on
record as sent, `saved` what config.json has.

### Installation

A command is a program counter and a list of files yet to write (`Do`, `Write`,
`WriteFails`), cut between any two. `Check`, `Open`, `Restore`, `Reopen`, `DropStale`
are `settleTrust`; `KeepToken` and `Enroll` are `prepareState` and the one attempt of
setup; `OpenAlone` is the service's `openState`, with no flags. `EnsureKey` comes between, in
setup and in the service: the first key resets config.json to the address and the token, so
that this machine's store is no longer its trust (`lost`), unless the directory's
preparation puts it back. `proc.trust` is what the process's client goes on verifying the
server with. A key made anew later (a clone) is `Enrollment`'s. A server is what its
certificate chains to, and may be rebuilt on something else. `Register`, `Recover`,
`EnsureRecovery` are the service manager's side: a clean exit with an error restarts
the service only when a flag of its own is set.

### Cron, PowerSchedules and Alarm

A calendar is what the clock on the wall shows at each minute and what `time.Date`
answers for the next month, day and hour; `GoodCalendar` is what is assumed of it:
the answer passes over nothing but minutes of this month, day or hour, or of a
time shown twice, and may be in the same hour where the clock skips one. `Search`
is one round of `Next`, `Rest` the choice of `waitOrFire`, `Fire` the one save of the
firing and its reason. The sleep runs by a monotonic clock (`left`), the
schedules by the wall (`now`), which may be set.

`Alarm` has two variables, the minutes named and those rung, and one promise: only
named minutes, in order, each once. `Promise` maps `named` to the minutes the
current schedules name in the machine's zone.

## What the runs check

Passing runs (all states of the instance visited, no error):

| Run | Shows |
|---|---|
| `coordinator` | `OwedIsHeld`: a request neither served nor withdrawn is always where the agent will act on it. `NoStrayBootNext`, `TaskRestartReachesFOS`: BootNext exactly when a restart needs it. `OncePerTaskUnlessForgotten`: a task restarts the machine once. `ForcedRequestActs`: a forced order is carried out in the end. Under two of: unknown session counts, failed saves, latches, armings, requests and disarmings, crashes, power cycles, a `renew` beside it. |
| `update` | `WayBack`, `BinaryInPlace`, `ConfigReadable`, `NoReplay`, `RevertUndoesUpdate`, through outages, failed writes, reads, renames and reports, crashes and both commands by hand. `NoReplay` holds from the first manifest to the first floor that cannot be read. `BadVersionLeaves`: a binary that runs and cannot poll is replaced. `RevertReported`: the server hears of it. |
| `rejoin_two_agents` | `NothingForgotten`, `NothingReplayed`, `VerifiedAfterRestart`, `OneRestart`, and `FollowsLatch`: the agents implement `RejoinLatch`. With a service and a `run --once` crashing anywhere. |
| `enrollment` | `NotAsAnother`, `OwnState`, `KeepsEnrollment`, `GraceKept`, with images, unreadable firmware, revocation, refusals, crashes and `renew` by hand. `GetsThrough`: after any of that a poll gets through again. |
| `reconcile` | `AppliedMeansDone`: while the revision recorded is the one the server would send, so that nothing more is sent, what it orders is there: the name, the domain, the restart, the queue, the build. `OneName`: a member of the domain and its computer object never part, but between the two calls of a rename. `SnapinsInOrder`: an interrupted queue starts again where it stopped. `Converges`: the machine becomes what was ordered, after lost reports, failed calls and saves, held passes, crashes and power cuts. |
| `sessions` | `EndsKept`: an end the agent saw is queued or at the server. `EndsTrue`: nobody is reported gone who is not. `ServerFollows`: the server ends up with the sessions that are open. `WarnedFirst`, `IdleLeaves`: no log off without a warning, and no idle session that stays. Under failed readings, saves, polls and log offs, crashes, power cuts and the settings turned off and on. |
| `facts` | `RecordedIsHeld`: what is on record as sent is what the server has. `ServerLearns`: when the machine stops changing, the server ends up with what it is. Under failed readings, lost requests and answers, failed saves, crashes, collection turned off and on, and a server that lost a block. |
| `installation` | `TrustAsSettled`: what is trusted is what the last setup that settled a trust left, or that without the store a new key erased. `CertificateFits`: a running service's certificate was issued under the trust its client uses. `TokenKept`: a token outlives everything up to the certificate. `ComesBack`: a service that crashed or left for an update runs again. Under failed writes, commands cut, refusing service managers and rebuilt servers. |
| `power` | `NextIsFirst`: the search answers with the first minute named. `NoneSleptOver`: a sleep passes over none. `OnceEach`: `PowerSchedules` implements `Alarm`. With clocks that skip or repeat an hour, or are set, crashes, failed saves and schedules replaced. |

Violated runs: each checks one statement of a comment or document and TLC shows an
execution of the code that breaks it.

| Run | The statement and what happens |
|---|---|
| `once_per_task` | "reboot once per task id": any refused restart erases `RebootedForTask`, and the machine restarts for the same task again. |
| `update_deferred` | "the update happens after the machine is back": an update that makes way for a pending restart is recorded as applied with its revision, and nothing asks for it again. |
| `power_search` | "Next is the first matching minute strictly after t, or false when none falls within the coming year": west of Greenwich, on the day the clock skips an hour, `Next` never returns, and the agent's loop stops with it. |

More disagreements were met, without a run of their own:

- `probation.go:153`, "what a new binary calls once it has proved itself": after an
  update by hand beside a running service, the old process's next poll clears the
  new binary's probation (`HandStopsService = FALSE` in `SelfUpdate`).
- `EnsureKey` "forgets any certificate" (`state.go`): a crash after the identity is written
  leaves the old certificate beside the new key, and every later start keeps both.
- `probation.go:119-122`, `SaveSequence` "never lowers it": it compares only when the
  floor could be read (line 124), and `accept` (`update.go:261`) takes one that could not
  for zero. An older signed manifest is then accepted and its number written.
- `main.go:743-746`, a revision "is recorded as applied only when nothing failed": a failed
  join, package or printer that was reported does not hold it (876-928), nor does an update that made way (968-973). Each comes again by another way
  (drift, the server's cooldown) or, as the update, not at all.
- `state.go:246-247`, a new key resets config.json "to how to reach the server": it keeps
  the address and drops `SystemTrust` (277), which is part of it. After a first install on
  a public certificate the directory says nothing of what was settled, and the service
  cannot open it at its next start while the server does not answer.
- `main.go:1893-1895`, "the service never does this by itself": with no trust on disk,
  which is what that leaves, it does (189-209), for a public certificate.
- `state.go:357-359`, a pinned CA and the system store "can never disagree": `SaveCA`
  writes the CA before config.json (346-353), and a cut between leaves both, of which the
  store is trusted.
- `docs/design/0004-power.md:57`: a firing that comes due while the loop polls is
  missed, since the next search starts after the time it begins at.
- `main.go:1876`: a setup cut after it forgot the trust, and before it settled another,
  finds no trust to compare with when it is run again, so the certificate issued
  under the old one stays.
- `docs/design/protocol-v1.md:907-911` says directory rejoin stays off until a restart
  when the server cannot be reached; the code (`main.go:425-445`) asks again in each
  round.
- `update.go:129`, "this binary has had its window": the probation deadline runs from
  before the download, so a new binary can be reverted before its first poll.
- `facts.go:204` and the line logged at `main.go:578`: `DropIssued` keeps
  `UnauthorizedSince`, so after one certificate was given up on the next is given up
  on at its first refusal.
- `hostname.go:2`, "the machine's name converges on the name its host record
  carries": a rename waiting for its restart, taken back by the admin, is not undone,
  since `Ensure` compares the running name only; the machine ends under the other
  name with the revision applied (`withdrawn` below).

### Exemptions

Some properties exempt what the code openly gives up; each exemption is a
history variable set by the fault and nothing else. `forfeited`: a crash between
saving the emptied reasons and the restart, or a report acknowledged before the
save. `dirty`: a failed save, or a file another process overwrote. `left`: BootNext
could not be cleared. `torn` (SelfUpdate): a fault between the two renames.
`stray`: a probation record whose swap never happened. `misread`: a floor that could not be
read let an older manifest pass, until one as new as any before is accepted. `blind` (SelfUpdate): an
update by hand of a binary that never polled; (Enrollment) the guard's reading
failed. `torn` (Enrollment): a key reset cut short, or a stale copy written by
`renew`; it ends with the next complete reset. `unvouched`: a key an admin approved
while the identity recorded beside it was another machine's (below).

`Sessions`: `missed`, an open session some reading left out, which then looks
closed; `unwatched`, one no sample looked at in the time before, which can be
logged off unwarned; `Hidden`, one whose key was given out again before the agent
looked. `Facts`: `unsettled`, a block the server took, or dropped, in a poll until
its outcome is recorded and in config.json (if the machine then goes back to what is on
record, the server keeps the other); and an empty program list, which `omitempty`
keeps off the wire. `Installation`: `torn`, a setup cut, or failing to put things
back, half way, or leaving a CA beside the store; `lost`, the store as the trust, which
the reset of a new key erased (this one narrows: nothing but that trust may be missing);
`kept`, a certificate kept while another trust was settled with none to forget: by `--ca`
over one that verified, or over one that was lost. `PowerSchedules`: `jumped`, a clock set during the sleep; a minute
shown twice may be found at either.

`Reconcile` keeps a set of marks. `withdrawn`: the admin went back to a name the
machine runs under or had applied; `recalled`: to a version it had applied. `yielded`: an
update made way for a restart.
`cut`: a fault between the two saves of a held pass (`reconcile`, `reconcileHeld`).
`lagging`: a rename changed the object, and its second call failed on the machine or was
never made. `unasked`: the report of a join was lost, or the process died before it or
before the save, and the reason to restart with it. `missed`: the server's cooldown ended while a revision with the
block it held back still stood as applied (the machine was off, or in one pass, for
the whole hour), so a failed join is not offered again. Each of these is a hazard
in `PROJECT.json`, and `Converges` fails without its exemption.

That an exemption is needed for the fault it names and for no other is proved where
the fault is a constant: see "Without the faults" below.

### Bounds

Every bound is a constant. `MaxDisturbances`, `MaxRequests`, `MaxFaults` bound how
often the outside world interferes; liveness needs that finite. Two faults are
enough for one to hit the recovery from another; `update` has three, since a
command by hand is one of them.

- `coordinator`: `MaxTask = 1` and two disturbances, so that the undoing of a
  refused restart fails as well. That the record of one task neither stops nor
  releases another is what the proofs add: they are for any number of tasks.
- `update`: `MaxVersion = 3`, an older, a current and a broken version, with a
  downgrade between. No deadlock check: a host whose service no version can start
  really stops.
- `rejoin_two_agents`: `MaxAttempt = 2`, `MaxBoot = 2`, `MaxKey = 2`, two agents: a plan
  and its retry or successor, before and after the one restart, and the key before
  and after a rotation. Symmetry over the agents, which differ in their name only.
- `enrollment`: two machines, `Grace = 1` and two moments (a refusal at the first is a
  grace old at the second, one at the second is not); `MaxKey` is larger than the
  number of keys the faults can cause, which TLC confirms by finding no deadlock.
- `reconcile`: two names, two tasks (one aborts its job), two builds of which the
  first lacks a capability, two changes by the admin and two faults: a join and a
  rename, a rename taken back, a task behind a failed one, a held pass cut short.
  Off Windows the directory features are always refused: `Features = {"refused"}`,
  one of the answers checked.
- `sessions`: one key and two logons, which is the key given out again; a limit of
  three intervals of which the last is the warning, the smallest with a sample
  before, in and after the window; sessions under different keys do not interact.
- `facts`: `software`, which can be empty on the wire, and `network`, which is gathered
  by every poll; the other blocks differ in `Gather` alone. Two changes, which is a
  machine that goes back.
- `installation`: two servers, two CAs of which one is in the machine's store, six
  command lines (an upgrade that says nothing, with a fingerprint, with a file, by
  hand), two setups and a server rebuilt between them. No deadlock check: a service
  that an admin stopped stays stopped.
- `power`: a calendar of two minutes to an hour, three hours to a day, two days to a
  month and three to a week, in five zones (an hour skipped or repeated, east and
  west of Greenwich, within a day and across midnight), and four kinds of expression
  (one time, a step with either day field, a month, a range). `Year = 11` is most of
  a month and `Wait = 3` more than an hour, so that the search crosses all of them
  and ends without a match as well. No deadlock check: time ends at `MaxTime`.

### Fairness

- `RebootCoordinator`: weak fairness of recording and coordinating. The loop has
  no exit while the service runs, and the OS restarts the service.
- `SelfUpdate`: weak fairness of the service (the service manager restarts it on
  exit, `build/` and `service_windows.go` set the recovery actions) and of the
  deadline (time passes).
- `Enrollment`: weak fairness of the agent; strong fairness of `Issue` and of an
  attributable answer to a poll: a server asked again and again is reachable, and
  an admin approves, in the end. Without the first nothing can be shown of a
  client; the code waits and repeats for exactly that.
- `Reconcile`: weak fairness of the agent; strong fairness of the restart and of the
  intervals: users leave in the end (the coordinator offers it in every poll), and
  hours pass between polls.
- `Sessions`: weak fairness of the loop's steps, of the clock and of the intervals;
  strong fairness of the poll, which follows some sample of each wait. Users need
  not do anything.
- `Facts`: weak fairness of the loop and of `FactsInterval`.
- `Installation`: weak fairness of the service manager's restart, and nothing else.
- `PowerSchedules` (`power_search` only): weak fairness of the loop, without which a
  search that never ends would show nothing.
- Disturbances are finite in number and have no fairness: any may not happen.

`DirectoryRejoin` has no liveness property. A healthy domain is needed for
verification and the code leaves every failure to a person on purpose
(`docs/design/0009-directory-membership.md:429-444`).

`HandStopsService = TRUE` in `update`: nothing locks the binary's files, so a command
beside a running service does interfere (above).

## What is proved

TLAPS checks these for all values of the constants (any number of tasks, agents,
plans, boots, keys, disturbances), from the named `ASSUME`s of the modules, which
only give the constants their types.

`RebootCoordinatorProofs`: `TypeCorrect`, `RequestsHeld`, `ConfigDurable` (between polls
memory and disk agree: `DurableWhenIdle`, which no run needs any more), `BootNextDisarmed`,
`TasksRestartOnce`, `RejoinRestarts`, `TaskRestartsReachFOS`, `ReliesOnLatch`. None of the
properties is inductive alone. `IInv` adds what the coordinator's locals mean
at each of its steps (`PlanInv`: between the decision and the answer the reasons are
split into the plan's and the withheld ones, and who holds the rejoin latch is
known), what the rejoin marker says outside it (`MarkerInv`), why BootNext is set
(`BootInv`), and for the once-per-task theorem which tasks the configuration on disk,
in memory and in the hands of `renew` still know of. Each part has a lemma with one
step per action. `ReliesOnLatch` is a refinement: with `LatchKept` (a claim is spent once
the system accepted a restart) every step is one of `RejoinLatch` or a stutter.

`DirectoryRejoinProofs`: `Types`, `NeverForgotten`, `NeverReplayed`,
`VerifiedOnlyAfterRestart`, `RestartsOnce`, `ImplementsLatch`, `AcceptedStaysClaimed`.
Processes hold copies of the marker
that may be stale, so the argument is in layers: `Typed` says what a copy looks like
at each line; `Owned`, that at most one process is between a successful start and
the end of the operation, because the server starts a plan once, and that its copy
is the file's; `Remembered`, that the marker is latched whenever the native call may
have run, so it can be neither replaced nor removed; `Sound`, that what awaits a
restart was run in an earlier boot or this one and what is verified has a restart
behind it; `Once`, that one coordinator at most is between the claim of a restart
and its outcome; `Latching`, that what is not claimed was not restarted for. The last is what
the refinement needs: `ImplementsLatch` shows that any number of agents, each with a copy
of its own, restart the machine as one latch allows, and `AcceptedStaysClaimed` is what the
latch is for. With `ReliesOnLatch` the coordinator's view of the marker is
no assumption of its own: what it does there is what the agents on the marker do. The
lemmas `OperationSteps`, `MarkerSteps` and `RestartSteps`
describe each action once by what it does to one group of variables; the layers
are proved from those descriptions.

`PowerSchedulesProofs`: `Invariance`, `FindsFirst`, `SleepsOverNone`, `KeepsItsPromise`,
from `CronAssumption` and `PowerSchedulesAssumption`, that is for every calendar whose
`time.Date` passes over nothing else (`Steps`), every set of expressions, and any poll
interval no longer than the search. The invariant is `Typed` (where the loop's
locals are), `RungBefore` (what was rung is no later than `fired`, so no later than
`from`), `Searching` (no minute named lies between `from` and a cursor, but those shown
twice) and `Sleeping` (nor between `from` and the end of the sleep). `AdvanceGoesOn` is
the lemma on `Cron`: one round passes over no minute that matches. `KeepsItsPromise` is
the refinement: every step is a ringing of a later named minute, a change of what is
named, or a stutter of `Alarm`.

`ReconcileProofs`: `TypeCorrect`, `AppliedWasDone`, `KeepsOneName`, `RunsInOrder`, for any
names, tasks, builds, orders and faults. `AppliedMeansDone` speaks of the server's state and
of a revision recorded long before it, so the invariant says what a revision keeps while the
order moves: `Settled`, that whatever of it the admin still wants is there, or on its way.
`Working` is that for the part a pass has run; `Recorded`, for what is recorded in memory and
on disk and for the stamp a held pass may put back (without which `PutBack` would not
preserve it). `Numbered` keeps a new action or task from being taken for an old one;
`Stays` and `Current` keep a name or version from coming back, but for the marks; `Queued`
says that the tasks a pass has left are the head of the server's queue, whatever is queued
behind them. `OneName` needs `Begun`, that between the two calls of a rename the object has
the name the machine is about to get.

`ReportsProofs`, of `Sessions` and `Facts`.

Sessions: `KeepsEnds`, `EndsAreTrue`, `WarnsFirst`, for any number of sessions and
readings, and every limit and warning that leave a sample between a user's last
input and the warning (`SessionsAssumption`). `Settling` says that what an answer settles
is what the request carried; `Past`, that nobody holds a session of the future, nor
one for ended that was listed; `InTime`, how idle time, the warning set and the
sampler's delay relate, which is why a sample always comes before the log off.

Facts: `RecordsWhatIsHeld`, for every block on both builds, where the run has two. The module
is an instance, `F`, so the theorem carries `FactsAssumption` as a hypothesis. `Moves` describes the steps once by what they do to a block; `Recording` and `Taken` say
what a request in flight and its answer stand for, so that what is written down as
sent is what the server took.

`SelfUpdateProofs`: `TypeCorrect` and `AlwaysInPlace` for any processes, and, where a
command runs only beside a stopped service (`HandStopsService`), `UnprovenHasWayBack`,
`ConfigStaysReadable`, `NothingReplayed`, `RevertTakesBack`. For `NothingReplayed` the
floor, or what is about to be written to it, is the highest sequence accepted, unless one
was `misread`; `NoReplayWhereFloorRead` adds that without such a read none is. `IInv` says at each step of a
process where the running binary is (`Placed`), what has been decided and stands on
record (`Decided`), whom to trust (`Recorded`: the binary kept beside a new one is a proven
one), and who can read the configuration (`Readable`: the kept one suits the binary to
go back to, and the record's update was one that was allowed, so the new one can read
it too). Without a binary the agent is at its end (`Dead`), and `IInv` asks no more.

`EnrollmentProofs`: `TypeCorrect`, `NeverAsAnother`, `AlwaysOwnState`, `EnrollmentKept`,
`GraceAlwaysKept`, for any machines, keys and grace. The lemmas named `...Moves` say once
what each step does to the fields of the four copies of the state (disk, image, the
service's, `renew`'s); `EInv` then speaks of fields. `Fresh` numbers the keys, `Held` says
what memory and disk share at each step, `AllVouched` that an approved key stands for the
machine whose identity is kept beside it, `Guarded` that nothing passes the clone guard
with another machine's key, `Owned` that certificate and config.json belong to the key,
`Replaceable` that only an enrollment that does not work comes to be replaced, `Graced`
that the refusals did not start later than recorded. The proof needs an exemption that
the run's two disturbances do not reach: if the firmware fails to be read both when an
image of another machine, with a key nobody approved yet, starts here and when that key
is enrolled, it is approved for this machine beside the identity of the other
(`unvouched`); taken back to the other, it passes the clone guard and polls as this one.

`InstallationProofs`: `TypeCorrect`, `TrustStaysSettled`, `CertificateAlwaysFits`,
`TokenAlwaysKept`, for any servers, CAs, command lines and faults. A step of a command
decides on up to three writes and does them one by one, and may be cut or fail between any
two; so `IInv` speaks of the disk as it is and of `Target`, the disk once they are done.
The lemmas named `...Moves` say what each step writes and where it goes on success and on
failure (`Routed`). `Anchored` says that a machine with a server has a trust that was
settled, and that only the store is ever lost; `Settled`, that what nobody is at work on
is what was settled, or that without the store, with a certificate that goes with it, and
that pending writes do no harm to that; `Aboard`, that a client verifies with what was
settled, whatever is left of it on disk; `Planned`, what setup is after at each step while
it is at work: the trust it found, the one it opened, or the one it puts back. Whatever
cuts it, either the disk is as good as the one it found or it counts as torn. The service
settles a trust by itself only where the store was lost, and then settles the store again:
with nobody to confirm a CA it takes no other.

### Without the faults

Eight theorems take a kind of fault away and drop the exemption it is for, so that an
exemption cannot hide anything else.

| Theorem | Without | Holds |
|---|---|---|
| `OnceUnlessRefused` | failed saves, armings and restarts, and `renew` | a task restarts the machine once, the documents' rule that `once_per_task` refutes |
| `AppliedWhereNothingHeld` | held passes | what stands as applied, and is still what would be sent, is done at any moment |
| `OneNameWhereCallsWork` | failed native calls, crashes and power cuts | a member and its object have one name, but between the two calls |
| `NoReplayWhereFloorRead` | unreadable floors | no older manifest after a newer one |
| `NeverWithoutBinary` | failed renames and crashes | a binary is in place, but between two renames |
| `ServiceKeepsWayBack` | `fog-agent update` by hand | an unproven binary has its way back |
| `EndsAreTrueWhereListed` | sessions missing from a list | nobody present is ended at the server |
| `TrustSettledWhereWritten` | failed writes and killed setups | the trust is what was settled, or nothing once a new key erased the store |

The three of `SelfUpdate` keep its hypothesis that a command waits for a stopped service.
Every other fault stays possible in each. The second restart for a task, say, takes one of
those four: a crash, an unknown session count or a latch that fails do not cause it.

### Only model-checked

Every safety property that a passing run checks has a theorem. The liveness properties
have none, since fairness and ENABLED are outside what the prover does:
`ForcedRequestActs`, `RevertReported`, `BadVersionLeaves`, `GetsThrough`, `Converges`,
`ServerFollows`, `IdleLeaves`, `ServerLearns`, `ComesBack`.

## What is not modelled

- `enroll --reset-identity` and how the firmware's identity is read.
- What the operating system prints, and the syntax of cron expressions, load options
  and versions: each is what it parses to, or a refusal.
- In `SelfUpdate` and `RebootCoordinator` any poll may bring work, which includes what
  `Reconcile` does. The modules share config.json and are not composed: a save of one
  part writes what the others hold in memory, which is `SaveConfig` in `Facts`, and
  no module has a fault that depends on two of them. The rejoin marker, which two
  modules share, is where they are: in `RejoinLatch`.
- Signature chains, hashes, TLS: a copy is refused or not, a handshake fails or not.
- `enrollLoop` beside the probation: a binary on probation that is not enrolled waits
  there without looking at its deadline (`main.go:257`); `SelfUpdate` follows an
  enrolled agent.
- Providers that are calls into the operating system (activation, wake, printers'
  drivers), systemd, the log. `PROJECT.json` lists each.

## Plan

Done, in this order because a lost or repeated restart and a broken update are
what a fleet suffers from first: coordinator, self-update, rejoin, enrollment,
reconcile; then sessions, facts, installation and power schedules, the last with an
abstract specification and the proof that it is implemented.

Since then every safety property was proved, `RejoinLatch` put between the coordinator and
the rejoin, and each exemption traced to its fault.

Next:

1. An abstract specification for `Reconcile`: a register of the last state wholly
   applied, which the detailed one implements where no held pass is cut; and one
   for `Facts` and `Sessions`, a server that follows the machine.
2. `Enrollment` without its faults, which needs their kinds to be a constant first.
3. Pure algorithms, against reference definitions over bounded inputs: `Compare`
   and `Valid` of versions, `netboot.choose` and `parseLoadOption`.
