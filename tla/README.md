# A TLA+ verification of Gas Can

Gas Can runs developer sandboxes in containers. The client `gascan` talks to a
daemon `gascand`, which keeps what it wants and what it knows in a SQLite store
and drives a container runtime. Around the two are files that several processes
share (the socket, the instance record, SSH configuration and keys, engine
artifacts) and the tools that build the workspace image.

This directory holds models of these parts, checked by TLC on small instances,
and theorems about the most important of them, proved by TLAPS for all
instances. `PROJECT.json` lists every part with its status, the lines of code
each definition stands for, the runs, the hazards and the theorems. Paths below
are relative to `src/crates/` unless they begin with `scripts/` or `docs/`.

## How the system fits together

A request takes its sandbox's lock, reads the row, begins an operation in the
store (one transaction: row, operation, first event), then alternates runtime
commands and store writes, and ends the operation. A daemon that dies leaves the
operation pending. The next one settles it in `reconcile()`, before it serves.

The daemon admits requests through an activity tracker, which also decides when
it is idle and when a shutdown is complete. An interactive request gets a
session token and is then bridged to the guest by an attach stream. Clients find
the daemon through its socket and its instance record, and start, stop and
replace it under a lifecycle lock. At its start a daemon migrates its database
to its durable place and looks for, or starts, the engine behind its backend.

SSH access to a sandbox consists of a key pair, a port, a generation of trusted
host keys and a configuration that names both; one block in the user's own
`~/.ssh/config` includes it. Doctor reads all this while it changes.

## Modules

| Module | Models | Source |
|---|---|---|
| `Store` | tables and transactions; what they promise | `gascand/src/store.rs` |
| `StoreClient` | the store under an arbitrary caller, for TLC | |
| `Service` | the runtime's resources and commands; what handlers share: begin, emit, error path, commit, removal, failing calls | `gascand/src/service.rs`, `gascan-apple/src/backend.rs` |
| `Up`, `Apply` | `up` with the guest's provisioning; `apply` with image replacement and rollback | `gascand/src/service.rs` |
| `Recovery` | the start of the daemon, `recover_pending`, the evidence in the log | `gascand/src/{service,main}.rs` |
| `Lifecycle` | everything above with `start`, `stop`, `destroy`, crashes, reboots and interference | |
| `Activity`, `Gate` | `ActivityTracker` and `serve_bound`, one atomic access per step; the gate they implement | `gascand/src/api.rs` |
| `Sessions` | the registry of session tokens | `gascand/src/api.rs` |
| `Attach` | the attach bridge, the backend's pump, the response stream | `gascand/src/api.rs`, `gascan-apple/src/backend.rs` |
| `Socket`, `Record` | the socket and the instance record, one system call per step | `gascand/src/socket.rs`, `gascan/src/daemon.rs` |
| `Supervisor` | concurrent `start`, `stop`, `restart` and connecting commands | `gascan/src/daemon.rs` |
| `Controller` | migration of the controller's database | `gascand/src/controller_state.rs` |
| `Startup` | a launch seen by the client, the daemon and the engine | `gascan/src/daemon.rs`, `gascand/src/{main,engine}.rs` |
| `Ssh`, `Identity` | publication of aliases; the key pair | `gascand/src/ssh/` |
| `UserSshConfig` | the block in the user's file | `gascan/src/ssh_config.rs` |
| `SshDoctor`, `Doctor` | the inspection of SSH state; the report | `gascand/src/doctor.rs`, `gascan-core/src/doctor.rs` |
| `Configure` | developer onboarding | `gascan/src/configure/` |
| `Terminal` | prompts, attached terminal, signals | `gascan/src/{guest,configure/prompt}.rs` |
| `Subprocess` | the ways a program is run and its output read | several |
| `Artifacts` | `gascan engine fetch` | `gascan-core/src/engine_artifacts.rs` |
| `Transport` | from a manifest to published ports, with rollback | `gascan-core/src/{manifest,policy}.rs`, `gascand/src/service.rs` |
| `Evidence` | how both backends read what a runtime says it holds | `gascan-arca/src`, `gascan-apple/src`, `gascan-core/src/runtime.rs` |
| `Observations` | the Apple backend's cache of observations | `gascan-apple/src/backend.rs` |
| `FakeRuntime`, `Contract` | the runtime of the tests; what every backend owes the daemon | `gascan-core/src/fake_runtime.rs`, `gascan-conformance/src/lib.rs` |
| `ImageLock`, `NpmClosure`, `Context`, `WorkstationCache`, `Snapshot`, `Prefetch` | the tools of the workspace image | `scripts/src/` |
| `MC…` | instances for TLC | |
| `StoreProofs`, `HandlerProofs`, `LifecycleProofs`, `ActivityProofs`, `ArtifactsProofs` | proofs; those of `Sessions`, `Socket` and `Identity` are in these modules | |

An action stands for one step that another process, a crash or a failure can
come before or after: a store transaction, a runtime command, an access to an
atomic, a system call on a shared file, a message taken from or put into a
channel. Definitions have the names of the code where TLA+ allows it. Operators
introduced by "Mistake:" are plausible bugs; they are not part of a
specification and serve to show that a property can fail.

`MCDaemon`, `MCHost`, `MCBackends` and `MCImages` each put several parts that
do not interact into one specification: the variable `part` says of which one a
behaviour is, and the others stay as they are. Where a part does have others in
its environment (the CLI in `Record`, operations in `SshDoctor`, a second sandbox
in `Observations`), its own module models them.

### The daemon (`Lifecycle`)

`rows` and `ops` are the tables; the id of an operation is its index and its
events are a sequence. `box` and `aux` are what the runtime holds. `task[s]` is
the handler that holds the lock of `s`: its program counter and its local
variables (`prior` is the row it read, `rec` the row it will write, `seen` the
container it inspected, `made` what it created). `approved` is the image that
the daemon's binary approves. `daemon`, `queue` and `look` are the start of the
daemon and recovery's position. `hadVolumes` is a history variable: the
sandboxes that had volumes when their operation began.

`plan` bounds a behaviour: which sandboxes, requests, manifests and images
occur, which calls may fail and how often, how often the daemon or the host
dies. `Fails(p)` lets the call at boundary `p` fail; a command that fails may
have had its effect all the same (`Perhaps`, and in creation the evidence that
`reconcile_created` collects). Two things are one step although the code makes
two calls: the error path inspects and records (`FailOperation`), and recovery
inspects and, for a destroy, lists (`RecoverInspect`).

## Runs

Every run passes unless it says otherwise. A property that a run names is often
a conjunction; the conjuncts are defined and explained in the part's own module.

| Run | Instance | Shows | States |
|---|---|---|---|
| `store` | 2 sandboxes, 2 roots, 2 operations, 3 events, any caller, symmetry | the tables are consistent, the journal only grows, a live sandbox never vanishes | 67,266 |
| `lifecycle` | 3 operations under five plans: one crash or reboot; two failing runtime calls; two failing store writes and a crash; two of loss, exit, foreign container, failing stop or remove and a crash; two sandboxes with a failing call and a crash | handlers hold their operations, every change is journaled, recorded outcomes are real, failures are undone, volumes and foreign containers stay, nobody is stranded | 2,043,044 |
| `lifecycle_live` | 2 operations, 1 image, 1 failing call, 1 crash, fairness | every operation ends | 8,365 |
| `daemon` | 2 calls, attach channels of capacity 1, 4 tokens and 2 places, 3 daemons at the socket, 2 at the record, 3 starts of the migration, 2 launches, 2 commands | admission, idleness, cancellation, exit after output, tokens, reachability, the record, the migration, startup reports, concurrent commands | 1,671,917 |
| `daemon_live` | the same parts with fairness | shutdown and idle exit happen, the guest is released, commands end | 113,787 |
| `host` | 2 sandboxes and 2 operations of SSH, 3 callers of the identity, 2 processes and an edit of the user's file, 3 operations beside Doctor, both backends' reports, 2 onboarding commands, 3 prompts and 3 signals, all eight runners, 3 fetches | publication, identity, the user's file, reports, onboarding, terminal, subprocesses, artifacts | 1,267,036 |
| `host_live` | SSH, signals and subprocesses with fairness | SSH operations end, a signal ends a session, calls return | 31,892 |
| `backends` | 2 edits of the manifest, 1 fault; 2 resources or containers; 2 sandboxes with 1 operation or 1 with 3; 1 restart of the fake | transport and ports over apply and rollback, evidence, observations, the fake runtime implements `Contract` | 885,799 |
| `images` | 2 versions, 2 updates; closures of 3 packages; 3 runs, 2 edits, 1 kill; 2 callers; 2 fetchers | lock and closure, build context and cache, snapshots and the browser are whole whoever is killed | 681,437 |
| `abort` | 1 crash, 2 images | refuted: the daemon comes up again after every crash | |
| `transport_lost` | no fault | refuted: a refused replacement restores the previous container | |
| `attach_exit` | 1 frame of input | refuted: the exit code is exact | |

Why the bounds suffice for the cases of interest. Three operations allow a
sandbox to be created, changed, and acted on again, which is the longest chain
whose outcome depends on what came before. Two images give an approved and a
previous one, two manifests a matching and a stale resolution. One crash anywhere
is followed by a full recovery, and crashes inside recovery are included. Two
failing calls let a rollback fail after the call it rolls back; properties that
promise an outcome after a single failure say `faults <= 1`. The lock is per
sandbox, so a second sandbox matters to the store and to recovery's loop only.
Of the other parts, each instance has the second process, sandbox or operation
that can come in between, a channel or registry that is full, and one more
failure than the code handles without help. The bounds of the proofs' theorems
are none: they hold for all sets and numbers.

Deadlock is checked where the system never stops (`store`, `lifecycle`,
`lifecycle_live`): the daemon can always be shut down and started. The parts of
the other runs end: a process exits, a command returns, a tool has done its work.

`Orphans`, in `NothingIsStranded`, is the strongest statement on recovery that
the code supports: while the daemon serves, there are no more pending operations
without a handler than calls that failed or containers others touched.

### Refinements

`Activity` implements `Gate` (`GateIsKept`): the counter, the flag and the
notifications, read one at a time, are one gate. `FakeRuntime` implements
`Contract` (`KeepsContract`). The daemon implements the arbitrary caller of the
store (theorem `DaemonIsACaller`).


### Disagreements between the code and what is said of it

Three are runs that TLC refutes: `abort`, `transport_lost` and `attach_exit`;
`PROJECT.json` quotes the lines. The following were found in the same way. Each
is a property of the named module that fails under the constants given; the
property is stated there and is in no run. The design is
`docs/superpowers/specs/2026-07-13-macos-sandbox-design.md`.

| Module, property | Constants | What happens |
|---|---|---|
| `Lifecycle`, `ReturnedIsTerminal` | a plan with `loss` | a container was deleted by others: `up` fails, the store refuses Running → Absent, and the operation stays pending (`gascand/tests/lifecycle.rs:3292` asserts that none is) |
| `Lifecycle`, `UpHasProvisioned` | a plan with `setup`, `MaxOps = 4` | `destroy` keeps the resolution in the row, so the `up` after a failed setup takes the new container for provisioned (design, line 128) |
| `Lifecycle`, `FailedUpLeavesNothing` without its hypothesis on `store` | a plan with `store` | the `created` event is written outside the block that rolls back (design, line 122) |
| `Lifecycle`, `RefusedUpCanBeDestroyed` | a plan with `store` | the row stays Creating without a storage layout; neither `up` nor the `destroy` it advises accepts it (`gascand/src/service.rs:434`) |
| `Activity`, `DrainedIsQuiet` | `Disconnects = TRUE` | the connection of a running operation is gone, the server future completes with the shutdown future, and `serve_bound` returns without `wait_for_operations` (`gascand/tests/daemon_idle.rs:797`) |
| `Activity`, `ShutdownEnds` | one call, which follows logs | the follow task does not look at `shutting_down`; a notification while it reads or sends is lost (`gascand/src/api.rs:3161`) |
| `Attach`, `BridgeEnds` | `Leaves`, not `Quits`; `MaxInput = 2`, `MaxOutput = 3` | bridge and pump each wait for the other with both channels full, and nothing looks at the disconnect (`gascand/src/api.rs:2906`) |
| `Attach`, `ExitFollowsOutput` | `Stops = TRUE` | a frame that is being sent when the shutdown arrives is dropped; later output and the exit code follow (`gascand/src/api.rs:2720`) |
| `Attach`, `StreamEndsWithTerminal` | `Quits`; no input, no output | the terminal frame and the end of the data arrive between two polls, and the stream ends without the frame (design, line 102) |
| `Supervisor`, `BackendsAgree` | `Kinds = {"start", "connect"}`, `Observations = 3` | a record published between the two halves of an unlocked look is taken for an unrecorded backend (`gascan/src/daemon.rs:2738`) |
| `Supervisor`, `ConnectStarts` | `Kinds = {"connect"}`, `Elders = {"current"}` | socket gone, record not yet: the command that needs a daemon ends with `InvalidState` (design, line 49) |
| `Socket`, `OneServer` | `Fenced = FALSE` | two daemons started by hand: the second removes the socket the first has just published (`gascand/src/socket.rs:316`) |
| `Record`, `BindsAreRetried` | two daemons, `Exclusive = TRUE` | a retirement after the descriptor was validated ends the inspection instead of repeating it (`gascan/src/daemon.rs:3315`) |
| `Controller`, `InterruptedArchivalCompletes` | `MaxStarts = 2`, no fault | a quarantine without its marker is refused by every later start (`docs/superpowers/specs/2026-08-03-durable-controller-state-design.md:137`) |
| `Ssh`, `BrokenSandboxIsAlone` | two sandboxes, one fault | `up` of a healthy sandbox ends as uncertain because another one is not published (`docs/superpowers/specs/2026-07-25-networked-native-ssh-design.md:190`) |
| `Ssh`, `ReadersKeepTheirGeneration` | `read` in `Disturbances` | generations that a reader has yet to open are removed (the same document, line 129; a later one asks for the removal) |
| `Identity`, `AdvisedUpSucceeds` | `MaxCrashes = 1` | a private key alone is refused by every call, and Doctor's advice is `gascan up` (`gascand/src/doctor.rs:74`) |
| `SshDoctor`, `FirstCreateIsDeferred` | `MaxOps = 1`, no fault | the transport is stored long before the resolution; in between Doctor advises the `up` that is running (`gascand/tests/doctor_state.rs:563`) |
| `Startup`, `AdoptedRatherThanDuplicated` | two launches | an engine that does not listen yet is not found, and a second one is started (`gascand/src/engine.rs:201`) |
| `Startup`, `DeadDaemonIsNotADeadline` | a failing `reconcile` | the readiness loop never asks whether the child lives (`gascan/src/daemon.rs:535`) |
| `Artifacts`, `LiveWasVerified` | `Overlap = TRUE` | one staging directory, no lock: a fetch promotes what another is unpacking (`gascan-core/src/engine_artifacts.rs:530`) |
| `Artifacts`, `ReaderAlwaysFindsAKernel` | one attempt, no fault | both live artifacts are removed before either is renamed (`gascan-core/src/engine_artifacts.rs:629`) |
| `Configure`, `RetryAloneSucceeds` | `HelperHalf = TRUE` | a key without a Git identity is refused as invalid by every later command (`docs/superpowers/specs/2026-07-30-developer-onboarding-design.md:93`) |
| `Terminal`, `KillRestores` | `External = TRUE` | the terminal is raw before the signals are registered (`docs/superpowers/plans/2026-07-13-core-control-plane.md:424`) |
| `Terminal`, `InterruptCancels` | two stages, two signals | an interrupt after a prompt's last look is cleared with the prompt (`docs/superpowers/plans/2026-07-30-developer-onboarding.md:415`) |
| `Observations`, `RollbackLeavesNothing` | two sandboxes | a late inventory for one sandbox drops the proof of what another has just made (`docs/superpowers/specs/2026-07-22-per-sandbox-managed-network-design.md:126`) |
| `Observations`, `EvidenceIsComplete` | two faults | a failing inventory in `reconcile_created` loses the resource in doubt (`docs/superpowers/plans/2026-07-13-core-control-plane.md:116`) |
| `FakeRuntime`, `FailureNamesWhatItMade` | `DiskFails = TRUE` | the failure names nothing although memory has changed (the same line) |
| `Evidence`, `BackendsAgree` | volumes and networks | one label that does not parse hides the whole Apple inventory (`gascan-arca/src/translate.rs:552`) |
| `Transport`, `RestoreKeepsTheRest` | port 22 among the ports | an application port declared as 22 is dropped with the SSH mapping (`gascan-core/src/policy.rs:122`) |
| `Transport`, `PublishedIsDeclared` | an edited `[ports]` section | apply replaces the container for image or SSH only, so the new ports are not published (`docs/reference/manifest.md:161`) |
| `Transport`, `AcceptedIsTranslated` | `Backend = "apple"`, user root | validated and compiled, then refused (`docs/reference/manifest.md:74`) |
| `Context`, `ContextIsAlwaysThere` | two processes | one run removes as abandoned the tree another is about to exchange (`docs/superpowers/plans/2026-07-15-connected-workspace-image.md:207`) |

## Fairness

Only weak fairness is assumed, of one task at a time, and of steps that the code
makes without waiting for the environment:

- a handler's next step, recovery, and the start of a daemon that is down
  (`lifecycle_live`). tokio polls a ready future, a handler is not cancelled when
  its client disconnects, recovery runs before the daemon serves, and the next
  client starts the daemon. It rests on one assumption about the environment: a
  runtime command returns. The command runner of the Apple backend waits without
  a timeout, so a command that hangs holds its sandbox's lock for as long;
- the tasks in `Promised` of `Activity`, `Attach`, `Terminal` and `Subprocess`:
  spawned futures, threads and programs that go on when they can. Clients may
  stop reading, leave or send nothing; a guest that is told to end does so;
- the commands and daemons of `Supervisor`, which have deadlines of their own;
- the processes of `Ssh`, which hold the publication lock for a bounded time.

Nothing is assumed of requests, signals, crashes or interference. `lifecycle_live`
has one image because a crash inside a replacement prevents every later start
(run `abort`), and no failing store write because an operation whose end cannot
be written stays pending until a restart that nobody is obliged to make.

## Proofs

All theorems are for any sets and numbers: sandboxes, images, manifests,
operations, calls, tokens, daemons, callers, attempts, faults and crashes. The
assumptions on constants are those named in the modules: `None`, `NoRow` and
`NoBox` are no manifest, row and container, `RootOf` gives every sandbox a root,
`Plans` are plans. Further hypotheses stand in the theorems.

**Store** (`StoreProofs`). `AnyCaller` makes any transaction with any arguments.
`StoreSteps` reduces a step to one of four forms (put, begin, append, finish),
and `BeginStep`, `AppendStep` and `FinishStep` say what each does to the two
tables. `StoreTypeOK` is inductive by itself, and each other invariant is
inductive beside it. `OnePending` needs the check in `begin_operation` and that
nothing turns an ended operation pending again; `JournalAgreesWithStatus` is
proved operation by operation; `UniqueRoots` uses that an accepted put compares
the new root with all others and that a row keeps its root.

**Daemon** (`HandlerProofs`, `LifecycleProofs`). None of `TypeOK`,
`HandlersHoldTheirOperation`, `MutationsAreJournaled`, `ResourcesAreKept` and
`DestroyedIsGone` is inductive: whether a handler may remove a volume depends on
what it read many steps earlier. `LifecycleInvariant` therefore says for every
step a handler can stand at

- that its operation exists, is pending and is of its sandbox (`Holds`);
- which operation leads there, where it goes next and where errors go
  (`ControlOf`);
- which rows it has read and which container it replaces (`DataOf`);
- that what a failed create removes is its own: volumes are in `made` only if
  there were none at the beginning (`VolumesOf`);
- that a destroy that is about to be completed has left nothing (`LegalAt`);

and of recovery that no handler runs beside it, that its queue holds operations,
and that the verdict it is about to record rests on what the runtime showed
(`Settling`). There is one lemma per step of a handler (`…Proceeds`), each of
which shows that the step is legal where it arrives, changes the runtime of its
own sandbox only (`Touches`) and the store by one transaction of its own
operation (`Writes`). `HandlerStepFacts` collects them, and `LifecycleProofs`
adds requests, recovery, start, shutdown, crash, reboot and interference.
`DaemonIsACaller` is a refinement: every step of the daemon is a transaction of
`AnyCaller` or leaves the tables alone, so all that is proved of the store holds
of the daemon (`DaemonKeepsStore`). TLC checked `LifecycleInvariant` on the
instance of run `lifecycle` before it was proved.

**Activity** (`ActivityProofs`). `Bookkeeping` relates counters, flags, leases
and pending notifications to the step of every call, worker, watcher and of the
server; `WatcherSaw` is the part that makes the idle timer sound although it
reads one counter after the other: what it has seen stays true until the
generation moves. Refinement of `Gate` and the complete drain need
`~Disconnects`: while no client goes away before its call has ended. Without that
they are false (see above).

**Sessions**. `SessionInvariant` adds to `TokensAreAccountedFor` that the lists
hold issued tokens and are finite. The hypothesis is a capacity of at least one
(1024 in the code). The order in which expired tokens are remembered is any order
of the set, as a `HashMap` is iterated.

**Socket**. `SocketInvariant`: starts are alone, what a starting daemon has read
at the name is still there, a listener behind the name belongs to the daemon that
put it there. The hypothesis `Fenced` is the lifecycle lock of the CLI; a daemon
started by hand is the disagreement listed above.

**Identity**. `IdentityInvariant`: one caller stands between the two renames, it
owns the private key and has the public one staged; without a private key there
is no public one.

**Artifacts** (`ArtifactsProofs`). `FetchInvariant` follows the one attempt that
runs (`StagingOf`, `PreparedOf`, `PromotionOf`) and counts the attempts that are
doomed: each has met a fault of its own. The hypotheses are that attempts do not
overlap and are finitely many; overlap is the disagreement listed above.

Only model-checked: liveness, which is out of the prover's reach with ENABLED;
`NothingIsStranded`, `FailuresAreUndone`, and of `OutcomesAreReal` all but
`DestroyedIsGone`, which depend on how many calls have failed and on the order of
events in the log, and need an invariant that follows the content of rows,
containers and logs through a rollback; and the parts that have no proofs yet,
the refinement of `Contract` included. What a recursive definition computes needs
induction over data, which the installed provers cannot use; no module has a
RECURSIVE operator.


## What the models leave out

Data is abstracted to what the properties tell apart: a manifest is its
fingerprint, a file its version or its parts, a message one of a few kinds.
Texts, formats, sizes, permissions and logging are left out where no property is
about them. Beyond that:

- *Store, service, recovery.* A request that waits for the lock has done nothing
  and is not represented. The log keeps the phases that the daemon reads back;
  writing the others can fail but leaves no trace. The three managed volumes are
  one resource. Setup and tool resolution are written together: one field. The
  runtime is the Apple backend's: it refuses to create over any existing
  resource, and checks ownership before each removal. In `Lifecycle` SSH is
  disabled (`Ssh` and `Transport` model it), storage capacities do not change, and
  a command takes effect while the daemon that sent it lives. Whole provisioning
  runs are told apart, not their single commands. Port collisions are in
  `Transport`. The report of drift in `reconcile` changes nothing.
- *Activity.* Memory is sequentially consistent.
- *Supervisor.* Binding socket and record is one step each; `Socket` and `Record`
  have the system calls. The parsing of `ps`, `lsof` and `/proc` is left out, as
  are the records of interrupted publication left by earlier releases.
- *Controller.* Nothing substitutes files while the daemon looks at them.
- *Startup.* One tick is one round of every waiting loop; only the order of the
  two readiness bounds matters; a foreign socket is there from the beginning.
- *Ssh.* Reconciliation runs alone, before the daemon serves (`main.rs:664`);
  verifying the publication is one step; turning SSH off in the policy is not
  modelled.
- *SshDoctor, Doctor.* Operations are reduced to their writes of SSH state; an
  unsafe directory is not modelled; checks of the same kind are grouped and at
  most `MaxWrong` of them are wrong. Their liveness is not checked.
- *UserSshConfig.* An edit of the user is one step by path.
- *Configure.* A guest program is one step; one host name per forge; nobody edits
  the account at the forge; two commands that decline write the same receipt.
- *Terminal.* One process; piped input and writing output are left out; later
  signals are ignored once one was forwarded.
- *Subprocess.* A descendant that keeps the pipes open is not modelled; a program
  that is not waiting ends.
- *Artifacts.* A download is one step; removals during promotion do not fail.
- *Transport.* One sandbox and at most one fault: with two, a rollback that fails
  as well leaves an alias without a container. Environment, mounts and
  capabilities are left out.
- *Evidence.* A message carries both labels or none.
- *Observations.* Everything carries its sandbox's own labels; the recreate path
  is left out; a command that failed did nothing.
- *FakeRuntime.* Scripted results and the start gate of tests are left out;
  `Contract` says nothing of restarts.
- *ImageLock.* Upstream is resolved in one step; there is one updater.
- *Context.* The offline mode, and files outside the source fingerprint, are left
  out; an edit is never taken back.
- *Prefetch.* The image lock changes only while nobody runs; redirect rules and
  the checks of each archive entry are left out.

Not modelled at all: parsing and formatting of the command line, generated
protocol code, the planner's comparison of hashes, test suites. Known hazards
without a property are in `PROJECT.json` with the reason; besides those, a
runtime command that takes effect after its daemon was killed, a container
replaced by a foreign one between an ownership check and a start or stop, the
weak memory order of the admission flag, and the three seconds after which the
attach helper drops undelivered output, are outside these models.
