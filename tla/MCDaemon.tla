------------------------------ MODULE MCDaemon ------------------------------
(***************************************************************************)
(* The daemon process and the commands that start, stop and talk to it,    *)
(* for the model checker: the serving loop and its shutdown, an attached   *)
(* session, the session tokens, the socket, the instance record, the       *)
(* migration of the controller directory, the start of the engine, and the *)
(* supervision by concurrent commands.  Each part has the others as its    *)
(* environment already, so a behaviour is one of `part` and leaves the     *)
(* other parts as they were.  The supervisor and its like are there more   *)
(* than once, with bounds for different questions.                         *)
(***************************************************************************)
EXTENDS Naturals

CONSTANTS Parts

VARIABLES
    part,       \* the part a behaviour is of
    \* Activity
    accepting, operations, leases, requested, shuttingDown, moved, changed,
    activityCancelled, handler, worker, gone, idle, server,
    \* Attach
    client, sent, request, stopping, bridge, holding, inputClosed, forward, input, output,
    attachCancelled, pump, carrying, helperIn, helperOut, writable, guest, wrote, data,
    terminal, stream, peeked, received,
    \* Sessions
    pending, expired, due, issued, granted, evicted, answer,
    \* Socket
    name, listening, socketPc, socketSeen, ident,
    \* Record
    file, recordPc, recordSeen, aside, recordCli, rd,
    \* Controller
    durable, active, walled, quarantines, backups, temps, controllerPc, legacy, snap, todo,
    outcome, version, starts, faults, old, absorbed, foreign,
    \* Startup
    env, startupCli, startupPc, diag, age, waited, engine, died, startupSock, deaths,
    \* Supervisor
    phase, elder, supervisorSock, rec, lock, supervisorCli

activityVars == <<accepting, operations, leases, requested, shuttingDown, moved, changed,
                  activityCancelled, handler, worker, gone, idle, server>>
attachVars == <<client, sent, request, stopping, bridge, holding, inputClosed, forward,
                input, output, attachCancelled, pump, carrying, helperIn, helperOut,
                writable, guest, wrote, data, terminal, stream, peeked, received>>
sessionsVars == <<pending, expired, due, issued, granted, evicted, answer>>
socketVars == <<name, listening, socketPc, socketSeen, ident>>
recordVars == <<file, recordPc, recordSeen, aside, recordCli, rd>>
controllerVars == <<durable, active, walled, quarantines, backups, temps, controllerPc,
                    legacy, snap, todo, outcome, version, starts, faults, old, absorbed,
                    foreign>>
startupVars == <<env, startupCli, startupPc, diag, age, waited, engine, died, startupSock,
                 deaths>>
supervisorVars == <<phase, elder, supervisorSock, rec, lock, supervisorCli>>
vars == <<part, activityVars, attachVars, sessionsVars, socketVars, recordVars,
          controllerVars, startupVars, supervisorVars>>

\* Beside a durable operation there is a log stream that follows, or a request
\* to shut down.
Following == [c \in {"a", "b"} |-> IF c = "a" THEN "durable" ELSE "follow"]
Stopping == [c \in {"a", "b"} |-> IF c = "a" THEN "durable" ELSE "shutdown"]

\* What the two commands are that the supervisor meets.
Ordinary == [c \in {"c1", "c2"} |-> IF c = "c1" THEN {"restart", "connect"} ELSE {"start", "stop"}]
Forced == [c \in {"c1", "c2"} |-> IF c = "c1" THEN {"force", "connect"} ELSE {"start"}]
Living == [c \in {"c1", "c2"} |-> IF c = "c1" THEN {"connect"} ELSE {"stop"}]

Activity == INSTANCE Activity WITH
    Calls <- {"a", "b"}, Kind <- Following, Disconnects <- FALSE, Signals <- TRUE,
    Impatient <- TRUE,
    cancelled <- activityCancelled

ActivityLive == INSTANCE Activity WITH
    Calls <- {"a", "b"}, Kind <- Stopping, Disconnects <- TRUE, Signals <- FALSE,
    Impatient <- FALSE,
    cancelled <- activityCancelled

Attach == INSTANCE Attach WITH
    Cap <- 1, Frames <- {"stdin", "close", "bad", "odd"}, MaxInput <- 1, MaxOutput <- 2,
    Echo <- FALSE, Quits <- TRUE, Leaves <- FALSE, Stops <- FALSE,
    cancelled <- attachCancelled

AttachLive == INSTANCE Attach WITH
    Cap <- 1, Frames <- {"stdin"}, MaxInput <- 2, MaxOutput <- 0, Echo <- TRUE,
    Quits <- FALSE, Leaves <- TRUE, Stops <- FALSE,
    cancelled <- attachCancelled

Sessions == INSTANCE Sessions WITH
    Tokens <- 1 .. 4, Cap <- 2

Socket == INSTANCE Socket WITH
    Daemons <- {"d1", "d2", "d3"}, Fenced <- TRUE,
    pc <- socketPc, seen <- socketSeen

Record == INSTANCE Record WITH
    Daemons <- {"d1", "d2"}, Exclusive <- TRUE,
    pc <- recordPc, seen <- recordSeen, cli <- recordCli

Controller == INSTANCE Controller WITH
    MaxVersion <- 4, MaxStarts <- 3, MaxFaults <- 1,
    pc <- controllerPc

Startup == INSTANCE Startup WITH
    Launches <- {"l1", "l2"}, Environments <- {{}, {"arca"}, {"arca", "fake"}},
    Faults <- {"directory", "store", "attach", "artifacts", "variables", "spawn", "reconcile"},
    EngineReadiness <- 2, EngineBacked <- 4, Plain <- 2, Preamble <- 1, MaxDeaths <- 2,
    cli <- startupCli, pc <- startupPc, sock <- startupSock

Supervisor == INSTANCE Supervisor WITH
    Daemons <- {"d1", "d2"}, Commands <- {"c1", "c2"}, Elder <- "elder", Kinds <- Ordinary,
    Elders <- {"none", "current", "outdated", "legacy", "dead"}, Late <- FALSE,
    Crashes <- FALSE, Observations <- 2,
    sock <- supervisorSock, cli <- supervisorCli

Interrupted == INSTANCE Supervisor WITH
    Daemons <- {"d1", "d2"}, Commands <- {"c1", "c2"}, Elder <- "elder", Kinds <- Forced,
    Elders <- {"outdated", "dead"}, Late <- TRUE, Crashes <- TRUE, Observations <- 2,
    sock <- supervisorSock, cli <- supervisorCli

SupervisorLive == INSTANCE Supervisor WITH
    Daemons <- {"d1"}, Commands <- {"c1", "c2"}, Elder <- "elder", Kinds <- Living,
    Elders <- {"outdated"}, Late <- FALSE, Crashes <- TRUE, Observations <- 2,
    sock <- supervisorSock, cli <- supervisorCli

-----------------------------------------------------------------------------

\* The parts that are not looked at start, and stay, in one initial state.
Init ==
    /\ part \in Parts
    /\ IF part = "activityLive" THEN ActivityLive!Init ELSE Activity!Init
    /\ IF part = "attachLive" THEN AttachLive!Init ELSE Attach!Init
    /\ Sessions!Init
    /\ IF part = "socket" THEN TRUE ELSE name = Socket!None
    /\ Socket!Init
    /\ IF part = "record" THEN TRUE ELSE file = [f \in Record!Files |-> Record!Nowhere]
    /\ Record!Init
    /\ IF part = "controller" THEN TRUE
       ELSE active = Controller!Empty /\ walled = {} /\ durable = 0
    /\ Controller!Init
    /\ IF part = "startup" THEN TRUE
       ELSE env = [l \in {"l1", "l2"} |-> {"arca"}] /\ startupSock = Startup!None
    /\ Startup!Init
    /\ IF part \in {"supervisor", "late", "supervisorLive"} THEN TRUE ELSE elder = "none"
    /\ IF part = "late" THEN Interrupted!Init ELSE IF part = "supervisorLive" THEN SupervisorLive!Init ELSE Supervisor!Init

\* A step of the part p leaves the others alone.
Only(p) ==
    /\ part = p /\ UNCHANGED part
    /\ IF p \in {"activity", "activityLive"} THEN TRUE ELSE UNCHANGED activityVars
    /\ IF p \in {"attach", "attachLive"} THEN TRUE ELSE UNCHANGED attachVars
    /\ IF p = "sessions" THEN TRUE ELSE UNCHANGED sessionsVars
    /\ IF p = "socket" THEN TRUE ELSE UNCHANGED socketVars
    /\ IF p = "record" THEN TRUE ELSE UNCHANGED recordVars
    /\ IF p = "controller" THEN TRUE ELSE UNCHANGED controllerVars
    /\ IF p = "startup" THEN TRUE ELSE UNCHANGED startupVars
    /\ IF p \in {"supervisor", "late", "supervisorLive"} THEN TRUE ELSE UNCHANGED supervisorVars

Next ==
    \/ Only("activity") /\ Activity!Next
    \/ Only("activityLive") /\ ActivityLive!Next
    \/ Only("attach") /\ Attach!Next
    \/ Only("attachLive") /\ AttachLive!Next
    \/ Only("sessions") /\ Sessions!Next
    \/ Only("socket") /\ Socket!Next
    \/ Only("record") /\ Record!Next
    \/ Only("controller") /\ Controller!Next
    \/ Only("startup") /\ Startup!Next
    \/ Only("supervisor") /\ Supervisor!Next
    \/ Only("late") /\ Interrupted!Next
    \/ Only("supervisorLive") /\ SupervisorLive!Next

Spec == Init /\ [][Next]_vars

\* What each part's module says must happen, for the part that is looked at.
LiveSpec ==
    /\ Spec
    /\ \A what \in ActivityLive!Promised : WF_activityVars(part = "activityLive" /\ ActivityLive!Must(what))
    /\ \A what \in AttachLive!Promised : WF_attachVars(part = "attachLive" /\ AttachLive!Must(what))
    /\ \A p \in {"d1", "elder", "c1", "c2"} :
          WF_supervisorVars(part = "supervisorLive" /\ SupervisorLive!Must(p))

-----------------------------------------------------------------------------
\* The counters of the activity tracker, seen through its methods, implement
\* the admission gate of module Gate: no operation is admitted after the gate
\* is closed, and it drains only when none is left.
GateIsKept == Activity!GateIsKept

\* Once cancel_streams has notified, every stream that waits is woken.
CancellationIsNeverLost == part = "activity" => Activity!CancellationIsNeverLost

\* The idle timer runs out only while nobody uses the daemon.
ExpiryIsIdle == Activity!ExpiryIsIdle

\* Whoever has got the exit code has got all output before it, in order.
ExitFollowsOutput == part = "attach" => Attach!ExitFollowsOutput

\* Every session token handed out is in exactly one place.
TokensAreAccountedFor == part = "sessions" => Sessions!TokensAreAccountedFor

\* A serving daemon's own socket is at the name.
ServingIsReachable == part = "socket" => Socket!ServingIsReachable

\* The instance record: what is at the name is empty and 0200 or complete and
\* 0600, while a daemon serves it is its own complete record, a reader that
\* looks across a rename never sees 0200 with content, and reading across a
\* change never ends in a terminal verdict.
RecordNamesTheServer ==
    part = "record" =>
        /\ Record!TypeOK /\ Record!ThreeFaces /\ Record!ServingIsNamed
        /\ Record!TornLooksAreLegal /\ Record!ReadsAreRetried

\* The migration of the controller state: wherever it is cut off, the last
\* committed rows are kept, a legacy file leaves its name only with its whole
\* family backed up, and a serving daemon has settled it.  No start reports a
\* conflict that its own interrupted work made, or refuses what it can have
\* left itself, but for an unmarked quarantine.
MigrationIsSafe ==
    /\ [](part = "controller" =>
             /\ Controller!TypeOK /\ Controller!NothingLost /\ Controller!BackedUp
             /\ Controller!ServingIsSettled)
    /\ Controller!ConflictsAreForeign
    /\ Controller!RefusalsAreEarned

\* The start of the engine: a failure the daemon put a name to is the one the
\* user reads, an engine that died is reported as exited and never as slow, one
\* that survived an earlier daemon is adopted, and one behind the socket of
\* another user is not.
StartupIsReported ==
    part = "startup" =>
        /\ Startup!TypeOK /\ Startup!NamedFailureReachesTheUser
        /\ Startup!DeadIsNotSlow /\ Startup!SurvivorIsAdopted /\ Startup!ForeignIsRefused

\* Concurrent commands converge on one daemon: `stop` says stopped only of one
\* whose process is gone, a command that started one reports success only for
\* that one, and a live daemon's record is withdrawn by that daemon alone.
CommandsConverge ==
    /\ [](part = "supervisor" =>
             Supervisor!TypeOK /\ Supervisor!OneDaemon /\ Supervisor!StoppedIsDead)
    /\ [](part = "late" => Interrupted!StartedIsMine)
    /\ Interrupted!LiveRecordIsKept

\* A shutdown that has begun comes to its end without shutdown_timeout, and a
\* daemon that nobody uses any more ends by itself.
DaemonEnds ==
    /\ ActivityLive!ShutdownEnds
    /\ part = "activityLive" => ActivityLive!IdleDaemonExits

\* The guest process does not outlive its session.
GuestIsReleased == AttachLive!GuestIsReleased

\* Every command ends, and with it its hold on the lifecycle lock.
CommandsEnd == SupervisorLive!CommandsEnd

=============================================================================
