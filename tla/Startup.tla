------------------------------ MODULE Startup ------------------------------
(***************************************************************************)
(* A launch of gascand seen from both ends: the CLI that spawns the daemon *)
(* and polls for readiness (gascan/src/daemon.rs, client.rs), the daemon's *)
(* way from main to serving (gascand/src/main.rs), and the Arca engine it  *)
(* dials, or spawns when nothing answers (gascand/src/engine.rs).  They    *)
(* share the engine socket, the startup diagnostic file of the launch and  *)
(* the time: the CLI waits ClientReadiness, the daemon EngineReadiness.    *)
(*                                                                         *)
(* One tick is long against every poll: each waiting loop goes round once  *)
(* per tick.  What the daemon does before it waits takes at most Preamble  *)
(* ticks.  The engine is another program, modelled by what engine.rs says  *)
(* of it: it binds its socket some time after it starts, gives up where    *)
(* another engine listens, and may die and leave its socket file behind.   *)
(***************************************************************************)
EXTENDS Naturals

CONSTANTS
    Launches,         \* launches of a daemon
    Environments,     \* the backend variables of a launch: subsets of {"arca", "fake"}
    Faults,           \* the startup steps that may fail
    EngineReadiness,  \* ticks the daemon waits for an engine to listen (120 s)
    EngineBacked,     \* ticks the CLI waits for a daemon on an engine (150 s)
    Plain,            \* ticks the CLI waits for any other daemon (15 s)
    Preamble,         \* ticks a daemon may need before it serves or waits
    MaxDeaths         \* processes that are killed or die

None == "none"
Elder == "elder"
Never == EngineReadiness + 1

VARIABLES
    env,      \* [Launches -> the environment both processes were given]
    cli,      \* [Launches -> "new", "waiting", "ready", "deadline" or a startup code]
    pc,       \* [Launches -> where the daemon is]
    diag,     \* [Launches -> the code in the startup diagnostic file, or None]
    age,      \* [Launches -> ticks since the daemon was spawned]
    waited,   \* [Launches -> ticks the daemon has waited for its engine]
    engine,   \* [Launches -> the engine the daemon spawned]
    died,     \* [Launches -> the value of waited when that engine died]
    sock,     \* what is at the engine socket path
    deaths    \* processes that died

vars == <<env, cli, pc, diag, age, waited, engine, died, sock, deaths>>
clock == <<age, waited>>
machine == <<engine, died, sock, deaths>>

-----------------------------------------------------------------------------
(* backend_selection: two backends at once is an error.                    *)
Backend(e) ==
    IF {"arca", "fake"} \subseteq e THEN "ambiguous"
    ELSE IF "fake" \in e THEN "fake" ELSE IF "arca" \in e THEN "arca" ELSE "apple"

(* SupervisorTimeouts::for_environment.                                    *)
ClientReadiness(e) == IF Backend(e) = "arca" THEN EngineBacked ELSE Plain

(* The codes a reader accepts (startup_diagnostic::ACCEPTED_CODES).        *)
Codes == {"controller_state", "engine_environment_incomplete", "engine_artifacts_unavailable",
          "engine_socket_foreign", "engine_not_listening", "engine_exited",
          "engine_supervision_io", "engine_transport_unavailable"}

Init ==
    /\ env \in [Launches -> Environments]
    /\ cli = [l \in Launches |-> "new"]
    /\ pc = [l \in Launches |-> "unborn"]
    /\ diag = [l \in Launches |-> None]
    /\ age = [l \in Launches |-> 0] /\ waited = [l \in Launches |-> 0]
    /\ engine = [l \in Launches |-> None]
    /\ died = [l \in Launches |-> Never]
    /\ sock \in {None, Elder, "stale", "foreign"}
    /\ deaths = 0

-----------------------------------------------------------------------------
(* The CLI: spawn the daemon with a fresh, unlinked diagnostic file, and   *)
(* look until the daemon serves, explains itself or the deadline passes.   *)
(* The lifecycle lock is held meanwhile: one launch at a time is waited    *)
(* for, and none is made while a daemon serves.                            *)
Launch(l) ==
    /\ cli[l] = "new"
    /\ \A k \in Launches : cli[k] # "waiting" /\ pc[k] # "serving"
    /\ cli' = [cli EXCEPT ![l] = "waiting"]
    /\ pc' = [pc EXCEPT ![l] = "select"]
    /\ UNCHANGED <<env, diag, clock, machine>>

Look(l) ==
    /\ cli[l] = "waiting"
    /\ cli' = [cli EXCEPT ![l] =
                 IF pc[l] = "serving" THEN "ready"
                 ELSE IF diag[l] \in Codes THEN diag[l]
                 ELSE IF age[l] < ClientReadiness(env[l]) THEN "waiting" ELSE "deadline"]
    /\ UNCHANGED <<env, pc, diag, clock, machine>>

-----------------------------------------------------------------------------
(* The daemon.                                                             *)
Goto(l, label) == pc' = [pc EXCEPT ![l] = label]

(* An error before the diagnostic was released, written under its code.    *)
Reports(l, code) ==
    /\ Goto(l, "dead")
    /\ diag' = [diag EXCEPT ![l] = code]

(* An error whose only other end is the null stderr.                       *)
Silently(l) == Goto(l, "dead") /\ UNCHANGED diag

Proceeds(l, label) == Goto(l, label) /\ UNCHANGED diag

(* Directories and the backend, before anything can be reported.           *)
Select(l) ==
    /\ pc[l] = "select"
    /\ \/ "directory" \in Faults /\ Silently(l)
       \/ IF Backend(env[l]) = "ambiguous" THEN Silently(l) ELSE Proceeds(l, "store")
    /\ UNCHANGED <<env, cli, clock, machine>>

(* controller_state_paths and open_controller_store (module Controller).   *)
OpenStore(l) ==
    /\ pc[l] = "store"
    /\ \/ "store" \in Faults /\ Reports(l, "controller_state")
       \/ Proceeds(l, IF Backend(env[l]) = "arca" THEN "launch" ELSE "attach")
    /\ UNCHANGED <<env, cli, clock, machine>>

(* The Apple and fake arms: nothing of theirs is on the channel.           *)
Attach(l) ==
    /\ pc[l] = "attach"
    /\ ("attach" \in Faults /\ Silently(l)) \/ Proceeds(l, "reconcile")
    /\ UNCHANGED <<env, cli, clock, machine>>

(* The Arca arm: the three undefaulted variables and the artifact paths.   *)
EngineLaunch(l) ==
    /\ pc[l] = "launch"
    /\ \/ "artifacts" \in Faults /\ Reports(l, "engine_artifacts_unavailable")
       \/ "variables" \in Faults /\ Reports(l, "engine_environment_incomplete")
       \/ Proceeds(l, "own")
    /\ UNCHANGED <<env, cli, clock, machine>>

(* ensure_engine: require_own_socket, dial, and spawn on a miss.           *)
Answers == sock \in {Elder, "foreign"} \/ (sock \in Launches /\ engine[sock] = "listening")

RequireOwnSocket(l) ==
    /\ pc[l] = "own"
    /\ IF sock = "foreign" THEN Reports(l, "engine_socket_foreign") ELSE Proceeds(l, "dial")
    /\ UNCHANGED <<env, cli, clock, machine>>

Dial(l) ==
    /\ pc[l] = "dial"
    /\ IF Answers THEN Proceeds(l, "connect") ELSE Proceeds(l, "spawn")
    /\ UNCHANGED <<env, cli, clock, machine>>

SpawnEngine(l) ==
    /\ pc[l] = "spawn"
    /\ \/ /\ "spawn" \in Faults /\ Reports(l, "engine_supervision_io")
          /\ UNCHANGED engine
       \/ /\ Proceeds(l, "poll")
          /\ engine' = [engine EXCEPT ![l] = "starting"]
    /\ UNCHANGED <<env, cli, clock, died, sock, deaths>>

(* wait_until_listening, one round: dial, then has the child exited, then  *)
(* has the bound passed.                                                   *)
Poll(l) ==
    /\ pc[l] = "poll"
    /\ Proceeds(l, IF Answers THEN "recheck" ELSE "exited")
    /\ UNCHANGED <<env, cli, clock, machine>>

Exited(l) ==
    /\ pc[l] = "exited"
    /\ IF engine[l] = "dead" THEN Reports(l, "engine_exited") ELSE Proceeds(l, "late")
    /\ UNCHANGED <<env, cli, clock, machine>>

\* Mistake: the wait for the engine has no bound.
WaitsOn(l) ==
    /\ pc[l] = "late"
    /\ Proceeds(l, "asleep")
    /\ UNCHANGED <<env, cli, clock, machine>>

NotListening(l) ==
    /\ pc[l] = "late"
    /\ IF waited[l] >= EngineReadiness THEN Reports(l, "engine_not_listening")
       ELSE Proceeds(l, "asleep")
    /\ UNCHANGED <<env, cli, clock, machine>>

RequireOwnAgain(l) ==
    /\ pc[l] = "recheck"
    /\ IF sock = "foreign" THEN Reports(l, "engine_socket_foreign") ELSE Proceeds(l, "connect")
    /\ UNCHANGED <<env, cli, clock, machine>>

(* ChannelTransport::connect.                                              *)
Connect(l) ==
    /\ pc[l] = "connect"
    /\ IF Answers THEN Proceeds(l, "reconcile") ELSE Reports(l, "engine_transport_unavailable")
    /\ UNCHANGED <<env, cli, clock, machine>>

(* run_daemon: the diagnostic is released first, so a failing reconcile,   *)
(* or another daemon at the endpoint, goes unreported.                     *)
RunDaemon(l) ==
    /\ pc[l] = "reconcile"
    /\ \/ "reconcile" \in Faults /\ Silently(l)
       \/ Proceeds(l, IF \E k \in Launches : pc[k] = "serving" THEN "dead" ELSE "serving")
    /\ UNCHANGED <<env, cli, clock, machine>>

Daemon(l) ==
    \/ Select(l) \/ OpenStore(l) \/ Attach(l) \/ EngineLaunch(l)
    \/ RequireOwnSocket(l) \/ Dial(l) \/ SpawnEngine(l)
    \/ Poll(l) \/ Exited(l) \/ NotListening(l) \/ RequireOwnAgain(l)
    \/ Connect(l) \/ RunDaemon(l)

(* A daemon that serves stops; any daemon is killed.  Its engine stays.    *)
Stop(l) ==
    /\ pc[l] = "serving" /\ cli[l] # "waiting"
    /\ Goto(l, "dead")
    /\ UNCHANGED <<env, cli, diag, clock, machine>>

Kill(l) ==
    /\ pc[l] \notin {"unborn", "dead"} /\ deaths < MaxDeaths
    /\ Goto(l, "dead") /\ deaths' = deaths + 1
    /\ UNCHANGED <<env, cli, diag, clock, engine, died, sock>>

-----------------------------------------------------------------------------
(* The engine (external).                                                  *)
Dies(l) ==
    /\ engine' = [engine EXCEPT ![l] = "dead"]
    /\ died' = [died EXCEPT ![l] = waited[l]]

EngineBinds(l) ==
    /\ engine[l] = "starting"
    /\ IF Answers
       THEN Dies(l) /\ UNCHANGED sock
       ELSE /\ engine' = [engine EXCEPT ![l] = "listening"]
            /\ sock' = l
            /\ UNCHANGED died
    /\ UNCHANGED <<env, cli, pc, diag, clock, deaths>>

EngineDies(l) ==
    /\ engine[l] \in {"starting", "listening"} /\ deaths < MaxDeaths
    /\ Dies(l) /\ deaths' = deaths + 1
    /\ sock' = IF sock = l THEN "stale" ELSE sock
    /\ UNCHANGED <<env, cli, pc, diag, clock>>

ElderDies ==
    /\ sock = Elder /\ deaths < MaxDeaths
    /\ sock' = "stale" /\ deaths' = deaths + 1
    /\ UNCHANGED <<env, cli, pc, diag, clock, engine, died>>

(* Time passes once every loop has gone round and no deadline is overdue.  *)
Quick(l) == pc[l] \in {"unborn", "asleep", "serving", "dead"}

Tick ==
    /\ \E l \in Launches : cli[l] = "waiting" \/ pc[l] = "asleep"
    /\ \A l \in Launches :
          /\ Quick(l) \/ (waited[l] = 0 /\ age[l] < Preamble)
          /\ cli[l] = "waiting" => age[l] < ClientReadiness(env[l])
    /\ age' = [l \in Launches |-> IF cli[l] = "waiting" THEN age[l] + 1 ELSE age[l]]
    /\ waited' = [l \in Launches |-> IF pc[l] = "asleep" THEN waited[l] + 1 ELSE waited[l]]
    /\ pc' = [l \in Launches |-> IF pc[l] = "asleep" THEN "poll" ELSE pc[l]]
    /\ UNCHANGED <<env, cli, diag, machine>>

Next ==
    \/ \E l \in Launches : Launch(l) \/ Look(l) \/ Daemon(l) \/ Stop(l) \/ Kill(l)
                              \/ EngineBinds(l) \/ EngineDies(l)
    \/ ElderDies \/ Tick

Spec == Init /\ [][Next]_vars

-----------------------------------------------------------------------------
TypeOK ==
    /\ env \in [Launches -> Environments]
    /\ cli \in [Launches -> {"new", "waiting", "ready", "deadline"} \cup Codes]
    /\ pc \in [Launches -> {"unborn", "select", "store", "attach", "launch", "own", "dial",
                            "spawn", "poll", "exited", "late", "asleep", "recheck", "connect",
                            "reconcile", "serving", "dead"}]
    /\ diag \in [Launches -> Codes \cup {None}]
    /\ age \in [Launches -> 0 .. EngineBacked] /\ waited \in [Launches -> 0 .. EngineReadiness]
    /\ engine \in [Launches -> {None, "starting", "listening", "dead"}]
    /\ died \in [Launches -> 0 .. Never]
    /\ sock \in Launches \cup {None, Elder, "stale", "foreign"}
    /\ deaths \in 0 .. MaxDeaths

(* A failure the daemon put a name to is the one the user reads: the CLI   *)
(* never ends on a bare deadline for a launch whose daemon wrote, or will  *)
(* write, a diagnostic (the two readiness bounds are ordered, and a        *)
(* deadline reads the diagnostic once more).                               *)
NamedFailureReachesTheUser ==
    \A l \in Launches : cli[l] = "deadline" => diag[l] = None

(* An engine that died is reported as exited, never as slow: when the wait *)
(* ends with "not listening", the engine had not died in an earlier tick.  *)
DeadIsNotSlow ==
    \A l \in Launches : diag[l] = "engine_not_listening" => died[l] >= EngineReadiness

(* An engine that survived an earlier daemon is adopted: while it answers, *)
(* no launch starts a second one (engine.rs, dial first, spawn on a miss). *)
SurvivorIsAdopted ==
    sock = Elder => \A l \in Launches : engine[l] = None

(* The engine's socket of another user is never used.                      *)
ForeignIsRefused ==
    sock = "foreign" => \A l \in Launches :
        pc[l] \in {"connect", "reconcile", "serving"} => Backend(env[l]) # "arca"

(* What SpawnedEngine says: "the engine outlives the daemon that started   *)
(* it, and the next daemon dials it rather than starting a second".        *)
AdoptedRatherThanDuplicated ==
    \A k, l \in Launches :
        {engine[k], engine[l]} \subseteq {"starting", "listening"} => k = l

(* What DaemonStartupMonitor says of keeping the child: a caller "can tell *)
(* a slow daemon from a dead one".                                         *)
DeadDaemonIsNotADeadline ==
    \A l \in Launches : cli[l] = "deadline" => pc[l] # "dead"
=============================================================================
