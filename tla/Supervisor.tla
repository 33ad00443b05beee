----------------------------- MODULE Supervisor -----------------------------
(***************************************************************************)
(* The CLI as the daemon's supervisor (gascan/src/daemon.rs): commands     *)
(* that start, stop, restart or connect to gascand, each inspecting the    *)
(* instance record, the endpoint and the process in separate steps while   *)
(* daemons come up, go idle, stop and die.  Mutating commands hold the     *)
(* lifecycle lock; the first look of `connect` does not.                   *)
(* The socket and the record are single cells here: the system calls that  *)
(* publish and withdraw them are the modules Socket and Record.            *)
(***************************************************************************)
EXTENDS Naturals

CONSTANTS
    Daemons,       \* daemon processes of the installed release, each lives once
    Elder,         \* the daemon that is there before the first command
    Commands,      \* CLI processes, one command each
    Kinds,         \* what each may be: "start", "stop", "force", "restart" or "connect"
    Elders,        \* what the elder may be: "none", "current", "outdated", "legacy", "dead"
    Late,          \* deadlines may pass and a CLI may be interrupted
    Crashes,       \* a daemon may be killed
    Observations   \* looks an inspection takes before it gives up on a moving record

All == Daemons \cup {Elder}
None == "none"

VARIABLES
    phase,    \* [All -> the life of the daemon]
    elder,    \* the release of the elder daemon
    sock,     \* the daemon whose socket is at the endpoint path, or None
    rec,      \* the daemon whose record is published, or None
    lock,     \* the command that holds the lifecycle lock, or None
    cli       \* [Commands -> the command]

vars == <<phase, elder, sock, rec, lock, cli>>
world == <<phase, elder, sock, rec>>

Blank == [kind |-> None, pc |-> "new", ret |-> None, looks |-> 0, rec |-> None, path |-> None,
          probe |-> None, state |-> None, target |-> None, victim |-> None, mine |-> None,
          out |-> None]

Init ==
    /\ elder \in Elders
    /\ phase = [d \in All |-> IF d # Elder \/ elder = "none" THEN "unborn"
                              ELSE IF elder = "dead" THEN "dead" ELSE "ready"]
    /\ sock = IF elder = "none" THEN None ELSE Elder
    /\ rec = IF elder = "legacy" THEN None ELSE sock
    /\ lock = None
    /\ cli = [c \in Commands |-> Blank]

Alive(d) == phase[d] \notin {"unborn", "dead"}
Listening(d) == phase[d] \in {"bound", "ready", "draining"}
Version(d) == IF d = Elder THEN elder ELSE "current"

-----------------------------------------------------------------------------
(* A daemon: bind the socket, publish the record, serve, drain, drop the   *)
(* socket, retire the record, exit (gascand api.rs, Daemon::serve).        *)
Live(d, label) == phase' = [phase EXCEPT ![d] = label]
Dropped(x, d) == IF x = d THEN None ELSE x

Bind(d) ==
    /\ phase[d] = "boot"
    /\ IF sock # None /\ Listening(sock)
       THEN Live(d, "dead") /\ UNCHANGED sock
       ELSE Live(d, "bound") /\ sock' = d
    /\ UNCHANGED <<elder, rec, lock, cli>>

PublishRecord(d) ==
    /\ phase[d] = "bound"
    /\ IF rec = None
       THEN Live(d, "ready") /\ rec' = d /\ UNCHANGED sock
       ELSE Live(d, "dead") /\ sock' = Dropped(sock, d) /\ UNCHANGED rec
    /\ UNCHANGED <<elder, lock, cli>>

\* Idle, or asked to stop.
Drain(d) ==
    /\ phase[d] = "ready"
    /\ Live(d, "draining")
    /\ UNCHANGED <<elder, sock, rec, lock, cli>>

DropSocket(d) ==
    /\ phase[d] = "draining"
    /\ Live(d, "unbound")
    /\ sock' = Dropped(sock, d)
    /\ UNCHANGED <<elder, rec, lock, cli>>

RetireRecord(d) ==
    /\ phase[d] = "unbound"
    /\ Live(d, "retired")
    /\ rec' = Dropped(rec, d)
    /\ UNCHANGED <<elder, sock, lock, cli>>

Exit(d) ==
    /\ phase[d] = "retired"
    /\ Live(d, "dead")
    /\ UNCHANGED <<elder, sock, rec, lock, cli>>

Crash(d) ==
    /\ Crashes /\ Alive(d)
    /\ Live(d, "dead")
    /\ UNCHANGED <<elder, sock, rec, lock, cli>>

-----------------------------------------------------------------------------
(* A command.  Inspecting is a subroutine that returns to cli[c].ret.      *)
Set(c, r) == cli' = [cli EXCEPT ![c] = r]
Inspecting(r, ret) == [r EXCEPT !.pc = "read", !.ret = ret, !.looks = 0, !.state = None, !.rec = None]
Ends(r, out) == [Blank EXCEPT !.kind = r.kind, !.pc = "end", !.target = r.target,
                                 !.victim = r.victim, !.mine = r.mine, !.out = out]
\* Mistake: the lifecycle lock is never dropped.
UnlockedNever(c) == lock
Unlocked(c) == IF lock = c THEN None ELSE lock

(* The command ends: it prints its outcome and the lock is dropped.        *)
Finish(c, r, out) == Set(c, Ends(r, out)) /\ lock' = Unlocked(c)

Begin(c) ==
    /\ cli[c].pc = "new"
    /\ \E k \in Kinds[c] :
          Set(c, IF k = "connect" THEN Inspecting([cli[c] EXCEPT !.kind = k], "first")
                 ELSE [cli[c] EXCEPT !.kind = k, !.pc = "lock"])
    /\ UNCHANGED <<world, lock>>

Lock(c) ==
    /\ cli[c].pc = "lock" /\ lock = None
    /\ lock' = c
    /\ Set(c, Inspecting(cli[c], "decide"))
    /\ UNCHANGED world

LockTimesOut(c) ==
    /\ Late /\ cli[c].pc = "lock" /\ lock # None
    /\ Finish(c, cli[c], "error")
    /\ UNCHANGED world

(* Read the record (module Record: a reader is told the truth or to retry). *)
ReadRecord(c) ==
    /\ cli[c].pc = "read"
    /\ Set(c, [cli[c] EXCEPT !.pc = "path", !.rec = rec])
    /\ UNCHANGED <<world, lock>>

(* Bind the record to a descriptor, then look at the endpoint path.  A     *)
(* record that moved makes the whole observation start over, a few times.  *)
LookAtPath(c) ==
    LET r == cli[c] IN
    /\ r.pc = "path"
    /\ IF r.rec = None \/ r.rec = rec
       THEN Set(c, [r EXCEPT !.pc = "probe", !.path = sock])
       ELSE IF r.looks + 1 < Observations
       THEN Set(c, [r EXCEPT !.pc = "read", !.looks = @ + 1])
       ELSE Set(c, [r EXCEPT !.pc = r.ret, !.state = "Moving"])
    /\ UNCHANGED <<world, lock>>

(* Connect and shake hands, then look at the path again.  A daemon that    *)
(* has bound its socket and does not serve yet keeps the caller waiting.   *)
Answers(path) ==
    IF path = None \/ ~Listening(path) THEN {"inert"}
    ELSE CASE phase[path] = "ready" -> {"connected"}
           [] phase[path] = "draining" -> {"connected", "unresponsive"}
           [] phase[path] = "bound" -> IF Late THEN {"unresponsive"} ELSE {}

Probe(c) ==
    /\ cli[c].pc = "probe"
    /\ IF sock # cli[c].path
       THEN Set(c, [cli[c] EXCEPT !.pc = cli[c].ret, !.state = "Moving"])
       ELSE \E a \in Answers(sock) : Set(c, [cli[c] EXCEPT !.pc = "judge", !.probe = a])
    /\ UNCHANGED <<world, lock>>

(* An endpoint that answers must be the process the record names.          *)
ClassifyConnected(r) ==
    IF (r.rec # None /\ r.rec # r.path) \/ ~Alive(r.path) THEN "Unhealthy"
    ELSE IF Version(r.path) = "current" THEN "Current" ELSE "Outdated"

ClassifyUnreachable(r) == IF r.rec # None /\ Alive(r.rec) THEN "Unreachable" ELSE "Stopped"

ClassifyUnresponsive(r) ==
    IF sock = None /\ r.rec = None THEN ClassifyUnreachable(r) ELSE "Unreachable"

Classify(r) ==
    CASE r.probe = "connected" -> ClassifyConnected(r)
      [] r.probe = "inert" -> ClassifyUnreachable(r)
      [] r.probe = "unresponsive" -> ClassifyUnresponsive(r)

Judge(c) ==
    /\ cli[c].pc = "judge"
    /\ Set(c, [cli[c] EXCEPT !.pc = cli[c].ret, !.state = Classify(cli[c]), !.path = None, !.probe = None,
                             !.target = IF cli[c].probe = "connected" THEN cli[c].path ELSE None])
    /\ UNCHANGED <<world, lock>>

-----------------------------------------------------------------------------
(* connected_outcome refuses a session whose record was not seen.          *)
Connected(r) == IF r.rec = None THEN "mismatch" ELSE "connected"
Reached(r) == IF r.kind = "connect" THEN Connected(r) ELSE "running"

(* The unlocked first look of connect_current_or_recover.                  *)
First(c) ==
    /\ cli[c].pc = "first"
    /\ IF cli[c].state = "Current" THEN Finish(c, cli[c], Connected(cli[c]))
       ELSE Set(c, [cli[c] EXCEPT !.pc = "lock"]) /\ UNCHANGED lock
    /\ UNCHANGED world

(* What each command does with the state it found under the lock, and      *)
(* what starting does with the state found after a stop ("ensure").        *)
Starts(r) == r.state = "Stopped" /\ (r.kind \in {"start", "connect"} \/ r.pc = "ensure")
Stops(r) ==
    /\ r.pc = "decide"
    /\ \/ r.kind \in {"stop", "force", "restart"} /\ r.state \in {"Current", "Outdated"}
       \/ r.kind = "connect" /\ r.state = "Outdated"

Decide(c) ==
    LET r == cli[c] IN
    /\ r.pc \in {"decide", "ensure"}
    /\ CASE Starts(r) -> Set(c, [r EXCEPT !.pc = "reclaim"]) /\ UNCHANGED lock
         [] Stops(r) -> Set(c, [r EXCEPT !.pc = "shutdown"]) /\ UNCHANGED lock
         [] ~Starts(r) /\ ~Stops(r) /\ r.state = "Stopped" ->
                IF r.kind = "restart" THEN Set(c, Inspecting(r, "ensure")) /\ UNCHANGED lock
                ELSE Finish(c, r, "stopped")
         [] ~Stops(r) /\ r.state = "Current" -> Finish(c, r, Reached(r))
         [] OTHER -> Finish(c, r, "error")
    /\ UNCHANGED world

(* recover_stale_published_record: the record must still be the one seen,  *)
(* its process absent and the endpoint inert.                              *)
Reclaim(c) ==
    LET r == cli[c] IN
    /\ r.pc = "reclaim"
    /\ IF r.rec = None THEN Set(c, [r EXCEPT !.pc = "spawn"]) /\ UNCHANGED <<rec, lock>>
       ELSE IF rec = r.rec /\ ~Alive(rec) /\ (sock = None \/ ~Listening(sock))
       THEN rec' = None /\ Set(c, [r EXCEPT !.pc = "spawn"]) /\ UNCHANGED lock
       ELSE Finish(c, r, "error") /\ UNCHANGED rec
    /\ UNCHANGED <<phase, elder, sock>>

(* The processes that have not been started are interchangeable.           *)
Spawn(c) ==
    /\ cli[c].pc = "spawn" /\ \E d \in Daemons : phase[d] = "unborn"
    /\ LET d == CHOOSE d \in Daemons : phase[d] = "unborn" IN
          /\ Live(d, "boot")
          /\ Set(c, Inspecting([cli[c] EXCEPT !.mine = d], "await"))
    /\ UNCHANGED <<elder, sock, rec, lock>>

\* No process left to start with: the bound of the model, not of the code.
SpawnExhausted(c) ==
    /\ cli[c].pc = "spawn" /\ \A d \in Daemons : phase[d] # "unborn"
    /\ Finish(c, cli[c], "bound")
    /\ UNCHANGED world

(* The readiness loop: ready means current and carrying this launch's      *)
(* record; a daemon on its way up, or paths still moving, are waited for.  *)
(* A startup that reported its error (here: whose process is dead) ends it. *)
Await(c) ==
    LET r == cli[c] IN
    /\ r.pc = "await"
    /\ CASE r.state = "Current" /\ r.rec = r.mine -> Finish(c, r, Reached(r))
         [] r.state \in {"Stopped", "Unreachable"} /\ ~Alive(r.mine) -> Finish(c, r, "error")
         [] (r.state = "Current" /\ r.rec = None) \/ r.state = "Moving"
                \/ (r.state \in {"Stopped", "Unreachable"} /\ Alive(r.mine)) ->
                Set(c, Inspecting(r, "await")) /\ UNCHANGED lock
         [] OTHER -> Finish(c, r, "error")
    /\ UNCHANGED world

(* The graceful request: over the session, or, to a daemon that predates   *)
(* it, SIGTERM after a second look finds the same endpoint.  A request the *)
(* daemon no longer answers fails the command unless force was asked for.  *)
Waiting(r) == [r EXCEPT !.pc = "wait", !.victim = r.target]

Shutdown(c) ==
    LET r == cli[c] IN
    /\ r.pc = "shutdown"
    /\ \/ /\ sock = r.target /\ phase[r.target] = "ready"
          /\ Live(r.target, "draining") /\ Set(c, Waiting(r)) /\ UNCHANGED lock
       \/ /\ ~(sock = r.target /\ phase[r.target] = "ready")
          /\ IF Version(r.target) # "legacy" /\ (phase[r.target] = "draining" \/ r.kind = "force")
             THEN Set(c, Waiting(r)) /\ UNCHANGED lock
             ELSE Finish(c, r, "error")
          /\ UNCHANGED phase
    /\ UNCHANGED <<elder, sock, rec>>

(* wait_for_exit_until the process is gone, then confirm_stopped.          *)
WaitForExit(c) ==
    /\ cli[c].pc = "wait"
    /\ ~Alive(cli[c].victim)
    /\ Set(c, Inspecting(cli[c], "confirm"))
    /\ UNCHANGED <<world, lock>>

(* The grace period is over: `--force` kills the process it attested, any  *)
(* other command gives up.                                                 *)
GraceEnds(c) ==
    LET r == cli[c] IN
    /\ Late /\ r.pc = "wait" /\ Alive(r.victim)
    /\ IF r.kind = "force" THEN Live(r.victim, "dead") /\ UNCHANGED <<cli, lock>>
       ELSE Finish(c, r, "error") /\ UNCHANGED phase
    /\ UNCHANGED <<elder, sock, rec>>

Confirm(c) ==
    LET r == cli[c] IN
    /\ r.pc = "confirm"
    /\ IF r.state # "Stopped" THEN Finish(c, r, "error")
       ELSE IF r.kind \in {"stop", "force"} THEN Finish(c, r, "stopped")
       ELSE Set(c, Inspecting(r, "ensure")) /\ UNCHANGED lock
    /\ UNCHANGED world

(* A readiness deadline, or an interrupted CLI: the daemon it started is   *)
(* left to come up on its own, outside the lock.                           *)
GiveUp(c) ==
    /\ Late /\ cli[c].pc \notin {"new", "end"}
    /\ Finish(c, cli[c], "error")
    /\ UNCHANGED world

Command(c) ==
    \/ Begin(c) \/ Lock(c) \/ ReadRecord(c) \/ LookAtPath(c) \/ Probe(c) \/ Judge(c) \/ First(c)
    \/ Decide(c) \/ Reclaim(c) \/ Spawn(c) \/ SpawnExhausted(c) \/ Await(c) \/ Shutdown(c)
    \/ WaitForExit(c) \/ Confirm(c)

Rises(d) == Bind(d) \/ PublishRecord(d)
Falls(d) == DropSocket(d) \/ RetireRecord(d) \/ Exit(d)

Next ==
    \/ \E c \in Commands : Command(c) \/ LockTimesOut(c) \/ GraceEnds(c) \/ GiveUp(c)
    \/ \E d \in All : Rises(d) \/ Drain(d) \/ Falls(d) \/ Crash(d)

Spec == Init /\ [][Next]_vars

(* A process that can run, runs; the lock goes to someone who asks.  That  *)
(* a daemon goes idle or is killed is never promised.                           *)
Must(p) ==
    \/ p \in Commands /\ Command(p)
    \/ p \in All /\ (Rises(p) \/ Falls(p))

FairSpec == Spec /\ \A p \in Commands \cup All : WF_vars(Must(p))

-----------------------------------------------------------------------------
(* The lock is held only by a command that is between taking it and its    *)
(* end.                                                                    *)
TypeOK ==
    /\ phase \in [All -> {"unborn", "boot", "bound", "ready", "draining", "unbound", "retired", "dead"}]
    /\ sock \in All \cup {None} /\ rec \in All \cup {None} /\ lock \in Commands \cup {None}
    /\ lock # None => cli[lock].pc \notin {"new", "lock", "end"}

(* The record of a daemon that is alive is withdrawn by that daemon alone: *)
(* no command reclaims it, whatever it saw a moment ago.                   *)
LiveRecordIsKept ==
    [][\A d \in All : rec = d /\ Alive(d) /\ rec' # d => phase[d] = "unbound"]_vars

(* Concurrent commands converge on one daemon: nobody starts a second one  *)
(* while the first is on its way up or serving.                            *)
OneDaemon ==
    \A d, e \in All :
        d # e => ~(phase[d] \in {"boot", "bound", "ready"} /\ phase[e] \in {"boot", "bound", "ready"})

(* `stop` says stopped only about a daemon whose process is gone.          *)
StoppedIsDead ==
    \A c \in Commands : cli[c].out = "stopped" /\ cli[c].victim # None => ~Alive(cli[c].victim)

(* A command that started a daemon reports success only for that daemon.   *)
StartedIsMine ==
    \A c \in Commands :
        cli[c].out \in {"running", "connected"} /\ cli[c].mine # None => cli[c].target = cli[c].mine

(* Every command ends, and with it its hold on the lifecycle lock.         *)
CommandsEnd == \A c \in Commands : cli[c].pc # "new" ~> cli[c].pc = "end"

(* A connect is refused for its backend only when the daemon's backend is  *)
(* another one; every daemon here runs the one that was asked for.         *)
BackendsAgree == \A c \in Commands : cli[c].out # "mismatch"

(* With nothing crashing and no deadline passing, a command that needs the *)
(* daemon starts it when it is not there.                                  *)
ConnectStarts == \A c \in Commands : cli[c].kind = "connect" => cli[c].out # "error"
=============================================================================
