--------------------------------- MODULE Ssh ---------------------------------
(***************************************************************************)
(* The publication of sandbox aliases to OpenSSH (gascand/src/ssh/manager  *)
(* and config) by the service's handlers.  The managed config names one    *)
(* known_hosts generation, a file addressed by its content, so a           *)
(* generation is its set of hosts here and the config is the set it was    *)
(* rendered from.  Every handler runs under the lock of its sandbox; the   *)
(* publication lock is held from the verification of a host to the end of  *)
(* its commit.  The process may die between any two steps; reconciliation  *)
(* then runs alone, before the daemon serves.                              *)
(***************************************************************************)
EXTENDS Naturals, FiniteSets

CONSTANTS
    Sandboxes,
    Ports,        \* loopback ports the host may hand out
    Keys,         \* host keys a guest may generate
    Operations,   \* the operations clients call
    Disturbances, \* what happens outside the daemon
    MaxAttempts,  \* AUTOMATIC_PORT_ATTEMPTS
    MaxOps,       \* bound on the operations begun
    MaxFaults,    \* bound on failing calls and disturbances
    MaxCrashes    \* bound on the daemon's deaths

Reconciler == "reconcile"
Procs == Sandboxes \cup {Reconciler}
Hosts == [s : Sandboxes, port : Ports, key : Keys]

VARIABLES
    run, port, key,   \* the containers: state, native mapping, host key
    store,            \* the durable SSH resolution: none or the pinned key
    pending,          \* sandboxes whose create operation is pending
    config,           \* the managed config: is it there, the hosts it names
    gens,             \* the known_hosts generations on disk
    lock,             \* who holds the publication lock
    phase, pc, w,     \* the daemon, its handlers and their local state
    outcome,          \* how the last operation on the sandbox ended
    ops, faults, crashes,
    reading,          \* the hosts of the config an OpenSSH process has read
    calm              \* sandboxes undisturbed since their last operation began

world == <<run, port, key>>
durable == <<store, pending>>
files == <<config, gens>>
bounds == <<ops, faults, crashes>>
history == <<reading, calm>>
vars == <<world, durable, files, lock, phase, pc, w, outcome, bounds, history>>

Idle == [op |-> "none", act |-> "on", new |-> {}, prev |-> [there |-> FALSE, hosts |-> {}],
         prior |-> "none", made |-> FALSE, tries |-> 0, oldport |-> 0]

Enabled(s) == store[s] \in Keys
Of(hosts, s) == {h \in hosts : h.s = s}
Elsewhere(s) == {port[t] : t \in {t \in Sandboxes \ {s} : run[t] = "running"}}
Distinct(hosts) == \A g, h \in hosts : g.port = h.port => g = h

(* load_active_hosts: the config's generation is there and both render the *)
(* same; parse_known_hosts refuses a repeated alias or port.               *)
Loadable == config.there => /\ config.hosts = {} \/ config.hosts \in gens
                            /\ Distinct(config.hosts)

Init ==
    /\ run = [s \in Sandboxes |-> "absent"] /\ port = [s \in Sandboxes |-> 0]
    /\ key \in [Sandboxes -> Keys]
    /\ store = [s \in Sandboxes |-> "none"] /\ pending = {}
    /\ config = [there |-> FALSE, hosts |-> {}] /\ gens = {}
    /\ lock = "free" /\ phase = "serving"
    /\ pc = [p \in Procs |-> "idle"] /\ w = [p \in Procs |-> Idle]
    /\ outcome = [s \in Sandboxes |-> "none"]
    /\ ops = 0 /\ faults = 0 /\ crashes = 0
    /\ reading = {} /\ calm = {}

\* Mistake: an apply leaves without dropping the lock.
ReleaseOnSuccess(p) == lock' = IF lock = p /\ w[p].op # "apply" THEN "free" ELSE lock

Goto(p, label) == pc' = [pc EXCEPT ![p] = label]
Fault == faults < MaxFaults /\ faults' = faults + 1 /\ UNCHANGED <<ops, crashes>>
Release(p) == lock' = IF lock = p THEN "free" ELSE lock

(* The handler returns; the reconciler's last step lets the daemon serve.  *)
End(p, how) ==
    /\ Goto(p, "idle") /\ w' = [w EXCEPT ![p] = Idle] /\ Release(p)
    /\ IF p = Reconciler
       THEN /\ phase' = "serving" /\ UNCHANGED pending
            /\ outcome' = [s \in Sandboxes |-> IF how = "ok" /\ Of(w[p].new, s) # {} THEN "ok" ELSE "none"]
       ELSE /\ outcome' = [outcome EXCEPT ![p] = how]
            /\ pending' = IF how # "ok" /\ w[p].op \in {"recover", "unrecover"} THEN pending ELSE pending \ {p}
            /\ UNCHANGED phase

(* A step fails: what the handler undoes before it returns its error.      *)
(* `prior` is the resolution activate_and_persist_ssh puts back.           *)
Fail(p, stored) ==
    /\ store' = stored
    /\ CASE w[p].op = "up" /\ ~w[p].made ->
              /\ Goto(p, "lock") /\ w' = [w EXCEPT ![p].op = "undo", ![p].act = "off"]
              /\ Release(p) /\ UNCHANGED <<phase, outcome, pending, run>>
         [] w[p].op = "up" /\ w[p].made ->
              End(p, "failed") /\ run' = [run EXCEPT ![p] = "absent"]
         [] w[p].op = "apply" ->
              /\ Goto(p, "recreate") /\ w' = [w EXCEPT ![p].op = "restore", ![p].act = "on"]
              /\ Release(p) /\ UNCHANGED <<phase, outcome, pending, run>>
         [] w[p].op = "recover" ->
              /\ Goto(p, "lock") /\ w' = [w EXCEPT ![p].op = "unrecover", ![p].act = "off"]
              /\ Release(p) /\ UNCHANGED <<phase, outcome, pending, run>>
         [] OTHER -> End(p, "failed") /\ UNCHANGED run
    /\ UNCHANGED <<port, key>>

-----------------------------------------------------------------------------
(* The operations up to their first SSH step.                              *)
Begin(s, op) ==
    /\ phase = "serving" /\ pc[s] = "idle" /\ op \in Operations
    /\ ops < MaxOps /\ ops' = ops + 1
    /\ UNCHANGED <<port, key, files, lock, phase, faults, crashes, store, reading>>
    /\ calm' = calm \cup {s}

Prior(s) == IF run[s] = "absent" THEN "none" ELSE store[s]

Up(s) ==
    /\ Begin(s, "up")
    /\ outcome' = [outcome EXCEPT ![s] = "none"]
    /\ w' = [w EXCEPT ![s] = [Idle EXCEPT !.op = "up", !.prior = Prior(s), !.made = run[s] = "absent"]]
    /\ pending' = IF run[s] = "absent" THEN pending \cup {s} ELSE pending
    /\ \/ run[s] = "absent" /\ Goto(s, "reserve") /\ UNCHANGED run
       \/ run[s] = "stopped" /\ port[s] \notin Elsewhere(s)
          /\ run' = [run EXCEPT ![s] = "running"] /\ Goto(s, "lock")
       \/ run[s] = "running" /\ Goto(s, "lock") /\ UNCHANGED run

(* lifecycle: start re-publishes the pinned host and persists nothing.     *)
Start(s) ==
    /\ Begin(s, "start")
    /\ run[s] # "absent" /\ (run[s] = "stopped" => port[s] \notin Elsewhere(s))
    /\ run' = [run EXCEPT ![s] = "running"]
    /\ IF Enabled(s)
       THEN /\ Goto(s, "lock") /\ w' = [w EXCEPT ![s] = [Idle EXCEPT !.op = "start", !.prior = store[s]]]
            /\ outcome' = [outcome EXCEPT ![s] = "none"]
       ELSE outcome' = [outcome EXCEPT ![s] = "ok"] /\ UNCHANGED <<pc, w>>
    /\ UNCHANGED pending

Taking(s, op) ==
    /\ w' = [w EXCEPT ![s] = [Idle EXCEPT !.op = op, !.act = "off", !.prior = store[s], !.oldport = port[s]]]
    /\ outcome' = [outcome EXCEPT ![s] = "none"]
    /\ Goto(s, IF Enabled(s) THEN "lock" ELSE "stop")
    /\ UNCHANGED <<run, pending>>

Stop(s) == Begin(s, "stop") /\ run[s] # "absent" /\ Taking(s, "stop")
Destroy(s) == Begin(s, "destroy") /\ (run[s] # "absent" \/ store[s] # "none") /\ Taking(s, "destroy")
(* apply with another image: the container is replaced, the volumes stay.  *)
Apply(s) == Begin(s, "apply") /\ run[s] = "running" /\ Enabled(s) /\ Taking(s, "apply")

(* The reservation is a listener, released just before the create that    *)
(* binds the port; in between another container may take it.               *)
Reserve(s) ==
    /\ pc[s] = "reserve"
    /\ \E p \in Ports \ Elsewhere(s) : port' = [port EXCEPT ![s] = p]
    /\ w' = [w EXCEPT ![s].tries = @ + 1]
    /\ Goto(s, "create")
    /\ UNCHANGED <<run, key, durable, files, lock, phase, outcome, bounds, history>>

Create(s) ==
    /\ pc[s] = "create"
    /\ IF port[s] \notin Elsewhere(s)
       THEN /\ run' = [run EXCEPT ![s] = "running"]
            /\ w[s].op = "up" => \E k \in Keys : key' = [key EXCEPT ![s] = k]
            /\ w[s].op # "up" => UNCHANGED key
            /\ Goto(s, "lock") /\ w' = [w EXCEPT ![s].act = "on"]
            /\ UNCHANGED <<port, durable, lock, phase, outcome>>
       ELSE IF w[s].tries < MaxAttempts
       THEN Goto(s, "reserve") /\ UNCHANGED <<world, durable, lock, phase, outcome, w>>
       ELSE Fail(s, store)
    /\ UNCHANGED <<files, bounds, history>>

(* rollback_image: the previous container again, on its previous port.     *)
Recreate(s) ==
    /\ pc[s] = "recreate"
    /\ \/ /\ w[s].oldport \notin Elsewhere(s)
          /\ run' = [run EXCEPT ![s] = "running"] /\ port' = [port EXCEPT ![s] = w[s].oldport]
          /\ Goto(s, "lock") /\ UNCHANGED <<pending, lock, phase, outcome, w>>
       \/ /\ w[s].oldport \in Elsewhere(s)
          /\ run' = [run EXCEPT ![s] = "absent"] /\ End(s, "failed") /\ UNCHANGED port
    /\ UNCHANGED <<key, store, files, bounds, history>>

\* Mistake: the publication lock is taken from whoever holds it.
LockAnyway(p) ==
    /\ pc[p] = "lock"
    /\ lock' = p /\ Goto(p, "prepare")
    /\ UNCHANGED <<world, durable, files, phase, w, outcome, bounds, history>>

-----------------------------------------------------------------------------
(* prepare_activation, deactivate and publish_reconciled.                  *)
Lock(p) ==
    /\ pc[p] = "lock" /\ lock = "free"
    /\ lock' = p /\ Goto(p, "prepare")
    /\ UNCHANGED <<world, durable, files, phase, w, outcome, bounds, history>>

Managed(s) == [s |-> s, port |-> port[s], key |-> key[s]]

(* verified_managed_host: it runs, and shows the key the store has pinned. *)
Verified(s, pinned) == run[s] = "running" /\ (pinned \in Keys => key[s] = pinned)

With(s) == (config.hosts \ Of(config.hosts, s)) \cup {Managed(s)}
Without(s) == config.hosts \ Of(config.hosts, s)

Prepare(s) ==
    /\ pc[s] = "prepare" /\ s \in Sandboxes /\ w[s].act = "on"
    /\ \/ /\ Verified(s, w[s].prior) /\ Loadable
          /\ gens' = gens \cup {With(s)}
          /\ IF Distinct(With(s))
             THEN /\ Goto(s, "ready") /\ w' = [w EXCEPT ![s].new = With(s)]
                  /\ UNCHANGED <<world, durable, lock, phase, outcome>>
             ELSE Fail(s, store)
       \/ ~(Verified(s, w[s].prior) /\ Loadable) /\ Fail(s, store) /\ UNCHANGED gens
    /\ UNCHANGED <<config, bounds, history>>

(* run_readiness: a strict ssh through the mapping, until its deadline.    *)
Ready(s) ==
    /\ pc[s] = "ready"
    /\ \/ /\ run[s] = "running" /\ Managed(s) \in w[s].new
          /\ Goto(s, IF w[s].op = "start" THEN "rename" ELSE "persist")
          /\ UNCHANGED <<world, durable, lock, phase, outcome, w, bounds>>
       \/ ~(run[s] = "running" /\ Managed(s) \in w[s].new) /\ Fail(s, store) /\ UNCHANGED bounds
       \/ Fault /\ Fail(s, store)
    /\ UNCHANGED <<files, history>>

(* set_ssh_resolution, then the before_ssh_publication event.              *)
Persist(s) ==
    /\ pc[s] = "persist"
    /\ \/ /\ \E h \in Of(w[s].new, s) : store' = [store EXCEPT ![s] = h.key]
          /\ Goto(s, "rename")
          /\ UNCHANGED <<world, pending, lock, phase, outcome, w, bounds>>
       \/ w[s].op = "up" /\ Fault /\ Fail(s, [store EXCEPT ![s] = w[s].prior])
    /\ UNCHANGED <<files, history>>

(* What follows a commit that succeeded, or found nothing to do.           *)
Proceed(p) ==
    CASE w[p].act = "off" /\ w[p].op \in {"stop", "destroy", "apply", "undo", "unrecover"} ->
           Goto(p, "stop") /\ Release(p) /\ UNCHANGED <<w, phase, outcome, pending>>
      [] w[p].act = "on" /\ w[p].op \in {"up", "recover"} ->
           Goto(p, "exact") /\ Release(p) /\ UNCHANGED <<w, phase, outcome, pending>>
      [] OTHER -> End(p, "ok")

Withdraw(s) ==
    /\ pc[s] = "prepare" /\ s \in Sandboxes /\ w[s].act = "off"
    /\ \/ /\ Loadable /\ Of(config.hosts, s) = {}
          /\ Proceed(s) /\ UNCHANGED <<run, store, gens, port, key>>
       \/ /\ Loadable /\ Of(config.hosts, s) # {}
          /\ gens' = gens \cup {Without(s)} /\ w' = [w EXCEPT ![s].new = Without(s)]
          /\ Goto(s, "rename") /\ UNCHANGED <<world, durable, lock, phase, outcome>>
       \/ ~Loadable /\ Fail(s, store) /\ UNCHANGED gens
    /\ UNCHANGED <<config, bounds, history>>

-----------------------------------------------------------------------------
(* commit_openssh_files: the rename publishes, a failure after it takes    *)
(* the previous config back, and only then are old generations removed.    *)
Rename(p) ==
    /\ pc[p] = "rename"
    /\ \/ /\ w[p].new \in gens
          /\ config' = [there |-> TRUE, hosts |-> w[p].new]
          /\ w' = [w EXCEPT ![p].prev = config]
          /\ Goto(p, "sync")
          /\ UNCHANGED <<world, durable, lock, phase, outcome, bounds>>
       \/ /\ Fault /\ UNCHANGED config
          /\ Fail(p, IF w[p].act = "on" /\ p # Reconciler THEN [store EXCEPT ![p] = w[p].prior] ELSE store)
    /\ UNCHANGED <<gens, history>>

Sync(p) ==
    /\ pc[p] = "sync"
    /\ \/ Goto(p, "clean") /\ UNCHANGED <<world, durable, config, lock, phase, outcome, w, bounds>>
       \/ Fault /\ Goto(p, "restore") /\ UNCHANGED <<world, durable, config, lock, phase, outcome, w>>
    /\ UNCHANGED <<gens, history>>

RestorePrevious(p) ==
    /\ pc[p] = "restore"
    /\ \/ /\ config' = w[p].prev
          /\ Fail(p, IF w[p].act = "on" /\ p # Reconciler THEN [store EXCEPT ![p] = w[p].prior] ELSE store)
          /\ UNCHANGED bounds
       \/ /\ Fault /\ UNCHANGED config
          /\ IF w[p].op \in {"up", "recover"} /\ w[p].act = "on"
             THEN End(p, "uncertain") /\ UNCHANGED <<world, store>>
             ELSE Fail(p, store)
    /\ UNCHANGED <<gens, history>>

(* Best effort: a failure keeps what is left and is not reported.          *)
Clean(p) ==
    /\ pc[p] = "clean"
    /\ \/ gens' = gens \cap {w[p].new} /\ UNCHANGED bounds
       \/ Fault /\ UNCHANGED gens
    /\ Proceed(p)
    /\ UNCHANGED <<world, store, config, history>>

-----------------------------------------------------------------------------
(* verify_exact_ssh_publication: the published hosts are exactly the       *)
(* enabled sandboxes whose container runs, with their ports and keys.      *)
Expected == {h \in Hosts : /\ store[h.s] = h.key /\ run[h.s] = "running" /\ port[h.s] = h.port}

VerifyExact(s) ==
    /\ pc[s] = "exact" /\ lock = "free"
    /\ End(s, IF Loadable /\ config.hosts = Expected THEN "ok" ELSE "uncertain")
    /\ UNCHANGED <<world, store, files, bounds, history>>

(* The runtime steps that follow a withdrawn alias.                        *)
StopContainer(s) ==
    /\ pc[s] = "stop"
    /\ \/ /\ w[s].op \in {"stop", "undo"}
          /\ run' = [run EXCEPT ![s] = "stopped"] /\ End(s, IF w[s].op = "stop" THEN "ok" ELSE "failed")
          /\ UNCHANGED <<port, key, store, bounds>>
       \/ /\ w[s].op \in {"destroy", "unrecover"}
          /\ run' = [run EXCEPT ![s] = "absent"] /\ port' = [port EXCEPT ![s] = 0]
          /\ store' = [store EXCEPT ![s] = "none"] /\ End(s, "ok")
          /\ UNCHANGED <<key, bounds>>
       \/ /\ w[s].op = "apply" /\ run' = [run EXCEPT ![s] = "absent"] /\ Goto(s, "reserve")
          /\ UNCHANGED <<port, key, durable, lock, phase, outcome, w, bounds>>
       \/ Fault /\ Fail(s, store)
    /\ UNCHANGED <<files, history>>

-----------------------------------------------------------------------------
(* The daemon dies; its successor recovers the pending creates one by one  *)
(* and then publishes the hosts it could verify.                           *)
Crash ==
    /\ crashes < MaxCrashes /\ crashes' = crashes + 1
    /\ phase' = "starting" /\ lock' = "free"
    /\ pc' = [p \in Procs |-> "idle"] /\ w' = [p \in Procs |-> Idle]
    /\ outcome' = [s \in Sandboxes |-> IF pc[s] = "idle" THEN outcome[s] ELSE "none"]
    /\ UNCHANGED <<world, durable, files, ops, faults, history>>

Recovering == {s \in pending : run[s] = "running" /\ outcome[s] = "none"}
Quiet == \A p \in Procs : pc[p] = "idle"

RecoverPending(s) ==
    /\ phase = "starting" /\ Quiet /\ s \in Recovering
    /\ IF Loadable /\ Enabled(s) /\ config.hosts = Expected
       THEN outcome' = [outcome EXCEPT ![s] = "ok"] /\ pending' = pending \ {s} /\ UNCHANGED <<pc, w>>
       ELSE /\ Goto(s, "lock") /\ w' = [w EXCEPT ![s] = [Idle EXCEPT !.op = "recover", !.prior = store[s]]]
            /\ UNCHANGED <<outcome, pending>>
    /\ UNCHANGED <<world, store, files, lock, phase, bounds, history>>

(* verify_for_reconcile leaves one generation for each host it verified.   *)
Reconcile ==
    /\ phase = "starting" /\ Quiet /\ Recovering = {}
    /\ \E broken \in SUBSET {s \in Sandboxes : Enabled(s) /\ run[s] = "running"} :
          LET sound == {s \in Sandboxes \ broken : Enabled(s) /\ Verified(s, store[s])}
              hosts == {Managed(s) : s \in sound}
          IN /\ w' = [w EXCEPT ![Reconciler].op = "reconcile", ![Reconciler].new = hosts]
             /\ gens' = gens \cup {{h} : h \in hosts} \cup {hosts}
             /\ faults' = faults + (IF broken = {} THEN 0 ELSE 1)
    /\ faults' <= MaxFaults
    /\ lock' = Reconciler /\ Goto(Reconciler, "rename")
    /\ pending' = {s \in pending : outcome[s] # "none"}
    /\ UNCHANGED <<world, store, config, phase, outcome, ops, crashes, history>>

(* A container ends by itself, or a guest replaces its host key.           *)
Disturb(s) ==
    /\ Fault
    /\ \/ "die" \in Disturbances /\ run[s] = "running" /\ run' = [run EXCEPT ![s] = "stopped"] /\ UNCHANGED key
       \/ "rekey" \in Disturbances /\ run[s] = "running"
          /\ \E k \in Keys \ {key[s]} : key' = [key EXCEPT ![s] = k] /\ UNCHANGED run
    /\ calm' = calm \ {s}
    /\ UNCHANGED <<port, durable, files, lock, phase, pc, w, outcome, reading>>

(* An OpenSSH process reads the config and later opens its generation.     *)
Read ==
    /\ "read" \in Disturbances
    /\ reading' = config.hosts
    /\ UNCHANGED <<world, durable, files, lock, phase, pc, w, outcome, bounds, calm>>

Step(p) ==
    \/ Lock(p) \/ Rename(p) \/ Sync(p) \/ RestorePrevious(p) \/ Clean(p)

Handler(s) ==
    \/ Reserve(s) \/ Create(s) \/ Recreate(s) \/ Prepare(s) \/ Withdraw(s) \/ Ready(s) \/ Persist(s)
    \/ VerifyExact(s) \/ StopContainer(s)

Call(s) == Up(s) \/ Start(s) \/ Stop(s) \/ Destroy(s) \/ Apply(s)

Done == Quiet /\ phase = "serving" /\ ops = MaxOps /\ UNCHANGED vars

Next ==
    \/ \E p \in Procs : Step(p)
    \/ \E s \in Sandboxes : Handler(s) \/ Call(s) \/ RecoverPending(s) \/ Disturb(s)
    \/ Reconcile \/ Crash \/ Read \/ Done

Spec == Init /\ [][Next]_vars

(* A handler the runtime polls goes on; the tokio mutex is handed over in  *)
(* the order it was asked for.                                             *)
Must(p) == Step(p) \/ (p \in Sandboxes /\ Handler(p))

FairSpec == Spec /\ \A p \in Procs : WF_vars(Must(p))

-----------------------------------------------------------------------------
Locked == {"prepare", "ready", "persist", "rename", "sync", "restore", "clean"}

(* The variables have their types, and the publication lock is held        *)
(* exactly while its holder is between taking the guard and dropping it.   *)
TypeOK ==
    /\ run \in [Sandboxes -> {"absent", "stopped", "running"}]
    /\ port \in [Sandboxes -> Ports \cup {0}] /\ key \in [Sandboxes -> Keys]
    /\ store \in [Sandboxes -> Keys \cup {"none"}] /\ pending \subseteq Sandboxes
    /\ config.hosts \subseteq Hosts /\ \A g \in gens : g \subseteq Hosts
    /\ \A p \in Procs : pc[p] \in Locked <=> lock = p

(* At every step, a crash included, the managed config can be loaded: the  *)
(* generation it names is on disk and no two aliases share a port, which   *)
(* parse_known_hosts would refuse at every later activation and removal.   *)
ConfigIsLoadable == Loadable

(* An alias is published only with the host key the store has pinned for   *)
(* its sandbox; a guest whose key changed is never published (fails closed *)
(* with ssh_host_key_mismatch).                                            *)
PublishedIsPinned == \A h \in config.hosts : store[h.s] = h.key

(* When the last operation on a sandbox succeeded and its container is as  *)
(* that operation left it, the alias is published exactly if the sandbox   *)
(* runs, whatever other sandboxes did at the same time and since.          *)
SuccessIsPublished ==
    \A s \in calm : outcome[s] = "ok" /\ pc[s] = "idle" /\ phase = "serving" =>
        Of(config.hosts, s) = IF Enabled(s) /\ run[s] = "running" THEN {Managed(s)} ELSE {}

(* A commit replaces the whole config, yet changes only the alias of the   *)
(* sandbox it acts for; the reconciler alone may change several.           *)
OthersAreKept ==
    [][\A s \in Sandboxes : Of(config'.hosts, s) # Of(config.hosts, s) =>
          pc[s] \in {"rename", "restore"} \/ pc[Reconciler] # "idle"]_vars

(* Every operation ends: no handler waits forever for the publication lock *)
(* that another one, or itself, has not dropped.                           *)
EveryOperationEnds == \A s \in Sandboxes : pc[s] # "idle" ~> pc[s] = "idle"

(* "Retired immutable generations remain unreferenced so an OpenSSH        *)
(* process that read the previous config can still open its matching trust *)
(* file": what an OpenSSH process has read from the config is on disk.     *)
ReadersKeepTheirGeneration == reading # {} => reading \in gens

(* "One broken sandbox cannot prevent the daemon or other aliases from     *)
(* starting": up does not fail for the publication of another sandbox      *)
(* when its own sandbox runs, is pinned and is published as it runs.       *)
BrokenSandboxIsAlone ==
    \A s \in Sandboxes : outcome[s] = "uncertain" => Of(config.hosts, s) # Of(Expected, s)
=============================================================================
