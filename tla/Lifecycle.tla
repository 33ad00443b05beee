----------------------------- MODULE Lifecycle -----------------------------
(***************************************************************************)
(* The whole daemon: clients ask for operations, the handlers of different *)
(* sandboxes interleave, the daemon or the host dies at any point and is   *)
(* started again (perhaps as a newer binary), and containers are stopped,  *)
(* deleted or replaced behind the daemon's back.  The handlers of start,   *)
(* stop and destroy are here; up, apply and recovery have modules.         *)
(***************************************************************************)
EXTENDS Apply, Recovery, FiniteSets

CONSTANT MaxOps   \* bound: operations ever begun

ASSUME LifecycleAssumption == MaxOps \in Nat

VARIABLES
    crashes,     \* crashes so far
    hadVolumes   \* history: whose volumes existed when the last operation began

vars == <<serviceVars, recoveryVars, crashes, hadVolumes, plan>>

-----------------------------------------------------------------------------
(* start() and stop() (simple_state), and destroy() (destroy_inner) *)

BeginStart(s) ==
    /\ rows[s] # NoRow
    /\ Begin(s, "Start", [rows[s] EXCEPT !.desired = "Running"],
             [NoTask EXCEPT !.next = "set_inspect", !.fallback = rows[s].actual])

BeginStop(s) ==
    /\ rows[s] # NoRow
    /\ Begin(s, "Stop", [rows[s] EXCEPT !.desired = "Stopped"],
             [NoTask EXCEPT !.next = "set_inspect", !.fallback = rows[s].actual])

\* The state that start or stop asks for is the one it has put on record as
\* desired.
Target(s) == task[s].rec.desired

SetDone(s) ==
    task' = [task EXCEPT ![s].pc = "complete", ![s].rec.actual = Target(s)]

\* Mistake: the container is not started or stopped.
SetInspectOnly(s) ==
    /\ At(s, "set_inspect") /\ Works
    /\ IF Mine(s) THEN SetDone(s) ELSE Goto(s, "fail")
    /\ UNCHANGED <<storeVars, box, aux, approved>>

SetInspect(s) ==
    /\ At(s, "set_inspect")
    /\ \/ Mine(s) /\ box[s].state = Target(s) /\ Works /\ SetDone(s)
       \/ Mine(s) /\ box[s].state # Target(s) /\ Works /\ Goto(s, "set_move")
       \/ ~Mine(s) /\ Works /\ Goto(s, "fail")
       \/ Fails("inspect") /\ Goto(s, "fail")
    /\ UNCHANGED <<storeVars, box, aux, approved>>

SetMove(s) ==
    /\ At(s, "set_move")
    /\ \/ Works /\ SetState(s, Target(s)) /\ SetDone(s)
       \/ /\ \/ /\ Fails(IF Target(s) = "Running" THEN "start" ELSE "stop")
                /\ Perhaps(SetState(s, Target(s)))
             \/ box[s] = NoBox /\ Works /\ UNCHANGED runtimeVars
          /\ Goto(s, "fail")
    /\ UNCHANGED <<storeVars, approved>>

-----------------------------------------------------------------------------

DestroyRecord(s) ==
    [rows[s] EXCEPT !.desired = "Absent",
                    !.actual = IF @ = "Absent" THEN @ ELSE "Destroying"]

BeginDestroy(s) ==
    /\ rows[s] # NoRow
    /\ Begin(s, "Destroy", DestroyRecord(s),
             [NoTask EXCEPT !.next = "d_inspect", !.fallback = rows[s].actual])

DestroyInspect(s) ==
    /\ At(s, "d_inspect")
    /\ \/ Mine(s) /\ box[s].state = "Running" /\ Works /\ Goto(s, "d_stop")
       \/ Mine(s) /\ box[s].state # "Running" /\ Works /\ Goto(s, "d_list")
       \/ box[s] = NoBox /\ Works /\ Goto(s, "d_list")
       \/ box[s] # NoBox /\ ~Mine(s) /\ Works /\ Goto(s, "fail")
       \/ Fails("inspect") /\ Goto(s, "fail")
    /\ UNCHANGED <<storeVars, box, aux, approved>>

DestroyStop(s) ==
    /\ At(s, "d_stop")
    /\ \/ Works /\ SetState(s, "Stopped") /\ Goto(s, "d_list")
       \/ /\ \/ Fails("stop") /\ Perhaps(SetState(s, "Stopped"))
             \/ box[s] = NoBox /\ Works /\ UNCHANGED runtimeVars
          /\ Goto(s, "fail")
    /\ UNCHANGED <<storeVars, approved>>

\* Only resources with the expected names and this sandbox's labels.
DestroyList(s) ==
    /\ At(s, "d_list")
    /\ \/ /\ Works
          /\ task' = [task EXCEPT ![s].pc = "remove", ![s].next = "d_verify",
                                  ![s].todo = OwnedResources(s)]
       \/ Fails("list") /\ Goto(s, "fail")
    /\ UNCHANGED <<storeVars, box, aux, approved>>

DestroyVerify(s) ==
    /\ At(s, "d_verify")
    /\ \/ /\ OwnedResources(s) = {} /\ Works
          /\ task' = [task EXCEPT ![s].pc = "complete", ![s].rec.actual = "Absent"]
       \/ OwnedResources(s) # {} /\ Works /\ Goto(s, "fail")
       \/ Fails("list") /\ Goto(s, "fail")
    /\ UNCHANGED <<storeVars, box, aux, approved>>

StateStep(s) ==
    \/ SetInspect(s) \/ SetMove(s)
    \/ DestroyInspect(s) \/ DestroyStop(s) \/ DestroyList(s) \/ DestroyVerify(s)

-----------------------------------------------------------------------------
(* The daemon *)

Init ==
    /\ StoreInit /\ RuntimeInit
    /\ task = [s \in Sandboxes |-> NoTask]
    /\ plan \in Plans /\ approved \in plan.images
    /\ faults = 0 /\ crashes = 0
    /\ daemon = "recovering" /\ queue = {} /\ look = NoLook
    /\ hadVolumes = {}

Request(s) ==
    /\ daemon = "serving" /\ Len(ops) < MaxOps /\ s \in plan.who
    /\ \/ "up" \in plan.requests /\ \E m \in plan.manifests : BeginUp(s, m)
       \/ "apply" \in plan.requests /\ \E m \in plan.manifests : BeginApply(s, m)
       \/ "start" \in plan.requests /\ BeginStart(s)
       \/ "stop" \in plan.requests /\ BeginStop(s)
       \/ "destroy" \in plan.requests /\ BeginDestroy(s)
    /\ hadVolumes' = IF "volume" \in aux[s] THEN hadVolumes \cup {s} ELSE hadVolumes \ {s}
    /\ UNCHANGED <<recoveryVars, crashes, plan>>

HandlerStep(s) ==
    /\ daemon = "serving"
    /\ \/ Initialize(s) \/ FailOperation(s) \/ Commit(s)
       \/ CompleteOperation(s) \/ Remove(s)
       \/ GuestStep(s) \/ UpStep(s) \/ StateStep(s)
       \/ ApplyStep(s) \/ ReplaceStep(s) \/ RollbackStep(s)
    /\ UNCHANGED <<recoveryVars, crashes, hadVolumes, plan>>

Recover == RecoveryStep /\ UNCHANGED <<crashes, hadVolumes, plan>>

Start == StartDaemon /\ UNCHANGED <<crashes, hadVolumes, plan>>

\* The daemon goes away in order when no handler runs.
Shutdown ==
    /\ daemon = "serving" /\ \A s \in Sandboxes : At(s, "idle")
    /\ daemon' = "down"
    /\ UNCHANGED <<serviceVars, queue, look, crashes, hadVolumes, plan>>

Dies ==
    /\ daemon \in {"recovering", "serving"} /\ crashes < plan.maxCrashes
    /\ daemon' = "down" /\ queue' = {} /\ look' = NoLook
    /\ task' = [s \in Sandboxes |-> NoTask]
    /\ crashes' = crashes + 1
    /\ UNCHANGED <<storeVars, aux, approved, faults, hadVolumes, plan>>

\* The daemon is killed; the containers keep running.
Crash == Dies /\ UNCHANGED box

\* The host goes down and no container runs when it is back.
HostReboot ==
    /\ Dies
    /\ box' = [s \in Sandboxes |->
                 IF box[s] = NoBox THEN NoBox ELSE [box[s] EXCEPT !.state = "Stopped"]]

\* What others do to a container: delete it, let it exit, take its name.
Interference(s) ==
    /\ \/ Fails("loss") /\ box[s] # NoBox /\ box' = [box EXCEPT ![s] = NoBox]
       \/ /\ Fails("exit") /\ Mine(s) /\ box[s].state = "Running"
          /\ box' = [box EXCEPT ![s].state = "Stopped"]
       \/ /\ Fails("foreign") /\ box[s] = NoBox /\ s \in plan.who
          /\ \E image \in plan.images :
                box' = [box EXCEPT ![s] = [NewContainer(image) EXCEPT !.owned = FALSE]]
    /\ UNCHANGED <<storeVars, aux, task, approved, recoveryVars, crashes, hadVolumes, plan>>

Next ==
    \/ \E s \in Sandboxes : Request(s) \/ HandlerStep(s) \/ Interference(s)
    \/ Recover \/ Start \/ Shutdown \/ Crash \/ HostReboot

Spec == Init /\ [][Next]_vars

\* A handler's future is polled until it is done, the daemon's start runs to
\* its end, and a daemon that is down is started by the next client.
Fairness ==
    /\ \A s \in Sandboxes : WF_vars(HandlerStep(s))
    /\ WF_vars(Recover) /\ WF_vars(Start)

FairSpec == Spec /\ Fairness

-----------------------------------------------------------------------------
(* Properties *)

Operations == 1..Len(ops)

TypeOK ==
    /\ StoreTypeOK /\ RuntimeTypeOK
    /\ task \in [Sandboxes -> Task]
    /\ approved \in Images
    /\ faults \in 0..plan.maxFaults /\ crashes \in 0..plan.maxCrashes
    /\ daemon \in {"down", "recovering", "serving", "aborted"}
    /\ queue \in SUBSET Operations
    /\ look \in [step : {"inspect", "resolve", "finish"}, actual : ActualState,
                 status : OperationStatus]
    /\ hadVolumes \subseteq Sandboxes

Pending(i) == ops[i].status = "Pending"

\* Operation i ends in this step with this status.
Ends(i, status) == Pending(i) /\ ops'[i].status = status

\* A handler ends its operation of this kind and with this status in this step.
HandlerEnds(s, kind, status) ==
    /\ task[s].pc # "idle"
    /\ ops[task[s].op].kind = kind
    /\ Ends(task[s].op, status)

\* Nobody but the daemon touches the containers in this behaviour.
Undisturbed == plan.faults \cap {"loss", "exit", "foreign"} = {}

Observed(s) == IF box[s] = NoBox THEN "Absent" ELSE box[s].state

\* A handler works under a pending operation of its own from begin_operation
\* until it returns: nothing else (another handler, recovery, its own error
\* path) has ended it before the handler is done.
HandlersHoldTheirOperation ==
    \A s \in Sandboxes :
        task[s].pc # "idle" =>
            /\ task[s].op \in Operations
            /\ Pending(task[s].op) /\ ops[task[s].op].sandbox = s

\* Design, line 122: the daemon touches containers, volumes and networks of a
\* sandbox only while an operation on that sandbox is pending in the store, so
\* a crash at any point finds the operation that explains what is there.
MutationsAreJournaled ==
    [][ \/ \E s \in Sandboxes : Interference(s)
        \/ HostReboot
        \/ \A s \in Sandboxes :
              box'[s] # box[s] \/ aux'[s] # aux[s] => HasPending(s) ]_vars

\* An operation that is recorded as completed leaves on record the state that
\* the runtime is in, whether a handler or recovery completed it, unless others
\* change that state.
CompletionMatchesRuntime ==
    [][ Undisturbed => \A i \in Operations :
          Ends(i, "Completed") =>
              rows'[ops[i].sandbox].actual = Observed(ops[i].sandbox) ]_vars

\* A destroy that is recorded as completed has left no container, volume or
\* network of the sandbox, also when recovery completes it after a crash.
DestroyedIsGone ==
    [][ \A i \in Operations :
          Ends(i, "Completed") /\ ops[i].kind = "Destroy"
              => OwnedResources(ops[i].sandbox) = {} ]_vars

\* Design, line 122: volumes are removed by destroy, and otherwise only by an
\* up that found none when it began.
VolumesSurvive ==
    [][ \A s \in Sandboxes :
          "volume" \in aux[s] /\ "volume" \notin aux'[s] =>
              \/ ops[task[s].op].kind = "Destroy"
              \/ ops[task[s].op].kind = "Create" /\ s \notin hadVolumes ]_vars

\* Design, line 124: a container that does not carry the sandbox's labels is
\* never removed or replaced by the daemon.
ForeignIsKept ==
    [][ \/ \E s \in Sandboxes : Interference(s)
        \/ \A s \in Sandboxes :
              box[s] # NoBox /\ ~Mine(s) =>
                  box'[s] # NoBox /\ ~box'[s].owned ]_vars

\* The resolution on record is only ever changed to a fingerprint that was
\* really provisioned in the container that is there now: by the handler, and
\* by recovery from what the log proves (ordered_hook_evidence), unless others
\* take the container away.  The one exception is the last step of a rollback,
\* which puts the row back that the replacement had read.
ResolutionIsReal ==
    [][ Undisturbed => \A s \in Sandboxes :
          /\ rows[s] # NoRow /\ rows'[s] # NoRow
          /\ rows'[s].resolved # rows[s].resolved
          => \/ box[s] # NoBox /\ box[s].provisioned = rows'[s].resolved
             \/ At(s, "restore_row") /\ rows'[s] = task[s].prior ]_vars

\* Creating and Destroying are on record only while the create or the destroy
\* is pending, so no sandbox is left in a state that up, apply, start, stop
\* and destroy all refuse, unless the store fails or others interfere.
TransientIsPending ==
    Undisturbed /\ "store" \notin plan.faults => \A s \in Sandboxes :
        rows[s] # NoRow /\ rows[s].actual \in {"Creating", "Destroying"} =>
            \E i \in Operations :
                /\ ops[i].sandbox = s /\ Pending(i)
                /\ ops[i].kind = IF rows[s].actual = "Creating" THEN "Create" ELSE "Destroy"

\* While the daemon serves, the pending operations without a handler.
Orphans == {i \in Operations : Pending(i) /\ task[ops[i].sandbox].op # i}

\* Every pending operation that a serving daemon has no handler for, and that
\* blocks its sandbox until the next start, is due to a call that failed or to
\* interference of its own: recovery settles whatever crashes alone leave.
OrphansNeedFaults == daemon = "serving" => Cardinality(Orphans) <= faults

\* No sandbox is left waiting for what nobody does: neither in a transient state
\* nor behind a pending operation without a handler.
NothingIsStranded == TransientIsPending /\ OrphansNeedFaults

\* A failed image replacement whose rollback did not fail as well has put a
\* container of the previous image back beside the volumes, whichever single
\* call failed, the final commit included.
ReplacementIsUndone ==
    [][ Undisturbed => \A s \in Sandboxes :
          HandlerEnds(s, "Apply", "Failed") /\ task[s].replacing /\ faults <= 1 =>
              /\ Mine(s) /\ box[s].image = task[s].seen.image
              /\ aux[s] = {"volume", "network"}
              /\ rows'[s].image = task[s].prior.image ]_vars

\* A completed apply leaves the approved image running and on record, and the
\* requested fingerprint on record.
ApplyConverges ==
    [][ Undisturbed => \A s \in Sandboxes :
          HandlerEnds(s, "Apply", "Completed") =>
              /\ box[s] # NoBox /\ box[s].image = approved
              /\ rows'[s].image = approved /\ rows'[s].resolved = task[s].want ]_vars

\* Design, line 122: a failed up has removed the resources it created itself,
\* whichever single call to the runtime failed, unless it failed in the setup
\* script, which leaves a stopped sandbox.
FailedUpLeavesNothing ==
    [][ Undisturbed /\ "store" \notin plan.faults => \A s \in Sandboxes :
          HandlerEnds(s, "Create", "Failed") /\ ~task[s].stopped /\ faults <= 1 =>
              task[s].made \cap OwnedResources(s) = {} ]_vars

\* What the store records of an operation that completes is so in the runtime:
\* the state of the sandbox, that a destroyed one is gone, and what was
\* provisioned in it.
OutcomesAreReal == CompletionMatchesRuntime /\ DestroyedIsGone /\ ResolutionIsReal

\* An up or a replacement that failed has been undone, and an apply that
\* completed has replaced what it had to.
FailuresAreUndone == ReplacementIsUndone /\ FailedUpLeavesNothing /\ ApplyConverges

\* What the daemon may not remove stays, on every path: volumes that hold data,
\* and containers of others.
ResourcesAreKept == VolumesSurvive /\ ForeignIsKept

\* Every operation ends: a handler finishes it, or the next start settles it.
OperationsEnd ==
    \A i \in 1..MaxOps :
        (i \in Operations /\ Pending(i)) ~> (i \in Operations /\ ~Pending(i))

-----------------------------------------------------------------------------
(* What documents and tests say and the code does not do *)

\* Design, line 124: after a crash the daemon reconciles the store and the
\* runtime; in particular it comes up again.
StartNeverAborts == daemon # "aborted"

\* tests/lifecycle.rs, synchronous_runtime_failures_after_begin_are_terminal_not_pending:
\* an operation whose handler has returned is not pending.
ReturnedIsTerminal == daemon = "serving" => Orphans = {}

\* Design, line 128: a retry after a failed setup repeats the provisioning.  An
\* up that completes without asking for an apply has provisioned the container.
UpHasProvisioned ==
    [][ \A s \in Sandboxes :
          LET events == ops[task[s].op].events IN
          /\ HandlerEnds(s, "Create", "Completed")
          /\ Positions(events, "apply_required") = {}
          => box[s] # NoBox /\ box[s].provisioned = task[s].want ]_vars

\* ServiceError::StorageLayoutRequiresRecreate: a sandbox that up refuses for
\* its storage layout can be destroyed.
RefusedUpCanBeDestroyed ==
    \A s \in Sandboxes :
        /\ daemon = "serving" /\ At(s, "idle")
        /\ rows[s] # NoRow /\ ~StorageValid(s)
        => BeginAccepted(s, DestroyRecord(s))

=============================================================================
