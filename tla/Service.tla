------------------------------ MODULE Service ------------------------------
(***************************************************************************)
(* What the lifecycle handlers of the sandbox service                      *)
(* (crates/gascand/src/service.rs) have in common.                         *)
(*                                                                         *)
(* A handler runs while it holds the sandbox's lock (keyed_lock), so there *)
(* is at most one per sandbox: task[s].  It takes the lock, reads the row, *)
(* begins an operation and then alternates calls to the runtime with store *)
(* transactions.  Every such call is one step; between two of them the     *)
(* daemon may die, and handlers of other sandboxes run.  A request that    *)
(* waits for the lock has done nothing yet, so it is not represented.      *)
(*                                                                         *)
(* A call may fail: Fails(p) is a failure at the boundary p, taken from a  *)
(* budget.  Progress events that nothing in the daemon reads back          *)
(* ("validated", "created", "started", the image replacement phases) leave *)
(* no trace in the log here, but the step that writes them can still fail. *)
(*                                                                         *)
(* The first part is the container runtime: what it holds for each sandbox *)
(* and what one command to it changes.  The commands are those of the      *)
(* Apple backend (crates/gascan-apple/src/backend.rs), one external        *)
(* command per step, so that the daemon can fail or die between any two.   *)
(* A sandbox has a container, a managed network and managed volumes; the   *)
(* volumes are created and removed together and are one resource here.     *)
(***************************************************************************)
EXTENDS Store

-----------------------------------------------------------------------------
(* The runtime *)

CONSTANT NoBox       \* "no container of this name"

VARIABLES
    box,             \* the container named after each sandbox
    aux              \* the sandbox's other resources that exist

runtimeVars == <<box, aux>>

\* A container: its state, its image, the fingerprint of the last provisioning
\* that ran to the end inside it, and whether it carries this sandbox's labels.
Container ==
    [state : {"Running", "Stopped"}, image : Images,
     provisioned : Manifests \cup {None}, owned : BOOLEAN]

ASSUME NoBoxAssumption == NoBox \notin Container

Resource == {"container", "volume", "network"}

NewContainer(image) ==
    [state |-> "Stopped", image |-> image, provisioned |-> None, owned |-> TRUE]

\* list_resources() filtered to what carries this sandbox's labels.
OwnedResources(s) ==
    aux[s] \cup IF box[s] # NoBox /\ box[s].owned THEN {"container"} ELSE {}

-----------------------------------------------------------------------------
(* create(): refused when a resource is in the way, then network, volumes  *)
(* and container in this order                                             *)

CreateRefused(s) == box[s] # NoBox \/ aux[s] # {}

NextToCreate(made) ==
    CASE "network" \notin made -> "network"
      [] "network" \in made /\ "volume" \notin made -> "volume"
      [] OTHER -> "container"

CreateResource(s, r, image) ==
    IF r = "container"
    THEN /\ box[s] = NoBox
         /\ box' = [box EXCEPT ![s] = NewContainer(image)]
         /\ UNCHANGED aux
    ELSE /\ aux' = [aux EXCEPT ![s] = @ \cup {r}]
         /\ UNCHANGED box

-----------------------------------------------------------------------------
(* remove(): container, volumes, network in this order, each one only when *)
(* it is still there and still ours                                        *)

NextToRemove(todo) ==
    CASE "container" \in todo -> "container"
      [] "container" \notin todo /\ "volume" \in todo -> "volume"
      [] OTHER -> "network"

RemoveResource(s, r) ==
    /\ r \in OwnedResources(s)
    /\ IF r = "container"
       THEN box' = [box EXCEPT ![s] = NoBox] /\ UNCHANGED aux
       ELSE aux' = [aux EXCEPT ![s] = @ \ {r}] /\ UNCHANGED box

-----------------------------------------------------------------------------
(* start(), stop(), and the commands run inside the container by exec()    *)

SetState(s, state) ==
    /\ box[s] # NoBox
    /\ box' = [box EXCEPT ![s].state = state]
    /\ UNCHANGED aux

ProvisionGuest(s, print) ==
    /\ box[s] # NoBox /\ box[s].state = "Running"
    /\ box' = [box EXCEPT ![s].provisioned = print]
    /\ UNCHANGED aux

RuntimeInit ==
    /\ box = [s \in Sandboxes |-> NoBox]
    /\ aux = [s \in Sandboxes |-> {}]

RuntimeTypeOK ==
    /\ box \in [Sandboxes -> Container \cup {NoBox}]
    /\ aux \in [Sandboxes -> SUBSET {"volume", "network"}]

-----------------------------------------------------------------------------
(* The handlers *)

CONSTANTS
    RootOf,      \* the canonical root each sandbox id was derived from
    Plans        \* bounds on what happens; a behaviour keeps to one of them

FaultPoint ==
    {"inspect", "list", "create", "start", "stop", "remove", "image", "exec",
     "setup", "health", "ssh", "store", "loss", "exit", "foreign"}

\* The sandboxes clients use, what they ask for, the images daemon binaries
\* approve, the boundaries at which a call may fail or others interfere, how
\* often that happens, and how often the daemon or the host dies.
Plan ==
    [who : SUBSET Sandboxes,
     requests : SUBSET {"up", "apply", "start", "stop", "destroy"},
     manifests : SUBSET Manifests, images : SUBSET Images,
     faults : SUBSET FaultPoint, maxFaults : Nat, maxCrashes : Nat]

ASSUME ServiceAssumption == RootOf \in [Sandboxes -> Roots] /\ Plans \subseteq Plan

VARIABLES
    task,        \* the handler holding each sandbox's lock
    approved,    \* the workspace image this daemon binary approves
    faults,      \* how many failures have happened
    plan         \* the bounds of this behaviour

serviceVars == <<rows, ops, box, aux, task, approved, faults>>

\* The step a handler is about to take.
Pc ==
    {"idle", "init", "fail", "complete", "commit", "remove",
     "up_inspect", "create", "make", "evidence", "persist", "created",
     "up_start", "up_plan", "cleanup",
     "before_provision", "provision", "setup_stop", "after_provision",
     "before_health", "health", "ssh",
     "set_inspect", "set_move",
     "d_inspect", "d_stop", "d_list", "d_verify",
     "ap_inspect", "ap_stop", "ap_start", "ap_plan",
     "rp_evidence", "rp_prepare", "rp_stop", "rp_remove", "rp_create",
     "rp_partial", "rp_start", "retain", "rb_list", "rb_stop", "rb_remove",
     "rb_create", "rb_start", "rb_ssh", "restore_row"}

Fingerprint == Manifests \cup {None}

Row == SandboxRecord \cup {NoRow}

Found == Container \cup {NoBox}

Resources == SUBSET Resource

Flag == BOOLEAN

Task ==
    [pc : Pc,
     op : Nat,                \* the operation it began
     want : Fingerprint,      \* the fingerprint asked for
     print : Fingerprint,     \* the one its events carry
     prior : Row,             \* the row it read under the lock
     rec : Row,               \* the row it will write
     seen : Found,            \* the container it inspected
     made : Resources,        \* created by this attempt
     todo : Resources,        \* still to be removed
     next : Pc,               \* where the current part leads
     onError : Pc,            \* where errors in the guest lead
     replacing : Flag,        \* is it replacing the container?
     uncommit : Flag,         \* is it undoing a commit?
     stopped : Flag,          \* did it confirm the setup stop?
     fallback : ActualState]  \* when inspection says nothing

NoTask ==
    [pc |-> "idle", op |-> 0, want |-> None, print |-> None, prior |-> NoRow,
     rec |-> NoRow, seen |-> NoBox, made |-> {}, todo |-> {}, next |-> "idle",
     onError |-> "idle", replacing |-> FALSE, uncommit |-> FALSE,
     stopped |-> FALSE, fallback |-> "Absent"]

-----------------------------------------------------------------------------
(* Calls and their failures *)

Works == UNCHANGED faults

Fails(p) == p \in plan.faults /\ faults < plan.maxFaults /\ faults' = faults + 1

\* A command that failed may all the same have had its effect.
Perhaps(Effect) == Effect \/ UNCHANGED runtimeVars

Goto(s, pc) == task' = [task EXCEPT ![s].pc = pc]

Release(s) == task' = [task EXCEPT ![s] = NoTask]

At(s, pc) == task[s].pc = pc

\* What runtime.inspect sees: a container of ours, of someone else, or none.
Mine(s) == box[s] # NoBox /\ box[s].owned

\* emit(): append the event, or fail and leave the log alone.
Emit(s, phase, print, next, failed) ==
    \/ Works /\ AppendOperationEvent(task[s].op, phase, print) /\ Goto(s, next)
    \/ Fails("store") /\ UNCHANGED storeVars /\ Goto(s, failed)

\* emit() of an event nothing reads back, or any other write without a trace.
Note(s, next, failed) ==
    \/ Works /\ Goto(s, next)
    \/ Fails("store") /\ Goto(s, failed)

\* A handler that holds the lock, has read the row and begins its operation.
Begin(s, kind, rec, t) ==
    /\ At(s, "idle")
    /\ BeginOperation(s, rec, kind)
    /\ task' = [task EXCEPT ![s] =
                  [t EXCEPT !.pc = "init", !.op = Len(ops) + 1,
                            !.prior = rows[s], !.rec = rec]]
    /\ UNCHANGED <<box, aux, approved, faults>>

\* initialize_operation(), and the "validated" event of up: the first event is
\* read back and sent.  When that fails, the row keeps the state it has just
\* been given unless a container says otherwise.
Initialize(s) ==
    /\ At(s, "init")
    /\ \/ Works /\ Goto(s, task[s].next)
       \/ /\ Fails("store")
          /\ task' = [task EXCEPT ![s].pc = "fail",
                                  ![s].fallback = task[s].rec.actual]
    /\ UNCHANGED <<storeVars, box, aux, approved>>

\* Mistake: without a container the recorded state is taken for the actual one.
RuntimeActualRecorded(s, fallback) ==
    IF box[s] # NoBox THEN box[s].state ELSE rows[s].actual

RuntimeActual(s, fallback) == IF box[s] # NoBox THEN box[s].state ELSE fallback

-----------------------------------------------------------------------------
(* The steps handlers share *)

\* The error path: look at the runtime, then record the failure.  When the
\* store refuses the transition the handler gives up, its operation pending.
Report(t, actual) ==
    IF FinishAccepted(t.op, actual, "Failed")
    THEN FinishOperation(t.op, actual, "Failed")
    ELSE UNCHANGED storeVars

\* Mistake: the failure is recorded before the cleanup.
FailOperationEarly(s) ==
    /\ At(s, "fail") /\ Works
    /\ Report(task[s], RuntimeActual(s, task[s].fallback))
    /\ Goto(s, "cleanup")
    /\ UNCHANGED <<box, aux, approved>>

FailOperation(s) ==
    LET t == task[s] IN
    /\ At(s, "fail")
    /\ \/ t.stopped /\ Works /\ Report(t, "Stopped")
       \/ ~t.stopped /\ Works /\ Report(t, RuntimeActual(s, t.fallback))
       \/ ~t.stopped /\ Fails("inspect") /\ Report(t, t.fallback)
       \/ Fails("store") /\ UNCHANGED storeVars
    /\ Release(s)
    /\ UNCHANGED <<box, aux, approved>>

\* A refused or failed commit: a replacement undoes itself, the other handlers
\* return the error and leave the operation pending.
CommitRefused(s) ==
    /\ UNCHANGED storeVars
    /\ IF task[s].replacing
       THEN task' = [task EXCEPT ![s].pc = "retain", ![s].uncommit = TRUE]
       ELSE Release(s)

\* Write the row the handler has prepared.
Commit(s) ==
    LET t == task[s] IN
    /\ At(s, "commit")
    /\ \/ /\ PutAccepted(s, t.rec) /\ Works
          /\ PutSandbox(s, t.rec) /\ Goto(s, "complete")
       \/ ~PutAccepted(s, t.rec) /\ Works /\ CommitRefused(s)
       \/ Fails("store") /\ CommitRefused(s)
    /\ UNCHANGED <<box, aux, approved>>

CompleteOperation(s) ==
    LET t == task[s] IN
    /\ At(s, "complete")
    /\ \/ /\ FinishAccepted(t.op, t.rec.actual, "Completed") /\ Works
          /\ FinishOperation(t.op, t.rec.actual, "Completed") /\ Release(s)
       \/ ~FinishAccepted(t.op, t.rec.actual, "Completed") /\ Works /\ CommitRefused(s)
       \/ Fails("store") /\ CommitRefused(s)
    /\ UNCHANGED <<box, aux, approved>>

\* runtime.remove(): one resource per step.  After an error the rest stays.
Remove(s) ==
    LET t == task[s]
        r == NextToRemove(t.todo) IN
    /\ At(s, "remove")
    /\ \/ t.todo = {} /\ Works /\ Goto(s, t.next) /\ UNCHANGED runtimeVars
       \/ /\ t.todo # {} /\ Works
          /\ RemoveResource(s, r)
          /\ task' = [task EXCEPT ![s].todo = @ \ {r}]
       \/ /\ t.todo # {}
          /\ \/ Fails("remove") /\ Perhaps(RemoveResource(s, r))
             \/ r \notin OwnedResources(s) /\ Works /\ UNCHANGED runtimeVars
          /\ Goto(s, "fail")
    /\ UNCHANGED <<storeVars, approved>>

=============================================================================
