-------------------------- MODULE HandlerProofs ----------------------------
(***************************************************************************)
(* What a handler of the daemon may rely on wherever it stands, and what   *)
(* each of its steps does to that, for any numbers of sandboxes, images    *)
(* and operations, whatever fails.                                         *)
(*                                                                         *)
(* The invariant says that a handler holds a pending operation of its own  *)
(* (Holds), which operation and which errors lead to its step (ControlOf), *)
(* what it has read (DataOf), which volumes it may remove (VolumesOf), and *)
(* that a destroy about to be completed has left nothing (LegalAt).  Of    *)
(* recovery it says that no handler runs beside it, and what its verdict   *)
(* rests on (Settling).  There is one lemma per step of a handler; module  *)
(* LifecycleProofs puts them together.                                     *)
(***************************************************************************)
EXTENDS Lifecycle, StoreProofs

-----------------------------------------------------------------------------
(* The inductive invariant *)

\* The operation that the handler of s performs.
Kind(s) == ops[task[s].op].kind

\* The steps of up(), of an image replacement and its rollback, of the rest of
\* apply(), of the guest's provisioning, and of destroy().
UpPc == {"up_inspect", "create", "make", "evidence", "persist", "created", "up_start", "up_plan",
         "cleanup"}

ReplacePc == {"rp_stop", "rp_remove", "rp_create", "rp_partial", "rp_start", "retain", "rb_list",
              "rb_stop", "rb_remove", "rb_create", "rb_start", "rb_ssh", "restore_row"}

ApplyPc == {"ap_inspect", "ap_stop", "ap_start", "ap_plan", "rp_evidence", "rp_prepare"}

GuestPc == {"before_provision", "provision", "setup_stop", "after_provision", "before_health",
            "health", "ssh"}

DestroyPc == {"d_inspect", "d_stop", "d_list", "d_verify"}

\* Where a handler stands tells which operation it performs, and where it goes.
ControlOf(pc, t, k) ==
    /\ pc = "init" =>
          <<k, t.next>> \in {<<"Create", "up_inspect">>, <<"Apply", "ap_inspect">>,
                             <<"Start", "set_inspect">>, <<"Stop", "set_inspect">>,
                             <<"Destroy", "d_inspect">>}
    /\ pc \in UpPc => k = "Create"
    /\ pc \in ApplyPc \cup ReplacePc => k = "Apply"
    /\ pc \in {"set_inspect", "set_move"} => k \in {"Start", "Stop"}
    /\ pc \in DestroyPc => k = "Destroy"
    /\ pc \in GuestPc \cup {"commit"} => k \in {"Create", "Apply"}
    /\ pc \in GuestPc => t.next \in {"commit", "complete"}
    /\ pc = "remove" => <<k, t.next>> \in {<<"Create", "fail">>, <<"Destroy", "d_verify">>}
    /\ k = "Create" => t.onError = "cleanup"
    /\ k = "Apply" => t.onError \in {"fail", "rb_list"}

\* A handler has a row to write, which names the state that start or stop asks
\* for.  An apply has read the row that was there, and a replacement the
\* container it replaces.
DataOf(pc, t, k) ==
    /\ t.rec \in SandboxRecord
    /\ k = "Apply" => t.prior \in SandboxRecord
    /\ k \in {"Start", "Stop"} /\ pc \in {"init", "set_inspect", "set_move"} =>
          t.rec.desired \in {"Running", "Stopped"}
    /\ pc \in ReplacePc \/ t.onError = "rb_list" => t.replacing
    /\ t.replacing => k = "Apply" /\ t.seen \in Container

\* The volumes that a create removes are its own: there were none when it began.
VolumesOf(pc, t, k, had, others) ==
    /\ k = "Create" /\ pc \in {"init", "up_inspect", "create"} =>
          t.made = {} /\ (had <=> "volume" \in others)
    /\ pc \in {"make", "evidence"} => ~had
    /\ "volume" \in t.made => k = "Create" /\ ~had
    /\ pc = "remove" /\ k = "Create" => t.todo \subseteq t.made

\* A handler at pc with the local state t, and the resources of its sandbox.  A
\* destroy that is about to be completed has left nothing.
LegalAt(pc, t, k, had, others, left) ==
    /\ ControlOf(pc, t, k) /\ DataOf(pc, t, k) /\ VolumesOf(pc, t, k, had, others)
    /\ pc = "complete" /\ k = "Destroy" => left = {}

\* A handler holds a pending operation of its own, and stands where it may.
Holds(s) ==
    task[s].pc # "idle" =>
        /\ task[s].op \in Operations
        /\ Pending(task[s].op) /\ ops[task[s].op].sandbox = s
        /\ LegalAt(task[s].pc, task[s], Kind(s), s \in hadVolumes, aux[s], OwnedResources(s))

\* Recovery is alone, and what it will record is still true when it does.
Settling ==
    /\ daemon \in {"down", "recovering", "serving", "aborted"}
    /\ daemon # "serving" => \A s \in Sandboxes : At(s, "idle")
    /\ queue \subseteq Operations /\ (daemon # "recovering" => queue = {})
    /\ look \in [step : {"inspect", "resolve", "finish"}, actual : ActualState,
                 status : OperationStatus]
    /\ queue # {} /\ look.step # "inspect" =>
          LET op == ops[First] IN
          /\ look.status = "Completed" /\ op.kind = "Destroy" => OwnedResources(op.sandbox) = {}
          /\ look.step = "resolve" => Positions(op.events, "after_provision") # {}

\* What the plan bounds.
BoundsType ==
    /\ plan \in Plan /\ approved \in plan.images
    /\ faults \in 0..plan.maxFaults /\ crashes \in 0..plan.maxCrashes
    /\ hadVolumes \subseteq Sandboxes

TaskType == task \in [Sandboxes -> Task]

StoreInvariant == StoreTypeOK /\ OperationsHaveRows

LifecycleInvariant ==
    /\ StoreInvariant /\ RuntimeTypeOK /\ TaskType /\ BoundsType /\ Settling
    /\ \A s \in Sandboxes : Holds(s)

-----------------------------------------------------------------------------
(* The local state of a handler *)

\* A change of one field by a value of its type leaves a handler's state typed.
LEMMA TaskEdits ==
    ASSUME NEW t \in Task
    PROVE  /\ \A x \in Pc : [t EXCEPT !.pc = x] \in Task
           /\ \A x \in Pc : [t EXCEPT !.next = x] \in Task
           /\ \A x \in Pc : [t EXCEPT !.onError = x] \in Task
           /\ \A x \in Fingerprint : [t EXCEPT !.print = x] \in Task
           /\ \A x \in Row : [t EXCEPT !.rec = x] \in Task
           /\ \A x \in Found : [t EXCEPT !.seen = x] \in Task
           /\ \A x \in Resources : [t EXCEPT !.made = x] \in Task
           /\ \A x \in Resources : [t EXCEPT !.todo = x] \in Task
           /\ \A x \in Flag : [t EXCEPT !.replacing = x] \in Task
           /\ \A x \in Flag : [t EXCEPT !.uncommit = x] \in Task
           /\ \A x \in Flag : [t EXCEPT !.stopped = x] \in Task
           /\ \A x \in ActualState : [t EXCEPT !.fallback = x] \in Task
BY DEF Task

\* The types of a handler's fields.
LEMMA TaskFields ==
    ASSUME NEW t \in Task
    PROVE  /\ t.pc \in Pc /\ t.op \in Nat /\ t.want \in Fingerprint /\ t.print \in Fingerprint
           /\ t.prior \in Row /\ t.rec \in Row /\ t.seen \in Found
           /\ t.made \in Resources /\ t.todo \in Resources /\ t.next \in Pc /\ t.onError \in Pc
           /\ t.fallback \in ActualState
BY DEF Task

\* The idle handler is typed.
LEMMA NoTaskType == NoTask \in Task
BY DEF NoTask, Task, Pc, Fingerprint, Row, Found, Resources, Flag, ActualState

LegalNow(s) ==
    LegalAt(task[s].pc, task[s], Kind(s), s \in hadVolumes, aux[s], OwnedResources(s))

LegalAfter(pc, t, s) ==
    LegalAt(pc, t, Kind(s), s \in hadVolumes, aux'[s], OwnedResources(s)')

\* The handler of s returns, or goes on where it may under its operation.
Proceeds(s) ==
    \E u \in Task :
        /\ task' = [task EXCEPT ![s] = u]
        /\ u = NoTask \/ (u.pc # "idle" /\ u.op = task[s].op /\ LegalAfter(u.pc, u, s))

\* A handler that goes on with the state u.
LEMMA EditProceeds ==
    ASSUME NEW s \in Sandboxes, NEW u \in Task, task' = [task EXCEPT ![s] = u],
           u.pc # "idle", u.op = task[s].op, LegalAfter(u.pc, u, s)
    PROVE  Proceeds(s)
BY DEF Proceeds

\* What LegalAt reads of a handler's state besides its place.
Alike(u, t) ==
    /\ u.next = t.next /\ u.onError = t.onError /\ u.rec = t.rec /\ u.prior = t.prior
    /\ u.replacing = t.replacing /\ u.seen = t.seen /\ u.made = t.made /\ u.todo = t.todo

\* A handler that moves, and changes nothing that matters for where it may be.
LEMMA AlikeProceeds ==
    ASSUME NEW s \in Sandboxes, NEW u \in Task, task' = [task EXCEPT ![s] = u],
           u.pc # "idle", u.op = task[s].op, Alike(u, task[s]), LegalAfter(u.pc, task[s], s)
    PROVE  Proceeds(s)
<1>1. LegalAfter(u.pc, u, s)
  BY DEF Alike, LegalAfter, LegalAt, ControlOf, DataOf, VolumesOf
<1> QED
  BY <1>1, EditProceeds

\* A handler that only moves.
LEMMA GotoProceeds ==
    ASSUME TaskType, NEW s \in Sandboxes, NEW pc \in Pc, pc # "idle", Goto(s, pc),
           LegalAfter(pc, task[s], s)
    PROVE  Proceeds(s)
<1> DEFINE t == task[s]
           u == [t EXCEPT !.pc = pc]
<1>1. t \in Task
  BY DEF TaskType
<1>2. u \in Task /\ task' = [task EXCEPT ![s] = u]
  BY <1>1, TaskEdits DEF Goto
<1>3. u.pc = pc /\ u.op = t.op /\ Alike(u, t)
  BY <1>1 DEF Task, Alike
<1> QED
  BY <1>2, <1>3, AlikeProceeds

\* A handler that returns.
LEMMA ReleaseProceeds ==
    ASSUME NEW s \in Sandboxes, Release(s)
    PROVE  Proceeds(s)
BY NoTaskType DEF Release, Proceeds

\* Reporting an error is always possible.
LEMMA FailProceeds ==
    ASSUME TaskType, NEW s \in Sandboxes, LegalNow(s), Goto(s, "fail")
    PROVE  Proceeds(s)
<1>1. LegalAfter("fail", task[s], s)
  BY DEF LegalNow, LegalAfter, LegalAt, ControlOf, DataOf, VolumesOf, UpPc, ApplyPc, ReplacePc,
         DestroyPc, GuestPc
<1> QED
  BY <1>1, GotoProceeds DEF Pc

-----------------------------------------------------------------------------
(* Handlers go where they may: the steps they share *)

\* initialize_operation leads to the first step of the operation that was begun.
LEMMA InitializeProceeds ==
    ASSUME TaskType, NEW s \in Sandboxes, LegalNow(s), Initialize(s)
    PROVE  Proceeds(s)
<1> DEFINE t == task[s]
<1>1. t \in Task /\ t.pc = "init" /\ aux' = aux
  BY DEF TaskType, Initialize, At
<1>2. CASE Goto(s, t.next)
  <2>1. t.next \in Pc /\ t.next # "idle" /\ LegalAfter(t.next, t, s)
    BY <1>1 DEF LegalNow, LegalAfter, LegalAt, ControlOf, DataOf, VolumesOf, UpPc, ApplyPc,
                ReplacePc, DestroyPc, GuestPc, Pc
  <2> QED
    BY <1>2, <2>1, GotoProceeds
<1>3. CASE task' = [task EXCEPT ![s].pc = "fail", ![s].fallback = t.rec.actual]
  <2> DEFINE u == [t EXCEPT !.pc = "fail", !.fallback = t.rec.actual]
  <2>1. t.rec.actual \in ActualState
    BY <1>1 DEF LegalNow, LegalAt, DataOf, SandboxRecord
  <2>2. u \in Task /\ u.pc = "fail" /\ u.op = t.op /\ Alike(u, t)
    BY <1>1, <2>1 DEF Task, Pc, Alike
  <2>3. task' = [task EXCEPT ![s] = u]
    BY <1>1, <1>3 DEF TaskType, Task
  <2>4. LegalAfter("fail", t, s)
    BY DEF LegalNow, LegalAfter, LegalAt, ControlOf, DataOf, VolumesOf, UpPc, ApplyPc, ReplacePc,
           DestroyPc, GuestPc
  <2> HIDE DEF u
  <2> QED
    BY <2>2, <2>3, <2>4, AlikeProceeds
<1> QED
  BY <1>2, <1>3 DEF Initialize

\* A refused commit is returned, or undone by the replacement that it concludes.
LEMMA CommitRefusedProceeds ==
    ASSUME TaskType, NEW s \in Sandboxes, LegalNow(s), CommitRefused(s)
    PROVE  Proceeds(s)
<1> DEFINE t == task[s]
           u == [t EXCEPT !.pc = "retain", !.uncommit = TRUE]
<1>1. t \in Task
  BY DEF TaskType
<1>2. CASE t.replacing /\ task' = [task EXCEPT ![s].pc = "retain", ![s].uncommit = TRUE]
  <2>1. u \in Task
    BY <1>1 DEF Task, Pc, Flag
  <2>2. u.pc = "retain" /\ u.op = t.op /\ Alike(u, t)
    BY <1>1 DEF Task, Alike
  <2>3. task' = [task EXCEPT ![s] = u]
    BY <1>1, <1>2 DEF TaskType, Task
  <2>4. LegalAfter("retain", t, s)
    BY <1>2 DEF LegalNow, LegalAfter, LegalAt, ControlOf, DataOf, VolumesOf, UpPc, ApplyPc,
                ReplacePc, DestroyPc, GuestPc
  <2> HIDE DEF u
  <2> QED
    BY <2>1, <2>2, <2>3, <2>4, AlikeProceeds
<1>3. CASE Release(s)
  BY <1>3, ReleaseProceeds
<1> QED
  BY <1>2, <1>3 DEF CommitRefused

\* The row is written and the operation completed, or the commit is refused.
LEMMA CommitProceeds ==
    ASSUME TaskType, NEW s \in Sandboxes, LegalNow(s), Commit(s) \/ CompleteOperation(s)
    PROVE  Proceeds(s)
<1>1. CASE task[s].pc = "commit" /\ Goto(s, "complete")
  <2>1. LegalAfter("complete", task[s], s)
    BY <1>1 DEF LegalNow, LegalAfter, LegalAt, ControlOf, DataOf, VolumesOf, UpPc, ApplyPc,
                ReplacePc, DestroyPc, GuestPc
  <2> QED
    BY <1>1, <2>1, GotoProceeds DEF Pc
<1> QED
  BY <1>1, CommitRefusedProceeds, ReleaseProceeds DEF Commit, CompleteOperation, At

\* runtime.remove() works through its list and leads where its caller said.
LEMMA RemoveProceeds ==
    ASSUME TaskType, NEW s \in Sandboxes, LegalNow(s), Remove(s)
    PROVE  Proceeds(s)
<1> DEFINE t == task[s]
           r == NextToRemove(t.todo)
           u == [t EXCEPT !.todo = @ \ {r}]
<1>1. t \in Task /\ t.pc = "remove"
  BY DEF TaskType, Remove, At
<1>2. CASE Goto(s, t.next)
  <2>1. t.next \in Pc /\ t.next # "idle" /\ LegalAfter(t.next, t, s)
    BY <1>1 DEF LegalNow, LegalAfter, LegalAt, ControlOf, DataOf, VolumesOf, UpPc, ApplyPc,
                ReplacePc, DestroyPc, GuestPc, Pc
  <2> QED
    BY <1>2, <2>1, GotoProceeds
<1>3. CASE task' = [task EXCEPT ![s].todo = @ \ {r}]
  <2> HIDE DEF r
  <2>1. t.todo \ {r} \in Resources
    BY <1>1, TaskFields DEF Resources
  <2>2. u \in Task
    BY <1>1, <2>1, TaskEdits
  <2>3. task' = [task EXCEPT ![s] = u]
    BY <1>1, <1>3 DEF TaskType, Task
  <2>4. /\ u.pc = t.pc /\ u.op = t.op /\ u.todo = t.todo \ {r}
        /\ u.next = t.next /\ u.onError = t.onError /\ u.rec = t.rec /\ u.prior = t.prior
        /\ u.replacing = t.replacing /\ u.seen = t.seen /\ u.made = t.made
    BY <1>1 DEF Task
  <2> HIDE DEF u
  <2>5. LegalAfter(u.pc, u, s)
    BY <1>1, <2>4 DEF LegalNow, LegalAfter, LegalAt, ControlOf, DataOf, VolumesOf, UpPc, ApplyPc,
                      ReplacePc, DestroyPc, GuestPc
  <2> QED
    BY <1>1, <2>2, <2>3, <2>4, <2>5, EditProceeds
<1> QED
  BY <1>2, <1>3, FailProceeds DEF Remove

-----------------------------------------------------------------------------
(* Handlers go where they may: provisioning and health checks *)

\* The steps in the guest follow each other; the last leads to the commit, and
\* an error to the cleanup, the report or the rollback that the caller chose.
LEMMA GuestMoves ==
    ASSUME TaskType, NEW s \in Sandboxes, LegalNow(s), task[s].pc \in GuestPc,
           NEW pc \in GuestPc \cup {task[s].next, task[s].onError}, Goto(s, pc)
    PROVE  Proceeds(s)
<1>1. pc \in Pc /\ pc # "idle" /\ LegalAfter(pc, task[s], s)
  BY DEF LegalNow, LegalAfter, LegalAt, ControlOf, DataOf, VolumesOf, UpPc, ApplyPc,
         ReplacePc, DestroyPc, GuestPc, Pc
<1> QED
  BY <1>1, GotoProceeds

\* A failed setup is reported, or undone by the replacement it is part of.
LEMMA SetupStopProceeds ==
    ASSUME TaskType, NEW s \in Sandboxes, LegalNow(s), SetupStop(s)
    PROVE  Proceeds(s)
<1> DEFINE t == task[s]
           pc == IF t.replacing THEN "rb_list" ELSE "fail"
<1>1. PICK confirmed \in Flag :
         task' = [task EXCEPT ![s].pc = pc, ![s].stopped = confirmed /\ ~t.replacing]
  BY DEF SetupStop, Flag
<1> DEFINE flag == confirmed /\ ~t.replacing
           u == [t EXCEPT !.pc = pc, !.stopped = flag]
<1>2. t \in Task /\ t.pc = "setup_stop"
  BY DEF TaskType, SetupStop, At
<1>3. flag \in Flag
  BY DEF Flag
<1>4. pc \in Pc /\ pc # "idle" /\ LegalAfter(pc, t, s)
  BY <1>2 DEF LegalNow, LegalAfter, LegalAt, ControlOf, DataOf, VolumesOf, UpPc, ApplyPc,
              ReplacePc, DestroyPc, GuestPc, Pc
<1>5. task' = [task EXCEPT ![s].pc = pc, ![s].stopped = flag]
  BY <1>1
<1> HIDE DEF pc, flag
<1>6. task' = [task EXCEPT ![s] = u]
  BY <1>2, <1>5 DEF TaskType, Task
<1>7. u \in Task /\ u.pc = pc /\ u.op = t.op /\ Alike(u, t)
  BY <1>2, <1>3, <1>4 DEF Task, Alike
<1> HIDE DEF u
<1> QED
  BY <1>4, <1>6, <1>7, AlikeProceeds

\* A row stays well formed when its state, image, resolution or layout changes.
LEMMA RowEdits ==
    ASSUME NEW row \in SandboxRecord
    PROVE  /\ row.actual \in ActualState /\ row.desired \in DesiredState
           /\ \A x \in DesiredState : [row EXCEPT !.desired = x] \in SandboxRecord
           /\ \A x \in ActualState : [row EXCEPT !.actual = x] \in SandboxRecord
           /\ \A x \in Images : [row EXCEPT !.image = x] \in SandboxRecord
           /\ \A x \in Fingerprint : [row EXCEPT !.resolved = x] \in SandboxRecord
           /\ [row EXCEPT !.storage = TRUE] \in SandboxRecord
<1> DEFINE B == BOOLEAN
<1>1. SandboxRecord = [root : Roots, desired : DesiredState, actual : ActualState,
                       image : Images, resolved : Fingerprint, storage : B] /\ TRUE \in B
  BY DEF SandboxRecord, Fingerprint
<1> HIDE DEF B
<1> QED
  BY <1>1

\* Handlers that change only the row they will write, or where they are led.
Rewritten(u, t) ==
    /\ u.onError = t.onError /\ u.prior = t.prior /\ u.replacing = t.replacing
    /\ u.seen = t.seen /\ u.made = t.made /\ u.todo = t.todo

\* Provisioning has run to its end, and its fingerprint will be on record.
LEMMA AfterProvisionProceeds ==
    ASSUME TaskType, NEW s \in Sandboxes, LegalNow(s), AfterProvision(s)
    PROVE  Proceeds(s)
<1> DEFINE t == task[s]
           row == [t.rec EXCEPT !.resolved = t.want]
           u == [t EXCEPT !.pc = "before_health", !.rec = row]
<1>1. t \in Task /\ t.pc = "after_provision"
  BY DEF TaskType, AfterProvision, At
<1>2. CASE task' = [task EXCEPT ![s].pc = "before_health", ![s].rec.resolved = t.want]
  <2>1. row \in SandboxRecord /\ row \in Row
    BY <1>1, TaskFields, RowEdits DEF LegalNow, LegalAt, DataOf, Row
  <2>2. task' = [task EXCEPT ![s] = u]
    BY <1>1, <1>2 DEF TaskType, Task
  <2> HIDE DEF row
  <2>3. u \in Task /\ u.pc = "before_health" /\ u.op = t.op /\ u.rec = row /\ u.next = t.next
        /\ Rewritten(u, t)
    BY <1>1, <2>1 DEF Task, Pc, Rewritten
  <2> HIDE DEF u
  <2>4. LegalAfter("before_health", u, s)
    BY <1>1, <2>1, <2>3 DEF LegalNow, LegalAfter, LegalAt, ControlOf, DataOf, VolumesOf, UpPc,
                            ApplyPc, ReplacePc, DestroyPc, GuestPc, Rewritten
  <2> QED
    BY <2>2, <2>3, <2>4, EditProceeds
<1> QED
  BY <1>1, <1>2, GuestMoves DEF AfterProvision, GuestPc

\* Every step in the guest.
LEMMA GuestProceeds ==
    ASSUME TaskType, NEW s \in Sandboxes, LegalNow(s), GuestStep(s)
    PROVE  Proceeds(s)
<1>1. CASE BeforeProvision(s)
  BY <1>1, GuestMoves DEF BeforeProvision, Emit, At, GuestPc
<1>2. CASE Provision(s)
  BY <1>2, GuestMoves DEF Provision, At, GuestPc
<1>3. CASE BeforeHealth(s)
  BY <1>3, GuestMoves DEF BeforeHealth, Emit, At, GuestPc
<1>4. CASE HealthCheck(s)
  BY <1>4, GuestMoves DEF HealthCheck, Emit, At, GuestPc
<1>5. CASE SettleSsh(s)
  BY <1>5, GuestMoves DEF SettleSsh, Note, At, GuestPc
<1> QED
  BY <1>1, <1>2, <1>3, <1>4, <1>5, SetupStopProceeds, AfterProvisionProceeds DEF GuestStep

-----------------------------------------------------------------------------
(* Handlers go where they may: up *)

\* up moves freely among its steps once the volumes are its own or were there.
LEMMA UpMoves ==
    ASSUME TaskType, NEW s \in Sandboxes, LegalNow(s), task[s].pc \in UpPc,
           NEW pc \in UpPc \ {"up_inspect", "create", "make", "evidence"}, Goto(s, pc)
    PROVE  Proceeds(s)
<1>1. pc \in Pc /\ pc # "idle" /\ LegalAfter(pc, task[s], s)
  BY DEF LegalNow, LegalAfter, LegalAt, ControlOf, DataOf, VolumesOf, UpPc, ApplyPc,
         ReplacePc, DestroyPc, GuestPc, Pc
<1> QED
  BY <1>1, GotoProceeds

\* What up would write is a row.
LEMMA UpResultType ==
    ASSUME NEW s \in Sandboxes, LegalNow(s), NEW actual \in ActualState
    PROVE  UpResult(task[s], actual) \in SandboxRecord
<1> DEFINE row == [task[s].rec EXCEPT !.actual = actual]
<1>1. row \in SandboxRecord
  BY RowEdits DEF LegalNow, LegalAt, DataOf
<1>2. [row EXCEPT !.storage = TRUE] \in SandboxRecord
  BY <1>1, RowEdits
<1>3. UpResult(task[s], actual) = [row EXCEPT !.storage = TRUE]
  BY DEF UpResult, LegalNow, LegalAt, DataOf, SandboxRecord
<1> QED
  BY <1>2, <1>3

\* up looks for its container: it creates, starts or reports it.
LEMMA UpInspectProceeds ==
    ASSUME TaskType, RuntimeTypeOK, NEW s \in Sandboxes, LegalNow(s), UpInspect(s)
    PROVE  Proceeds(s)
<1> DEFINE t == task[s]
<1>1. t \in Task /\ t.pc = "up_inspect" /\ aux' = aux
  BY DEF TaskType, UpInspect, At
<1>2. CASE Goto(s, "create")
  <2>1. LegalAfter("create", t, s)
    BY <1>1 DEF LegalNow, LegalAfter, LegalAt, ControlOf, DataOf, VolumesOf, UpPc, ApplyPc,
                ReplacePc, DestroyPc, GuestPc
  <2> QED
    BY <1>2, <2>1, GotoProceeds DEF Pc
<1>3. CASE Mine(s) /\ task' = [task EXCEPT ![s].pc = "commit",
                                           ![s].rec = UpResult(t, box[s].state)]
  <2> DEFINE row == UpResult(t, box[s].state)
             u == [t EXCEPT !.pc = "commit", !.rec = row]
  <2>1. box[s].state \in ActualState
    BY <1>3 DEF RuntimeTypeOK, Mine, Container, ActualState
  <2>2. row \in SandboxRecord /\ row \in Row
    BY <2>1, UpResultType DEF Row
  <2> HIDE DEF row
  <2>3. task' = [task EXCEPT ![s] = u]
    BY <1>1, <1>3 DEF TaskType, Task, row
  <2>4. u \in Task /\ u.pc = "commit" /\ u.op = t.op /\ u.rec = row /\ u.next = t.next
        /\ Rewritten(u, t)
    BY <1>1, <2>2 DEF Task, Pc, Rewritten
  <2> HIDE DEF u
  <2>5. LegalAfter("commit", u, s)
    BY <1>1, <2>2, <2>4 DEF LegalNow, LegalAfter, LegalAt, ControlOf, DataOf, VolumesOf, UpPc,
                            ApplyPc, ReplacePc, DestroyPc, GuestPc, Rewritten
  <2> QED
    BY <2>3, <2>4, <2>5, EditProceeds
<1>4. CASE Mine(s) /\ task' = [task EXCEPT ![s].pc = "up_start", ![s].seen = box[s]]
  <2> DEFINE u == [t EXCEPT !.pc = "up_start", !.seen = box[s]]
  <2>1. box[s] \in Found
    BY DEF RuntimeTypeOK, Found
  <2>2. task' = [task EXCEPT ![s] = u]
    BY <1>1, <1>4 DEF TaskType, Task
  <2>3. /\ u \in Task /\ u.pc = "up_start" /\ u.op = t.op
        /\ u.next = t.next /\ u.onError = t.onError /\ u.rec = t.rec /\ u.prior = t.prior
        /\ u.replacing = t.replacing /\ u.made = t.made /\ u.todo = t.todo
    BY <1>1, <2>1 DEF Task, Pc
  <2> HIDE DEF u
  <2>4. LegalAfter("up_start", u, s)
    BY <1>1, <2>3 DEF LegalNow, LegalAfter, LegalAt, ControlOf, DataOf, VolumesOf, UpPc,
                      ApplyPc, ReplacePc, DestroyPc, GuestPc
  <2> QED
    BY <2>2, <2>3, <2>4, EditProceeds
<1> QED
  BY <1>2, <1>3, <1>4, FailProceeds DEF UpInspect

\* Nothing is in the way: in particular there are no volumes.
LEMMA UpCreateProceeds ==
    ASSUME TaskType, NEW s \in Sandboxes, LegalNow(s), UpCreate(s)
    PROVE  Proceeds(s)
<1>1. CASE task[s].pc = "create" /\ ~CreateRefused(s) /\ Goto(s, "make")
  <2>1. LegalAfter("make", task[s], s)
    BY <1>1 DEF LegalNow, LegalAfter, LegalAt, ControlOf, DataOf, VolumesOf, UpPc, ApplyPc,
                ReplacePc, DestroyPc, GuestPc, CreateRefused
  <2> QED
    BY <1>1, <2>1, GotoProceeds DEF Pc
<1> QED
  BY <1>1, FailProceeds DEF UpCreate, At

\* What a failed create removes is what it has made.
LEMMA AbandonProceeds ==
    ASSUME TaskType, NEW s \in Sandboxes, LegalNow(s), task[s].pc \in {"make", "evidence"},
           NEW made \in Resources, AbandonCreate(s, made)
    PROVE  Proceeds(s)
<1> DEFINE t == task[s]
           pc == IF made = {} THEN "fail" ELSE "remove"
           u == [t EXCEPT !.pc = pc, !.made = made, !.todo = made, !.next = "fail"]
<1>1. t \in Task
  BY DEF TaskType
<1>2. pc \in {"fail", "remove"} /\ pc \in Pc /\ "fail" \in Pc
  BY DEF Pc
<1>3. task' = [task EXCEPT ![s].pc = pc, ![s].made = made, ![s].todo = made, ![s].next = "fail"]
  BY DEF AbandonCreate
<1> HIDE DEF pc
<1>4. task' = [task EXCEPT ![s] = u]
  BY <1>1, <1>3 DEF TaskType, Task
<1>5. u \in Task /\ u.pc = pc /\ u.op = t.op /\ u.made = made /\ u.todo = made /\ u.next = "fail"
      /\ u.onError = t.onError /\ u.rec = t.rec /\ u.prior = t.prior
      /\ u.replacing = t.replacing /\ u.seen = t.seen
  BY <1>1, <1>2 DEF Task
<1> HIDE DEF u
<1>6. LegalAfter(u.pc, u, s)
  BY <1>2, <1>5 DEF LegalNow, LegalAfter, LegalAt, ControlOf, DataOf, VolumesOf, UpPc,
                    ApplyPc, ReplacePc, DestroyPc, GuestPc
<1> QED
  BY <1>2, <1>4, <1>5, <1>6, EditProceeds

\* create() makes one resource after the other and remembers each.
LEMMA UpMakeProceeds ==
    ASSUME TaskType, NEW s \in Sandboxes, LegalNow(s), UpMake(s)
    PROVE  Proceeds(s)
<1> DEFINE t == task[s]
           r == NextToCreate(t.made)
           pc == IF r = "container" THEN "persist" ELSE "make"
           made == t.made \cup {r}
           u == [t EXCEPT !.made = made, !.pc = pc]
<1>1. t \in Task /\ t.pc = "make"
  BY DEF TaskType, UpMake, At
<1>2. r \in Resource
  BY DEF NextToCreate, Resource
<1>3. CASE task' = [task EXCEPT ![s].made = @ \cup {r}, ![s].pc = pc]
  <2>1. pc \in {"persist", "make"}
    OBVIOUS
  <2> HIDE DEF r, pc
  <2>2. made \in Resources
    BY <1>1, <1>2, TaskFields DEF Resources
  <2>3. task' = [task EXCEPT ![s].made = made, ![s].pc = pc]
    BY <1>1, <1>3 DEF TaskType, Task
  <2> HIDE DEF made
  <2>4. task' = [task EXCEPT ![s] = u]
    BY <1>1, <2>3 DEF TaskType, Task
  <2>5. u \in Task /\ u.pc = pc /\ u.op = t.op /\ u.made = made /\ u.todo = t.todo
        /\ u.next = t.next /\ u.onError = t.onError /\ u.rec = t.rec /\ u.prior = t.prior
        /\ u.replacing = t.replacing /\ u.seen = t.seen
    BY <1>1, <2>1, <2>2 DEF Task, Pc
  <2> HIDE DEF u
  <2>6. LegalAfter(u.pc, u, s)
    BY <1>1, <2>1, <2>5 DEF LegalNow, LegalAfter, LegalAt, ControlOf, DataOf, VolumesOf, UpPc,
                            ApplyPc, ReplacePc, DestroyPc, GuestPc
  <2> QED
    BY <2>1, <2>4, <2>5, <2>6, EditProceeds
<1>4. CASE Goto(s, "evidence")
  <2>1. LegalAfter("evidence", t, s)
    BY <1>1 DEF LegalNow, LegalAfter, LegalAt, ControlOf, DataOf, VolumesOf, UpPc, ApplyPc,
                ReplacePc, DestroyPc, GuestPc
  <2> QED
    BY <1>4, <2>1, GotoProceeds DEF Pc
<1>5. CASE AbandonCreate(s, t.made)
  <2>1. t.made \in Resources
    BY <1>1, TaskFields
  <2> QED
    BY <1>1, <1>5, <2>1, AbandonProceeds
<1> QED
  BY <1>3, <1>4, <1>5 DEF UpMake

\* reconcile_created() adds at most the resource that was being made.
LEMMA UpEvidenceProceeds ==
    ASSUME TaskType, RuntimeTypeOK, NEW s \in Sandboxes, LegalNow(s), UpEvidence(s)
    PROVE  Proceeds(s)
<1> DEFINE made == task[s].made
           found == {NextToCreate(made)} \cap OwnedResources(s)
<1>1. task[s] \in Task /\ task[s].pc = "evidence"
  BY DEF TaskType, UpEvidence, At
<1>2. made \in Resources
  BY <1>1, TaskFields
<1>3. NextToCreate(made) \in Resource
  BY DEF NextToCreate, Resource
<1>4. made \cup found \in Resources
  BY <1>2, <1>3 DEF Resources
<1> QED
  BY <1>1, <1>2, <1>4, AbandonProceeds DEF UpEvidence

\* The container is looked at again before it is started.
LEMMA UpStartProceeds ==
    ASSUME TaskType, RuntimeTypeOK, NEW s \in Sandboxes, LegalNow(s), UpStart(s)
    PROVE  Proceeds(s)
<1> DEFINE t == task[s]
           seen == IF t.seen = NoBox THEN NoBox ELSE box[s]
           u == [t EXCEPT !.pc = "up_plan", !.seen = seen]
<1>1. t \in Task /\ t.pc = "up_start"
  BY DEF TaskType, UpStart, At
<1>2. CASE task' = [task EXCEPT ![s].pc = "up_plan",
                                ![s].seen = IF @ = NoBox THEN NoBox ELSE box[s]]
  <2>1. seen \in Found
    BY DEF RuntimeTypeOK, Found
  <2>2. task' = [task EXCEPT ![s].pc = "up_plan", ![s].seen = seen]
    BY <1>1, <1>2 DEF TaskType, Task
  <2> HIDE DEF seen
  <2>3. task' = [task EXCEPT ![s] = u]
    BY <1>1, <2>2 DEF TaskType, Task
  <2>4. /\ u \in Task /\ u.pc = "up_plan" /\ u.op = t.op
        /\ u.next = t.next /\ u.onError = t.onError /\ u.rec = t.rec /\ u.prior = t.prior
        /\ u.replacing = t.replacing /\ u.made = t.made /\ u.todo = t.todo
    BY <1>1, <2>1 DEF Task, Pc
  <2> HIDE DEF u
  <2>5. LegalAfter("up_plan", u, s)
    BY <1>1, <2>4 DEF LegalNow, LegalAfter, LegalAt, ControlOf, DataOf, VolumesOf, UpPc,
                      ApplyPc, ReplacePc, DestroyPc, GuestPc
  <2> QED
    BY <2>3, <2>4, <2>5, EditProceeds
<1> QED
  BY <1>1, <1>2, UpMoves DEF UpStart, UpPc

\* up goes on in the guest, its row prepared, and will commit it.
LEMMA UpPlanProceeds ==
    ASSUME TaskType, NEW s \in Sandboxes, LegalNow(s), UpPlan(s)
    PROVE  Proceeds(s)
<1> DEFINE t == task[s]
           row == UpResult(t, "Running")
           ready == [t EXCEPT !.rec = row, !.next = "commit"]
<1>1. t \in Task /\ t.pc = "up_plan"
  BY DEF TaskType, UpPlan, At
<1>2. ASSUME NEW pc \in {"before_health", "before_provision"},
             task' = [task EXCEPT ![s] = [ready EXCEPT !.pc = pc]]
      PROVE  Proceeds(s)
  <2> DEFINE u == [ready EXCEPT !.pc = pc]
  <2>1. row \in SandboxRecord /\ row \in Row
    BY UpResultType DEF Row, ActualState
  <2> HIDE DEF row
  <2>2. ready \in Task
    BY <1>1, <2>1 DEF Task, Pc
  <2>3. u \in Task
    BY <2>2, TaskEdits DEF Pc
  <2>4. u.pc = pc /\ u.op = t.op /\ u.rec = row /\ u.next = "commit" /\ Rewritten(u, t)
    BY <1>1 DEF Task, Rewritten
  <2>5. task' = [task EXCEPT ![s] = u]
    BY <1>2
  <2> HIDE DEF u
  <2>6. LegalAfter(u.pc, u, s)
    BY <1>1, <1>2, <2>1, <2>4 DEF LegalNow, LegalAfter, LegalAt, ControlOf, DataOf, VolumesOf,
                  UpPc, ApplyPc, ReplacePc, DestroyPc, GuestPc, Rewritten
  <2> QED
    BY <2>3, <2>4, <2>5, <2>6, EditProceeds
<1>3. CASE Goto(s, "cleanup")
  BY <1>1, <1>3, UpMoves DEF UpPc
<1> QED
  BY <1>2, <1>3 DEF UpPlan

\* The list of a cleanup: removing leads on to caller's choice of next step.
LEMMA ListProceeds ==
    ASSUME TaskType, NEW s \in Sandboxes, LegalNow(s),
           NEW next \in {"fail", "d_verify"}, NEW todo \in Resources,
           task' = [task EXCEPT ![s].pc = "remove", ![s].todo = todo, ![s].next = next],
           \/ task[s].pc = "cleanup" /\ next = "fail" /\ todo = task[s].made
           \/ task[s].pc = "d_list" /\ next = "d_verify"
    PROVE  Proceeds(s)
<1> DEFINE t == task[s]
           u == [t EXCEPT !.pc = "remove", !.todo = todo, !.next = next]
<1>1. t \in Task
  BY DEF TaskType
<1>2. task' = [task EXCEPT ![s] = u]
  BY <1>1 DEF TaskType, Task
<1>3. "remove" \in Pc /\ next \in Pc
  BY DEF Pc
<1>4. u \in Task /\ u.pc = "remove" /\ u.op = t.op /\ u.made = t.made /\ u.todo = todo
      /\ u.next = next /\ u.onError = t.onError /\ u.rec = t.rec /\ u.prior = t.prior
      /\ u.replacing = t.replacing /\ u.seen = t.seen
  BY <1>1, <1>3 DEF Task
<1> HIDE DEF u
<1>5. LegalAfter("remove", u, s)
  BY <1>4 DEF LegalNow, LegalAfter, LegalAt, ControlOf, DataOf, VolumesOf, UpPc,
              ApplyPc, ReplacePc, DestroyPc, GuestPc
<1> QED
  BY <1>2, <1>4, <1>5, EditProceeds

\* Every step of up.
LEMMA UpProceeds ==
    ASSUME TaskType, RuntimeTypeOK, NEW s \in Sandboxes, LegalNow(s), UpStep(s)
    PROVE  Proceeds(s)
<1>1. CASE UpPersist(s)
  BY <1>1, UpMoves DEF UpPersist, At, UpPc
<1>2. CASE UpCreated(s)
  BY <1>2, UpMoves, FailProceeds DEF UpCreated, Note, At, UpPc
<1>3. CASE UpCleanup(s)
  <2>1. CASE task' = [task EXCEPT ![s].pc = "remove", ![s].todo = task[s].made,
                                  ![s].next = "fail"]
    <3>1. task[s].made \in Resources /\ task[s].pc = "cleanup"
      BY <1>3, TaskFields DEF UpCleanup, At, TaskType
    <3> QED
      BY <2>1, <3>1, ListProceeds
  <2> QED
    BY <1>3, <2>1, FailProceeds DEF UpCleanup
<1> QED
  BY <1>1, <1>2, <1>3, UpInspectProceeds, UpCreateProceeds, UpMakeProceeds, UpEvidenceProceeds,
     UpStartProceeds, UpPlanProceeds DEF UpStep

-----------------------------------------------------------------------------
(* Handlers go where they may: start, stop and destroy *)

\* The row that a start, a stop or a destroy will write has the new state.
LEMMA SettleProceeds ==
    ASSUME TaskType, NEW s \in Sandboxes, LegalNow(s), NEW actual \in ActualState,
           task' = [task EXCEPT ![s].pc = "complete", ![s].rec.actual = actual],
           \/ task[s].pc \in {"set_inspect", "set_move"}
           \/ task[s].pc = "d_verify" /\ OwnedResources(s)' = {}
    PROVE  Proceeds(s)
<1> DEFINE t == task[s]
           row == [t.rec EXCEPT !.actual = actual]
           u == [t EXCEPT !.pc = "complete", !.rec = row]
<1>1. t \in Task
  BY DEF TaskType
<1>2. row \in SandboxRecord /\ row \in Row /\ "complete" \in Pc
  BY RowEdits DEF LegalNow, LegalAt, DataOf, Row, Pc
<1>3. task' = [task EXCEPT ![s] = u]
  BY <1>1 DEF TaskType, Task
<1> HIDE DEF row
<1>4. u \in Task /\ u.pc = "complete" /\ u.op = t.op /\ u.rec = row /\ u.next = t.next
      /\ Rewritten(u, t)
  BY <1>1, <1>2 DEF Task, Rewritten
<1> HIDE DEF u
<1>5. LegalAfter("complete", u, s)
  BY <1>2, <1>4 DEF LegalNow, LegalAfter, LegalAt, ControlOf, DataOf, VolumesOf, UpPc,
                    ApplyPc, ReplacePc, DestroyPc, GuestPc, Rewritten
<1> QED
  BY <1>3, <1>4, <1>5, EditProceeds

\* start and stop inspect, act and record what they asked for.
LEMMA SetProceeds ==
    ASSUME TaskType, NEW s \in Sandboxes, LegalNow(s), SetInspect(s) \/ SetMove(s)
    PROVE  Proceeds(s)
<1>1. task[s].pc \in {"set_inspect", "set_move"}
  BY DEF SetInspect, SetMove, At
<1>2. Target(s) \in ActualState
  BY RowEdits DEF Target, LegalNow, LegalAt, DataOf, DesiredState, ActualState
<1>3. CASE SetDone(s)
  BY <1>1, <1>2, <1>3, SettleProceeds DEF SetDone
<1>4. CASE Goto(s, "set_move")
  <2>1. LegalAfter("set_move", task[s], s)
    BY <1>1 DEF LegalNow, LegalAfter, LegalAt, ControlOf, DataOf, VolumesOf, UpPc, ApplyPc,
                ReplacePc, DestroyPc, GuestPc
  <2> QED
    BY <1>4, <2>1, GotoProceeds DEF Pc
<1> QED
  BY <1>3, <1>4, FailProceeds DEF SetInspect, SetMove

\* destroy moves freely among its steps.
LEMMA DestroyMoves ==
    ASSUME TaskType, NEW s \in Sandboxes, LegalNow(s), task[s].pc \in DestroyPc,
           NEW pc \in DestroyPc, Goto(s, pc)
    PROVE  Proceeds(s)
<1>1. pc \in Pc /\ pc # "idle" /\ LegalAfter(pc, task[s], s)
  BY DEF LegalNow, LegalAfter, LegalAt, ControlOf, DataOf, VolumesOf, UpPc, ApplyPc,
         ReplacePc, DestroyPc, GuestPc, Pc
<1> QED
  BY <1>1, GotoProceeds

\* destroy removes what carries the labels and completes when nothing is left.
LEMMA DestroyProceeds ==
    ASSUME TaskType, RuntimeTypeOK, NEW s \in Sandboxes, LegalNow(s),
           DestroyInspect(s) \/ DestroyStop(s) \/ DestroyList(s) \/ DestroyVerify(s)
    PROVE  Proceeds(s)
<1>1. CASE DestroyInspect(s)
  BY <1>1, DestroyMoves, FailProceeds DEF DestroyInspect, At, DestroyPc
<1>2. CASE DestroyStop(s)
  BY <1>2, DestroyMoves, FailProceeds DEF DestroyStop, At, DestroyPc
<1>3. CASE DestroyList(s)
  <2>1. OwnedResources(s) \in Resources
    BY DEF RuntimeTypeOK, OwnedResources, Resources, Resource
  <2>2. CASE task' = [task EXCEPT ![s].pc = "remove", ![s].next = "d_verify",
                                  ![s].todo = OwnedResources(s)]
    <3>1. task' = [task EXCEPT ![s].pc = "remove", ![s].todo = OwnedResources(s),
                               ![s].next = "d_verify"]
      BY <2>2 DEF TaskType, Task
    <3> QED
      BY <1>3, <2>1, <3>1, ListProceeds DEF DestroyList, At
  <2> QED
    BY <1>3, <2>2, FailProceeds DEF DestroyList
<1>4. CASE DestroyVerify(s)
  <2>1. CASE /\ OwnedResources(s) = {}
             /\ task' = [task EXCEPT ![s].pc = "complete", ![s].rec.actual = "Absent"]
    <3>1. OwnedResources(s)' = {} /\ task[s].pc = "d_verify"
      BY <1>4, <2>1 DEF DestroyVerify, OwnedResources, At
    <3> QED
      BY <2>1, <3>1, SettleProceeds DEF ActualState
  <2> QED
    BY <1>4, <2>1, FailProceeds DEF DestroyVerify
<1> QED
  BY <1>1, <1>2, <1>3, <1>4

-----------------------------------------------------------------------------
(* Handlers go where they may: apply, image replacement and its rollback *)

\* apply moves freely among its steps before it touches the container.
LEMMA ApplyMoves ==
    ASSUME TaskType, NEW s \in Sandboxes, LegalNow(s), task[s].pc \in ApplyPc,
           NEW pc \in ApplyPc, Goto(s, pc)
    PROVE  Proceeds(s)
<1>1. pc \in Pc /\ pc # "idle" /\ LegalAfter(pc, task[s], s)
  BY DEF LegalNow, LegalAfter, LegalAt, ControlOf, DataOf, VolumesOf, UpPc, ApplyPc,
         ReplacePc, DestroyPc, GuestPc, Pc
<1> QED
  BY <1>1, GotoProceeds

\* apply keeps the container that it inspected.
LEMMA ApplyInspectProceeds ==
    ASSUME TaskType, RuntimeTypeOK, NEW s \in Sandboxes, LegalNow(s), ApplyInspect(s)
    PROVE  Proceeds(s)
<1> DEFINE t == task[s]
<1>1. t \in Task /\ t.pc = "ap_inspect"
  BY DEF TaskType, ApplyInspect, At
<1>2. ASSUME Mine(s), NEW pc \in ApplyPc, task' = [task EXCEPT ![s].pc = pc, ![s].seen = box[s]]
      PROVE  Proceeds(s)
  <2> DEFINE u == [t EXCEPT !.pc = pc, !.seen = box[s]]
  <2>1. box[s] \in Found /\ box[s] \in Container /\ pc \in Pc /\ pc # "idle"
    BY <1>2 DEF RuntimeTypeOK, Found, Mine, ApplyPc, Pc
  <2>2. task' = [task EXCEPT ![s] = u]
    BY <1>1, <1>2 DEF TaskType, Task
  <2>3. /\ u \in Task /\ u.pc = pc /\ u.op = t.op /\ u.seen = box[s]
        /\ u.next = t.next /\ u.onError = t.onError /\ u.rec = t.rec /\ u.prior = t.prior
        /\ u.replacing = t.replacing /\ u.made = t.made /\ u.todo = t.todo
    BY <1>1, <2>1 DEF Task
  <2> HIDE DEF u
  <2>4. LegalAfter(u.pc, u, s)
    BY <1>1, <1>2, <2>1, <2>3 DEF LegalNow, LegalAfter, LegalAt, ControlOf, DataOf, VolumesOf,
                  UpPc, ApplyPc, ReplacePc, DestroyPc, GuestPc
  <2> QED
    BY <2>1, <2>2, <2>3, <2>4, EditProceeds
<1>3. CASE Goto(s, "fail")
  BY <1>3, FailProceeds
<1>4. CASE Mine(s) /\ \E pc \in ApplyPc : task' = [task EXCEPT ![s].pc = pc, ![s].seen = box[s]]
  BY <1>2, <1>4
<1> QED
  BY <1>3, <1>4 DEF ApplyInspect, ApplyPc

\* apply goes on in the guest, or only settles SSH.
LEMMA ApplyPlanProceeds ==
    ASSUME TaskType, NEW s \in Sandboxes, LegalNow(s), ApplyPlan(s)
    PROVE  Proceeds(s)
<1> DEFINE t == task[s]
           pc == IF t.prior.resolved = t.want THEN "ssh" ELSE "before_provision"
           next == IF t.prior.resolved = t.want THEN "complete" ELSE "commit"
           row == [t.rec EXCEPT !.actual = "Running"]
           u == [t EXCEPT !.pc = pc, !.next = next, !.rec = row]
<1>1. t \in Task /\ t.pc = "ap_plan"
  BY DEF TaskType, ApplyPlan, At
<1>2. /\ pc \in {"ssh", "before_provision"} /\ next \in {"complete", "commit"}
      /\ pc \in Pc /\ next \in Pc
  BY DEF Pc
<1>3. row \in SandboxRecord /\ row \in Row
  BY RowEdits DEF LegalNow, LegalAt, DataOf, Row, ActualState
<1>4. task' = [task EXCEPT ![s].pc = pc, ![s].next = next, ![s].rec.actual = "Running"]
  BY DEF ApplyPlan
<1> HIDE DEF pc, next
<1>5. task' = [task EXCEPT ![s] = u]
  BY <1>1, <1>4 DEF TaskType, Task
<1> HIDE DEF row
<1>6. u \in Task /\ u.pc = pc /\ u.op = t.op /\ u.rec = row /\ u.next = next /\ Rewritten(u, t)
  BY <1>1, <1>2, <1>3 DEF Task, Rewritten
<1> HIDE DEF u
<1>7. LegalAfter(u.pc, u, s)
  BY <1>1, <1>2, <1>3, <1>6 DEF LegalNow, LegalAfter, LegalAt, ControlOf, DataOf, VolumesOf,
                UpPc, ApplyPc, ReplacePc, DestroyPc, GuestPc, Rewritten
<1> QED
  BY <1>2, <1>5, <1>6, <1>7, EditProceeds

\* A replacement moves freely among its steps and those of its rollback.
LEMMA ReplaceMoves ==
    ASSUME TaskType, NEW s \in Sandboxes, LegalNow(s), task[s].pc \in ReplacePc,
           NEW pc \in ReplacePc, Goto(s, pc)
    PROVE  Proceeds(s)
<1>1. pc \in Pc /\ pc # "idle"
  BY DEF ReplacePc, Pc
<1>2. \A x \in {pc, task[s].pc} :
         /\ x \notin UpPc \cup DestroyPc \cup GuestPc
         /\ x \notin {"init", "set_inspect", "set_move", "commit", "remove", "complete"}
         /\ x \notin {"up_inspect", "create", "make", "evidence"}
  BY DEF ReplacePc, UpPc, DestroyPc, GuestPc
<1>3. LegalAfter(pc, task[s], s)
  BY <1>2 DEF LegalNow, LegalAfter, LegalAt, ControlOf, DataOf, VolumesOf
<1> QED
  BY <1>1, <1>3, GotoProceeds

\* The replacement begins: from here on errors lead to the rollback.
LEMMA ReplacePrepareProceeds ==
    ASSUME TaskType, RuntimeTypeOK, NEW s \in Sandboxes, LegalNow(s), ReplacePrepare(s)
    PROVE  Proceeds(s)
<1> DEFINE t == task[s]
           u == [t EXCEPT !.pc = "rp_stop", !.seen = box[s], !.replacing = TRUE,
                          !.onError = "rb_list"]
<1>1. t \in Task /\ t.pc = "rp_prepare"
  BY DEF TaskType, ReplacePrepare, At
<1>2. CASE Mine(s) /\ task' = [task EXCEPT ![s].pc = "rp_stop", ![s].seen = box[s],
                                           ![s].replacing = TRUE, ![s].onError = "rb_list"]
  <2>1. box[s] \in Found /\ box[s] \in Container
    BY <1>2 DEF RuntimeTypeOK, Found, Mine
  <2>2. "rp_stop" \in Pc /\ "rb_list" \in Pc /\ TRUE \in Flag
    BY DEF Pc, Flag
  <2>3. task' = [task EXCEPT ![s] = u]
    BY <1>1, <1>2 DEF TaskType, Task
  <2>4. u \in Task
    BY <1>1, <2>1, <2>2 DEF Task
  <2>5. /\ u.pc = "rp_stop" /\ u.op = t.op /\ u.seen = box[s] /\ u.replacing = TRUE
        /\ u.onError = "rb_list" /\ u.next = t.next /\ u.rec = t.rec /\ u.prior = t.prior
        /\ u.made = t.made /\ u.todo = t.todo
    BY <1>1 DEF Task
  <2> HIDE DEF u
  <2>6. LegalAfter("rp_stop", u, s)
    BY <1>1, <2>1, <2>5 DEF LegalNow, LegalAfter, LegalAt, ControlOf, DataOf, VolumesOf,
                  UpPc, ApplyPc, ReplacePc, DestroyPc, GuestPc
  <2> QED
    BY <2>3, <2>4, <2>5, <2>6, EditProceeds
<1> QED
  BY <1>2, FailProceeds DEF ReplacePrepare, Evidence, Retainable

\* The new container runs: its image will be on record.
LEMMA ReplaceStartProceeds ==
    ASSUME TaskType, approved \in Images, NEW s \in Sandboxes, LegalNow(s), ReplaceStart(s)
    PROVE  Proceeds(s)
<1> DEFINE t == task[s]
           row == [t.rec EXCEPT !.actual = "Running", !.image = approved]
           u == [t EXCEPT !.pc = "before_provision", !.print = None, !.next = "commit",
                          !.rec = row]
<1>1. t \in Task /\ t.pc = "rp_start"
  BY DEF TaskType, ReplaceStart, At
<1>2. CASE task' = [task EXCEPT ![s].pc = "before_provision", ![s].print = None,
                                ![s].next = "commit",
                                ![s].rec = [@ EXCEPT !.actual = "Running", !.image = approved]]
  <2>1. row \in SandboxRecord /\ row \in Row
    BY RowEdits DEF LegalNow, LegalAt, DataOf, Row, ActualState
  <2>2. "before_provision" \in Pc /\ "commit" \in Pc /\ None \in Fingerprint
    BY DEF Pc, Fingerprint
  <2>3. task' = [task EXCEPT ![s] = u]
    BY <1>1, <1>2 DEF TaskType, Task
  <2> HIDE DEF row
  <2>4. u \in Task
    BY <1>1, <2>1, <2>2 DEF Task
  <2>5. u.pc = "before_provision" /\ u.op = t.op /\ u.rec = row /\ u.next = "commit"
        /\ Rewritten(u, t)
    BY <1>1 DEF Task, Rewritten
  <2> HIDE DEF u
  <2>6. LegalAfter("before_provision", u, s)
    BY <1>1, <2>1, <2>5 DEF LegalNow, LegalAfter, LegalAt, ControlOf, DataOf, VolumesOf,
                  UpPc, ApplyPc, ReplacePc, DestroyPc, GuestPc, Rewritten
  <2> QED
    BY <2>3, <2>4, <2>5, <2>6, EditProceeds
<1> QED
  BY <1>1, <1>2, ReplaceMoves DEF ReplaceStart, ReplacePc

\* Every step of apply and of a replacement.
LEMMA ApplyProceeds ==
    ASSUME TaskType, RuntimeTypeOK, approved \in Images, NEW s \in Sandboxes, LegalNow(s),
           ApplyStep(s) \/ ReplaceStep(s)
    PROVE  Proceeds(s)
<1>1. CASE ApplyStop(s)
  BY <1>1, ApplyMoves, FailProceeds DEF ApplyStop, At, ApplyPc
<1>2. CASE ApplyStart(s)
  BY <1>2, ApplyMoves, FailProceeds DEF ApplyStart, At, ApplyPc
<1>3. CASE ReplaceEvidence(s)
  BY <1>3, ApplyMoves, FailProceeds DEF ReplaceEvidence, At, ApplyPc
<1>4. CASE ReplaceStop(s)
  BY <1>4, ReplaceMoves DEF ReplaceStop, At, ReplacePc
<1>5. CASE ReplaceRemove(s)
  BY <1>5, ReplaceMoves DEF ReplaceRemove, At, ReplacePc
<1>6. CASE ReplaceCreate(s)
  BY <1>6, ReplaceMoves DEF ReplaceCreate, At, ReplacePc
<1>7. CASE ReplacePartial(s)
  BY <1>7, ReplaceMoves DEF ReplacePartial, At, ReplacePc
<1> QED
  BY <1>1, <1>2, <1>3, <1>4, <1>5, <1>6, <1>7, ApplyInspectProceeds, ApplyPlanProceeds,
     ReplacePrepareProceeds, ReplaceStartProceeds DEF ApplyStep, ReplaceStep

\* Every step of a rollback.
LEMMA RollbackProceeds ==
    ASSUME TaskType, NEW s \in Sandboxes, LegalNow(s), RollbackStep(s)
    PROVE  Proceeds(s)
<1>1. task[s].pc \in ReplacePc
  BY DEF RollbackStep, RetainResources, RollbackList, RollbackStop, RollbackRemove,
         RollbackCreate, RollbackStart, RestorePriorSsh, RestoreRow, At, ReplacePc
<1>2. \E pc \in ReplacePc \cup {"fail"} : Goto(s, pc)
  BY DEF RollbackStep, RetainResources, RollbackList, RollbackStop, RollbackRemove,
         RollbackCreate, RollbackStart, RestorePriorSsh, RestoreRow, RollbackEnds, ReplacePc
<1> QED
  BY <1>1, <1>2, ReplaceMoves, FailProceeds

-----------------------------------------------------------------------------
(* What a handler does to the runtime *)

\* One command to the runtime, about the handler's own sandbox.
Touches(s) ==
    \/ UNCHANGED runtimeVars
    \/ \E state \in {"Running", "Stopped"} : SetState(s, state)
    \/ \E r \in Resource, image \in Images : CreateResource(s, r, image)
    \/ \E print \in Fingerprint : ProvisionGuest(s, print)
    \/ RemoveResource(s, "container")
    \/ task[s].pc = "remove" /\ \E r \in task[s].todo : RemoveResource(s, r)

\* remove() takes its resources from its list.
LEMMA NextIsListed ==
    ASSUME NEW todo \in Resources, todo # {}
    PROVE  NextToRemove(todo) \in todo
BY DEF Resources, Resource, NextToRemove

\* The steps handlers share.
LEMMA SharedTouches ==
    ASSUME TaskType, NEW s \in Sandboxes,
           \/ Initialize(s) \/ FailOperation(s) \/ Commit(s) \/ CompleteOperation(s) \/ Remove(s)
    PROVE  Touches(s)
<1>1. CASE Remove(s)
  <2>1. task[s].todo \in Resources /\ task[s].pc = "remove"
    BY <1>1, TaskFields DEF TaskType, Remove, At
  <2> DEFINE r == NextToRemove(task[s].todo)
  <2>2. CASE UNCHANGED runtimeVars
    BY <2>2 DEF Touches
  <2>3. CASE task[s].todo # {} /\ RemoveResource(s, r)
    BY <2>1, <2>3, NextIsListed DEF Touches
  <2> QED
    BY <1>1, <2>2, <2>3 DEF Remove, Perhaps
<1> QED
  BY <1>1 DEF Touches, runtimeVars, Initialize, FailOperation, Commit, CompleteOperation

\* Provisioning, health checks, start, stop and destroy.
LEMMA StateTouches ==
    ASSUME TaskType, NEW s \in Sandboxes, LegalNow(s), GuestStep(s) \/ StateStep(s)
    PROVE  Touches(s)
<1>1. CASE GuestStep(s)
  <2>1. task[s].want \in Fingerprint
    BY TaskFields DEF TaskType
  <2> QED
    BY <1>1, <2>1 DEF Touches, runtimeVars, GuestStep, BeforeProvision, Provision, SetupStop,
          AfterProvision, BeforeHealth, HealthCheck, SettleSsh, Perhaps
<1>2. CASE SetMove(s)
  <2>1. Target(s) \in {"Running", "Stopped"}
    BY <1>2 DEF SetMove, At, Target, LegalNow, LegalAt, ControlOf, DataOf
  <2> QED
    BY <1>2, <2>1 DEF Touches, SetMove, Perhaps
<1> QED
  BY <1>1, <1>2 DEF Touches, runtimeVars, StateStep, SetInspect, DestroyInspect, DestroyStop,
        DestroyList, DestroyVerify, Perhaps

\* up.
LEMMA UpTouches ==
    ASSUME TaskType, approved \in Images, NEW s \in Sandboxes, UpStep(s)
    PROVE  Touches(s)
<1>1. NextToCreate(task[s].made) \in Resource
  BY DEF NextToCreate, Resource
<1>2. CASE UpMake(s)
  BY <1>1, <1>2 DEF Touches, UpMake
<1> QED
  BY <1>2 DEF Touches, runtimeVars, UpStep, UpInspect, UpCreate, UpEvidence, UpPersist,
        UpCreated, UpStart, UpPlan, UpCleanup, Perhaps

\* apply and the replacement of a container.
LEMMA ApplyTouches ==
    ASSUME approved \in Images, NEW s \in Sandboxes, ApplyStep(s) \/ ReplaceStep(s)
    PROVE  Touches(s)
<1>1. "container" \in Resource
  BY DEF Resource
<1>2. CASE ApplyStep(s)
  BY <1>2 DEF Touches, runtimeVars, ApplyStep, ApplyInspect, ApplyStop, ApplyStart, ApplyPlan,
        Perhaps
<1> QED
  BY <1>1, <1>2 DEF Touches, runtimeVars, ReplaceStep, ReplaceEvidence, ReplacePrepare,
        ReplaceStop, ReplaceRemove, ReplaceCreate, ReplacePartial, ReplaceStart, Perhaps

\* The rollback of a replacement puts a container of the image it saw back.
LEMMA RollbackTouches ==
    ASSUME NEW s \in Sandboxes, LegalNow(s), RollbackStep(s)
    PROVE  Touches(s)
<1>1. CASE RollbackCreate(s)
  <2>1. task[s].seen.image \in Images /\ "container" \in Resource
    BY <1>1 DEF RollbackCreate, At, LegalNow, LegalAt, DataOf, ReplacePc, Container, Resource
  <2> QED
    BY <1>1, <2>1 DEF Touches, RollbackCreate
<1> QED
  BY <1>1 DEF Touches, runtimeVars, RollbackStep, RetainResources, RollbackList, RollbackStop,
        RollbackRemove, RollbackStart, RestorePriorSsh, RestoreRow, Perhaps

\* Every handler step is at most one command about its own sandbox.
LEMMA HandlerTouches ==
    ASSUME TaskType, approved \in Images, NEW s \in Sandboxes, LegalNow(s), HandlerStep(s)
    PROVE  Touches(s)
BY SharedTouches, StateTouches, UpTouches, ApplyTouches, RollbackTouches DEF HandlerStep

\* A container stays well formed when its state or its provisioning changes.
LEMMA ContainerEdits ==
    ASSUME NEW c \in Container
    PROVE  /\ \A x \in {"Running", "Stopped"} :
                 LET d == [c EXCEPT !.state = x] IN d \in Container /\ d.owned = c.owned
           /\ \A x \in Fingerprint :
                 LET d == [c EXCEPT !.provisioned = x] IN d \in Container /\ d.owned = c.owned
<1> DEFINE B == BOOLEAN
           S == {"Running", "Stopped"}
<1>1. Container = [state : S, image : Images, provisioned : Fingerprint, owned : B]
  BY DEF Container, Fingerprint
<1> HIDE DEF B, S
<1>2. /\ \A x \in S :
            LET d == [c EXCEPT !.state = x] IN d \in Container /\ d.owned = c.owned
      /\ \A x \in Fingerprint :
            LET d == [c EXCEPT !.provisioned = x] IN d \in Container /\ d.owned = c.owned
  BY <1>1
<1> QED
  BY <1>2 DEF S

\* What is created is well formed.
LEMMA NewContainerType ==
    ASSUME NEW image \in Images
    PROVE  NewContainer(image) \in Container
BY DEF NewContainer, Container

\* A command keeps the types, the resources of the other sandboxes, and what
\* others own; only remove() takes a resource other than the container away.
LEMMA TouchesKeep ==
    ASSUME RuntimeTypeOK, NEW s \in Sandboxes, Touches(s)
    PROVE  /\ RuntimeTypeOK'
           /\ \A o \in Sandboxes \ {s} : box'[o] = box[o] /\ aux'[o] = aux[o]
           /\ box[s] # NoBox /\ ~Mine(s) => box'[s] # NoBox /\ ~box'[s].owned
           /\ "volume" \in aux[s] /\ "volume" \notin aux'[s] =>
                 task[s].pc = "remove" /\ "volume" \in task[s].todo
<1>1. CASE UNCHANGED runtimeVars
  BY <1>1 DEF runtimeVars, RuntimeTypeOK, Mine
<1>2. CASE \E state \in {"Running", "Stopped"} : SetState(s, state)
  <2>1. PICK state \in {"Running", "Stopped"} : SetState(s, state)
    BY <1>2
  <2> DEFINE c == [box[s] EXCEPT !.state = state]
  <2>2. box[s] \in Container
    BY <2>1 DEF SetState, RuntimeTypeOK
  <2>3. c \in Container /\ c.owned = box[s].owned
    BY <2>2, ContainerEdits
  <2>4. box' = [box EXCEPT ![s] = c] /\ aux' = aux
    BY <2>1 DEF SetState
  <2> HIDE DEF c
  <2> QED
    BY <2>3, <2>4, NoBoxAssumption DEF RuntimeTypeOK, Mine
<1>3. CASE \E r \in Resource, image \in Images : CreateResource(s, r, image)
  <2>1. PICK r \in Resource, image \in Images : CreateResource(s, r, image)
    BY <1>3
  <2>2. CASE r = "container"
    BY <2>1, <2>2, NewContainerType DEF CreateResource, RuntimeTypeOK, Mine
  <2>3. CASE r # "container"
    BY <2>1, <2>3 DEF CreateResource, RuntimeTypeOK, Mine, Resource
  <2> QED
    BY <2>2, <2>3
<1>4. CASE \E print \in Fingerprint : ProvisionGuest(s, print)
  <2>1. PICK print \in Fingerprint : ProvisionGuest(s, print)
    BY <1>4
  <2> DEFINE c == [box[s] EXCEPT !.provisioned = print]
  <2>2. box[s] \in Container
    BY <2>1 DEF ProvisionGuest, RuntimeTypeOK
  <2>3. c \in Container /\ c.owned = box[s].owned
    BY <2>2, ContainerEdits
  <2>4. box' = [box EXCEPT ![s] = c] /\ aux' = aux
    BY <2>1 DEF ProvisionGuest
  <2> HIDE DEF c
  <2> QED
    BY <2>3, <2>4, NoBoxAssumption DEF RuntimeTypeOK, Mine
<1>5. CASE RemoveResource(s, "container")
  BY <1>5 DEF RemoveResource, OwnedResources, RuntimeTypeOK, Mine
<1>6. CASE task[s].pc = "remove" /\ \E r \in task[s].todo : RemoveResource(s, r)
  <2>1. PICK r \in task[s].todo : RemoveResource(s, r)
    BY <1>6
  <2>2. CASE r = "container"
    BY <2>1, <2>2 DEF RemoveResource, OwnedResources, RuntimeTypeOK, Mine
  <2>3. CASE r # "container"
    BY <1>6, <2>1, <2>3 DEF RemoveResource, RuntimeTypeOK, Mine
  <2> QED
    BY <2>2, <2>3
<1> QED
  BY <1>1, <1>2, <1>3, <1>4, <1>5, <1>6 DEF Touches

-----------------------------------------------------------------------------
(* What a handler does to the store *)

\* One transaction, about the handler's own row and operation; the handler that
\* ends its operation returns, and completes it only at the end.
Writes(s) ==
    \/ UNCHANGED storeVars
    \/ \E row \in SandboxRecord : PutSandbox(s, row)
    \/ \E phase \in Phase, print \in Fingerprint :
          AppendOperationEvent(task[s].op, phase, print)
    \/ /\ task'[s] = NoTask
       /\ \E actual \in ActualState, status \in OperationStatus :
             /\ FinishOperation(task[s].op, actual, status)
             /\ status = "Completed" => task[s].pc = "complete"

\* What has been released is idle.
LEMMA Released ==
    ASSUME TaskType, NEW s \in Sandboxes, Release(s)
    PROVE  task'[s] = NoTask
BY DEF TaskType, Release

\* The state that is reported for a sandbox is one the store knows.
LEMMA ReportWrites ==
    ASSUME NEW s \in Sandboxes, task'[s] = NoTask, NEW actual \in ActualState,
           Report(task[s], actual)
    PROVE  Writes(s)
BY DEF Report, Writes, OperationStatus

\* The steps handlers share.
LEMMA SharedWrites ==
    ASSUME TaskType, RuntimeTypeOK, NEW s \in Sandboxes, LegalNow(s),
           \/ Initialize(s) \/ FailOperation(s) \/ Commit(s) \/ CompleteOperation(s) \/ Remove(s)
    PROVE  Writes(s)
<1>1. task[s] \in Task /\ task[s].rec \in SandboxRecord
  BY DEF TaskType, LegalNow, LegalAt, DataOf
<1>2. CASE FailOperation(s)
  <2>1. task[s].fallback \in ActualState /\ "Stopped" \in ActualState
    BY <1>1, TaskFields DEF ActualState
  <2>2. RuntimeActual(s, task[s].fallback) \in ActualState
    BY <2>1 DEF RuntimeActual, RuntimeTypeOK, Container, ActualState
  <2>3. task'[s] = NoTask
    BY <1>2, Released DEF FailOperation
  <2>4. CASE UNCHANGED storeVars
    BY <2>4 DEF Writes
  <2> QED
    BY <1>2, <2>1, <2>2, <2>3, <2>4, ReportWrites DEF FailOperation
<1>3. CASE Commit(s)
  BY <1>1, <1>3 DEF Commit, CommitRefused, Writes
<1>4. CASE CompleteOperation(s)
  <2>1. task[s].rec.actual \in ActualState /\ "Completed" \in OperationStatus
    BY <1>1, RowEdits DEF OperationStatus
  <2> QED
    BY <1>4, <2>1, Released DEF CompleteOperation, CommitRefused, Writes, At
<1> QED
  BY <1>2, <1>3, <1>4 DEF Initialize, Remove, Writes, storeVars

\* up.
LEMMA UpWrites ==
    ASSUME TaskType, NEW s \in Sandboxes, rows[s] \in SandboxRecord, UpStep(s)
    PROVE  Writes(s)
<1>1. None \in Fingerprint /\ "apply_required" \in Phase
  BY DEF Fingerprint, Phase
<1>2. [rows[s] EXCEPT !.storage = TRUE] \in SandboxRecord
  BY RowEdits
<1>3. CASE UpPersist(s)
  BY <1>2, <1>3 DEF UpPersist, Writes
<1>4. CASE UpInspect(s)
  BY <1>1, <1>4 DEF UpInspect, Writes
<1>5. CASE UpPlan(s)
  BY <1>1, <1>5 DEF UpPlan, Writes
<1> QED
  BY <1>3, <1>4, <1>5 DEF UpStep, UpCreate, UpMake, UpEvidence, UpCreated, UpStart, UpCleanup,
        Writes, storeVars

\* Provisioning and health checks.
LEMMA GuestWrites ==
    ASSUME TaskType, NEW s \in Sandboxes, GuestStep(s)
    PROVE  Writes(s)
<1>1. task[s].print \in Fingerprint /\ None \in Fingerprint
  BY TaskFields DEF TaskType, Fingerprint
<1>2. {"before_provision", "after_provision", "before_health", "after_health"} \subseteq Phase
  BY DEF Phase
<1> QED
  BY <1>1, <1>2 DEF GuestStep, BeforeProvision, Provision, SetupStop, AfterProvision,
        BeforeHealth, HealthCheck, SettleSsh, Emit, Writes, storeVars

\* start, stop, destroy, apply, replacement and rollback.
LEMMA OtherWrites ==
    ASSUME NEW s \in Sandboxes, LegalNow(s),
           StateStep(s) \/ ApplyStep(s) \/ ReplaceStep(s) \/ RollbackStep(s)
    PROVE  Writes(s)
<1>1. CASE RestoreRow(s)
  <2>1. task[s].prior \in SandboxRecord
    BY <1>1 DEF RestoreRow, At, LegalNow, LegalAt, ControlOf, DataOf, ReplacePc
  <2> QED
    BY <1>1, <2>1 DEF RestoreRow, Writes
<1>2. CASE UNCHANGED storeVars
  BY <1>2 DEF Writes
<1>3. CASE StateStep(s)
  BY <1>2, <1>3 DEF StateStep, SetInspect, SetMove, DestroyInspect, DestroyStop, DestroyList,
        DestroyVerify, storeVars
<1>4. CASE ApplyStep(s) \/ ReplaceStep(s)
  BY <1>2, <1>4 DEF ApplyStep, ApplyInspect, ApplyStop, ApplyStart, ApplyPlan, ReplaceStep,
        ReplaceEvidence, ReplacePrepare, ReplaceStop, ReplaceRemove, ReplaceCreate,
        ReplacePartial, ReplaceStart, storeVars
<1>5. CASE RollbackStep(s)
  BY <1>1, <1>2, <1>5 DEF RollbackStep, RetainResources, RollbackList, RollbackStop,
        RollbackRemove, RollbackCreate, RollbackStart, RestorePriorSsh, storeVars
<1> QED
  BY <1>3, <1>4, <1>5

\* Every handler step is at most one transaction about its own sandbox.
LEMMA HandlerWrites ==
    ASSUME TaskType, RuntimeTypeOK, NEW s \in Sandboxes, rows[s] \in SandboxRecord, LegalNow(s),
           HandlerStep(s)
    PROVE  Writes(s)
BY SharedWrites, UpWrites, GuestWrites, OtherWrites DEF HandlerStep

\* Operations are kept but for their log, and only a handler that returns ends
\* its own.
LEMMA WritesKeep ==
    ASSUME StoreTypeOK, NEW s \in Sandboxes, task[s].op \in Operations, Writes(s)
    PROVE  /\ Transaction \/ UNCHANGED storeVars
           /\ Len(ops') = Len(ops)
           /\ \A j \in Operations :
                 /\ ops'[j].sandbox = ops[j].sandbox /\ ops'[j].kind = ops[j].kind
                 /\ ops'[j].status # ops[j].status =>
                       /\ j = task[s].op /\ task'[s] = NoTask
                       /\ ops'[j].status = "Completed" => task[s].pc = "complete"
<1> DEFINE i == task[s].op
<1>1. i \in 1..Len(ops)
  BY DEF Operations
<1>2. CASE UNCHANGED storeVars
  BY <1>2 DEF storeVars
<1>3. CASE \E row \in SandboxRecord : PutSandbox(s, row)
  BY <1>3 DEF PutSandbox, Transaction
<1>4. CASE \E phase \in Phase, print \in Fingerprint : AppendOperationEvent(i, phase, print)
  <2>1. PICK phase \in Phase, print \in Manifests \cup {None} :
               AppendOperationEvent(i, phase, print)
    BY <1>4 DEF Fingerprint
  <2>2. Transaction
    BY <1>1, <2>1 DEF Transaction
  <2> QED
    BY <1>1, <2>1, <2>2, AppendStep DEF Operations
<1>5. CASE /\ task'[s] = NoTask
           /\ \E actual \in ActualState, status \in OperationStatus :
                 /\ FinishOperation(i, actual, status)
                 /\ status = "Completed" => task[s].pc = "complete"
  <2>1. PICK actual \in ActualState, status \in OperationStatus :
               /\ FinishOperation(i, actual, status)
               /\ status = "Completed" => task[s].pc = "complete"
    BY <1>5
  <2>2. Transaction
    BY <1>1, <2>1 DEF Transaction
  <2> QED
    BY <1>1, <1>5, <2>1, <2>2, FinishStep DEF Operations
<1> QED
  BY <1>2, <1>3, <1>4, <1>5 DEF Writes

=============================================================================
