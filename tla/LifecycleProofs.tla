-------------------------- MODULE LifecycleProofs --------------------------
(***************************************************************************)
(* The daemon's guarantees, proved for any numbers of sandboxes, images    *)
(* and operations and for every plan of faults, crashes and interference.  *)
(*                                                                         *)
(* Every step keeps the invariant of module HandlerProofs: the steps of    *)
(* handlers, requests, recovery, starts, shutdowns, crashes, reboots and   *)
(* what others do to the containers.  From it follow the types, that       *)
(* handlers hold their operations, what they may change and remove, and    *)
(* that the daemon is a caller of the store, so that the store's own       *)
(* guarantees hold of it.                                                  *)
(***************************************************************************)
EXTENDS HandlerProofs

-----------------------------------------------------------------------------
(* Every step keeps the invariant: handlers *)

\* A handler that takes a step is not idle.
LEMMA HandlerIsBusy ==
    ASSUME NEW s \in Sandboxes, HandlerStep(s)
    PROVE  task[s].pc # "idle"
<1>1. CASE GuestStep(s) \/ UpStep(s)
  BY <1>1 DEF At, GuestStep, BeforeProvision, Provision, SetupStop, AfterProvision, BeforeHealth,
        HealthCheck, SettleSsh, UpStep, UpInspect, UpCreate, UpMake, UpEvidence, UpPersist,
        UpCreated, UpStart, UpPlan, UpCleanup
<1>2. CASE StateStep(s) \/ ApplyStep(s)
  BY <1>2 DEF At, StateStep, SetInspect, SetMove, DestroyInspect, DestroyStop, DestroyList,
        DestroyVerify, ApplyStep, ApplyInspect, ApplyStop, ApplyStart, ApplyPlan
<1>3. CASE ReplaceStep(s) \/ RollbackStep(s)
  BY <1>3 DEF At, ReplaceStep, ReplaceEvidence, ReplacePrepare, ReplaceStop, ReplaceRemove,
        ReplaceCreate, ReplacePartial, ReplaceStart, RollbackStep, RetainResources, RollbackList,
        RollbackStop, RollbackRemove, RollbackCreate, RollbackStart, RestorePriorSsh, RestoreRow
<1> QED
  BY <1>1, <1>2, <1>3 DEF HandlerStep, At, Initialize, FailOperation, Commit, CompleteOperation,
        Remove

\* What a call may do to the count of failures.
Counted == faults' = faults \/ (faults < plan.maxFaults /\ faults' = faults + 1)

\* A handler step counts at most one failure, and the binary stays the same.
LEMMA HandlerCounts ==
    ASSUME NEW s \in Sandboxes, HandlerStep(s)
    PROVE  Counted /\ approved' = approved
<1> USE DEF Works, Fails, Counted
<1>1. CASE GuestStep(s)
  BY <1>1 DEF GuestStep, BeforeProvision, Provision, SetupStop, AfterProvision, BeforeHealth,
        HealthCheck, SettleSsh, Emit, Note
<1>2. CASE UpStep(s)
  BY <1>2 DEF UpStep, UpInspect, UpCreate, UpMake, UpEvidence, UpPersist,
        UpCreated, UpStart, UpPlan, UpCleanup, Note
<1>3. CASE StateStep(s)
  BY <1>3 DEF StateStep, SetInspect, SetMove, DestroyInspect, DestroyStop, DestroyList,
        DestroyVerify
<1>4. CASE ApplyStep(s)
  BY <1>4 DEF ApplyStep, ApplyInspect, ApplyStop, ApplyStart, ApplyPlan
<1>5. CASE ReplaceStep(s)
  BY <1>5 DEF ReplaceStep, ReplaceEvidence, ReplacePrepare, ReplaceStop, ReplaceRemove,
        ReplaceCreate, ReplacePartial, ReplaceStart
<1>6. CASE RollbackStep(s)
  BY <1>6 DEF RollbackStep, RetainResources, RollbackList,
        RollbackStop, RollbackRemove, RollbackCreate, RollbackStart, RestorePriorSsh, RestoreRow
<1> QED
  BY <1>1, <1>2, <1>3, <1>4, <1>5, <1>6 DEF HandlerStep, Initialize, FailOperation, Commit,
        CompleteOperation, Remove

\* The count stays within its bound.
LEMMA CountedType ==
    ASSUME BoundsType, Counted, plan' = plan, approved' \in plan.images, crashes' = crashes,
           hadVolumes' \subseteq Sandboxes
    PROVE  BoundsType'
BY DEF BoundsType, Counted, Plan

\* Every handler stands where it may, wherever it goes.
LEMMA HandlerProceeds ==
    ASSUME TaskType, RuntimeTypeOK, approved \in Images, NEW s \in Sandboxes, LegalNow(s),
           HandlerStep(s)
    PROVE  Proceeds(s)
<1>1. CASE FailOperation(s)
  BY <1>1, ReleaseProceeds DEF FailOperation
<1> QED
  BY <1>1, InitializeProceeds, CommitProceeds, RemoveProceeds, GuestProceeds, UpProceeds,
     SetProceeds, DestroyProceeds, ApplyProceeds, RollbackProceeds DEF HandlerStep, StateStep

\* The invariant gives a handler what it needs for a step.
LEMMA HandlerHas ==
    ASSUME LifecycleInvariant, NEW s \in Sandboxes, task[s].pc # "idle"
    PROVE  /\ TaskType /\ RuntimeTypeOK /\ StoreTypeOK /\ approved \in Images
           /\ rows[s] \in SandboxRecord /\ LegalNow(s)
           /\ task[s].op \in Operations /\ ops[task[s].op].sandbox = s /\ Pending(task[s].op)
<1>1. TaskType /\ RuntimeTypeOK /\ StoreTypeOK /\ OperationsHaveRows /\ Holds(s)
  BY DEF LifecycleInvariant, StoreInvariant
<1>2. approved \in Images
  BY DEF LifecycleInvariant, BoundsType, Plan
<1>3. LegalNow(s) /\ task[s].op \in Operations /\ ops[task[s].op].sandbox = s
      /\ Pending(task[s].op)
  BY <1>1 DEF Holds, LegalNow
<1>4. rows[s] \in SandboxRecord
  BY <1>1, <1>3 DEF OperationsHaveRows, StoreTypeOK, Operations
<1> QED
  BY <1>1, <1>2, <1>3, <1>4

\* What a step of the handler of s does to the rest of the system.
LEMMA HandlerStepFacts ==
    ASSUME LifecycleInvariant, NEW s \in Sandboxes, HandlerStep(s)
    PROVE  /\ task[s].pc # "idle" /\ Proceeds(s) /\ Touches(s) /\ Writes(s)
           /\ Transaction \/ UNCHANGED storeVars
BY HandlerIsBusy, HandlerHas, HandlerProceeds, HandlerTouches, HandlerWrites, WritesKeep

\* A handler is not concerned by what leaves its resources and its operation.
LEMMA HoldsKept ==
    ASSUME NEW o \in Sandboxes, Holds(o), task'[o] = task[o], aux'[o] = aux[o], box'[o] = box[o],
           hadVolumes' = hadVolumes, Len(ops') = Len(ops), Len(ops) \in Nat,
           task[o].pc # "idle" =>
              LET i == task[o].op IN
              /\ ops'[i].kind = ops[i].kind /\ ops'[i].sandbox = ops[i].sandbox
              /\ ops'[i].status = ops[i].status
    PROVE  Holds(o)'
BY DEF Holds, Kind, Operations, Pending, OwnedResources

\* Every handler still holds its operation after a step of one of them.
LEMMA HandlerKeepsHolds ==
    ASSUME LifecycleInvariant, NEW s \in Sandboxes, HandlerStep(s)
    PROVE  TaskType' /\ RuntimeTypeOK' /\ \A o \in Sandboxes : Holds(o)'
<1>1. /\ task[s].pc # "idle" /\ Proceeds(s) /\ Touches(s) /\ Writes(s)
  BY HandlerStepFacts
<1>2. /\ TaskType /\ RuntimeTypeOK /\ StoreTypeOK
      /\ task[s].op \in Operations /\ ops[task[s].op].sandbox = s /\ Pending(task[s].op)
  BY <1>1, HandlerHas
<1>3. /\ RuntimeTypeOK'
      /\ \A o \in Sandboxes \ {s} : box'[o] = box[o] /\ aux'[o] = aux[o]
  BY <1>1, <1>2, TouchesKeep
<1>4. /\ Len(ops') = Len(ops)
      /\ \A j \in Operations :
            /\ ops'[j].sandbox = ops[j].sandbox /\ ops'[j].kind = ops[j].kind
            /\ ops'[j].status # ops[j].status => j = task[s].op /\ task'[s] = NoTask
  BY <1>1, <1>2, WritesKeep
<1>5. PICK u \in Task :
         /\ task' = [task EXCEPT ![s] = u]
         /\ u = NoTask \/ (u.pc # "idle" /\ u.op = task[s].op /\ LegalAfter(u.pc, u, s))
  BY <1>1 DEF Proceeds
<1>6. /\ TaskType' /\ task'[s] = u
      /\ \A o \in Sandboxes \ {s} : task'[o] = task[o]
  BY <1>2, <1>5 DEF TaskType
<1>7. hadVolumes' = hadVolumes
  BY DEF HandlerStep
<1>8. Len(ops) \in Nat
  BY <1>2 DEF StoreTypeOK
<1>9. ASSUME NEW o \in Sandboxes \ {s} PROVE Holds(o)'
  <2>1. Holds(o)
    BY DEF LifecycleInvariant
  <2>2. task[o].pc # "idle" =>
           /\ task[o].op \in Operations /\ task[o].op # task[s].op
    BY <1>2, <2>1 DEF Holds
  <2> QED
    BY <1>3, <1>4, <1>6, <1>7, <1>8, <2>1, <2>2, HoldsKept
<1>10. Holds(s)'
  <2>1. CASE u = NoTask
    BY <1>6, <2>1, SMTT(30) DEF Holds, NoTask
  <2>2. CASE u.pc # "idle" /\ u.op = task[s].op /\ LegalAfter(u.pc, u, s)
    <3>1. task'[s] # NoTask
      BY <1>6, <2>2 DEF NoTask
    <3>2. u.op \in Operations' /\ Pending(u.op)' /\ ops'[u.op].sandbox = s /\ Kind(s)' = Kind(s)
      BY <1>2, <1>4, <1>6, <2>2, <3>1 DEF Operations, Pending, Kind
    <3>3. LegalAt(u.pc, u, Kind(s)', s \in hadVolumes', aux'[s], OwnedResources(s)')
      BY <1>7, <2>2, <3>2 DEF LegalAfter
    <3> QED
      BY <1>6, <3>2, <3>3 DEF Holds
  <2> QED
    BY <1>5, <2>1, <2>2
<1> QED
  BY <1>3, <1>6, <1>9, <1>10

\* A transaction keeps the tables well formed.
LEMMA StoreInvariantKept ==
    ASSUME StoreInvariant, Transaction \/ UNCHANGED storeVars
    PROVE  StoreInvariant'
BY StoreTypeStep, OperationsHaveRowsStep DEF StoreInvariant

\* A step of a handler keeps the invariant.
LEMMA HandlerKeeps ==
    ASSUME LifecycleInvariant, NEW s \in Sandboxes, HandlerStep(s)
    PROVE  LifecycleInvariant'
<1>1. StoreInvariant'
  BY HandlerStepFacts, StoreInvariantKept DEF LifecycleInvariant
<1>2. BoundsType'
  BY HandlerCounts, CountedType DEF LifecycleInvariant, BoundsType, HandlerStep
<1>3. daemon' = "serving" /\ queue' = {} /\ look' = look
  BY DEF HandlerStep, recoveryVars, LifecycleInvariant, Settling
<1>4. Settling'
  BY <1>3 DEF LifecycleInvariant, Settling
<1> QED
  BY <1>1, <1>2, <1>4, HandlerKeepsHolds DEF LifecycleInvariant

-----------------------------------------------------------------------------
(* Every step keeps the invariant: requests *)

\* What a handler must bring to begin_operation to be where it may afterwards.
Ready(s, kind, rec, t) ==
    /\ t \in Task /\ rec \in SandboxRecord /\ kind \in OperationKind
    /\ <<kind, t.next>> \in {<<"Create", "up_inspect">>, <<"Apply", "ap_inspect">>,
                             <<"Start", "set_inspect">>, <<"Stop", "set_inspect">>,
                             <<"Destroy", "d_inspect">>}
    /\ t.made = {} /\ t.replacing = FALSE /\ t.onError # "rb_list"
    /\ kind = "Create" => t.onError = "cleanup"
    /\ kind = "Apply" => t.onError = "fail" /\ rows[s] \in SandboxRecord
    /\ kind \in {"Start", "Stop"} => rec.desired \in {"Running", "Stopped"}

\* A row that is there is well formed.
LEMMA RowType ==
    ASSUME StoreTypeOK, NEW s \in Sandboxes
    PROVE  rows[s] \in Row /\ (rows[s] # NoRow => rows[s] \in SandboxRecord)
BY DEF StoreTypeOK, Row

\* What the handlers bring.
LEMMA UpIsReady ==
    ASSUME StoreTypeOK, approved \in Images, NEW s \in Sandboxes, NEW m \in Manifests,
           BeginUp(s, m)
    PROVE  LET t == [NoTask EXCEPT !.next = "up_inspect", !.want = m, !.print = m,
                                   !.onError = "cleanup"] IN
           Begin(s, "Create", UpRecord(s), t) /\ Ready(s, "Create", UpRecord(s), t)
<1> DEFINE t == [NoTask EXCEPT !.next = "up_inspect", !.want = m, !.print = m,
                               !.onError = "cleanup"]
<1>1. t \in Task /\ t.next = "up_inspect" /\ t.made = {} /\ t.replacing = FALSE
      /\ t.onError = "cleanup"
  BY DEF NoTask, Task, Pc, Fingerprint, Row, Found, Resources, Flag, ActualState
<1>2. CASE rows[s] = NoRow
  <2>1. RootOf[s] \in Roots
    BY ServiceAssumption
  <2> QED
    BY <1>1, <1>2, <2>1 DEF BeginUp, Ready, UpRecord, SandboxRecord, DesiredState, ActualState,
                            OperationKind
<1>3. CASE rows[s] # NoRow
  <2> DEFINE row == [rows[s] EXCEPT !.desired = "Running"]
             actual == IF row.actual = "Absent" THEN "Creating" ELSE row.actual
  <2>1. rows[s] \in SandboxRecord
    BY <1>3, RowType
  <2>2. row \in SandboxRecord
    BY <2>1, RowEdits DEF DesiredState
  <2>3. actual \in ActualState
    BY <2>2, RowEdits DEF ActualState
  <2>4. [row EXCEPT !.actual = actual] \in SandboxRecord
    BY <2>2, <2>3, RowEdits
  <2>5. UpRecord(s) = [row EXCEPT !.actual = actual]
    BY <1>3, <2>1 DEF UpRecord, SandboxRecord
  <2> QED
    BY <1>1, <2>4, <2>5 DEF BeginUp, Ready, OperationKind
<1> QED
  BY <1>2, <1>3

\* apply() begins with the row it has read.
LEMMA ApplyIsReady ==
    ASSUME StoreTypeOK, NEW s \in Sandboxes, NEW m \in Manifests, BeginApply(s, m)
    PROVE  LET t == [NoTask EXCEPT !.next = "ap_inspect", !.want = m, !.print = m,
                                   !.onError = "fail", !.fallback = rows[s].actual] IN
           Begin(s, "Apply", rows[s], t) /\ Ready(s, "Apply", rows[s], t)
<1> DEFINE t == [NoTask EXCEPT !.next = "ap_inspect", !.want = m, !.print = m,
                               !.onError = "fail", !.fallback = rows[s].actual]
<1>1. rows[s] \in SandboxRecord
  BY RowType DEF BeginApply
<1>2. rows[s].actual \in ActualState
  BY <1>1, RowEdits
<1>3. t \in Task /\ t.next = "ap_inspect" /\ t.made = {} /\ t.replacing = FALSE
      /\ t.onError = "fail"
  BY <1>2 DEF NoTask, Task, Pc, Fingerprint, Row, Found, Resources, Flag
<1> QED
  BY <1>1, <1>3 DEF BeginApply, Ready, OperationKind

\* start(), stop() and destroy() change the row they have read.
LEMMA StateIsReady ==
    ASSUME StoreTypeOK, NEW s \in Sandboxes, BeginStart(s) \/ BeginStop(s) \/ BeginDestroy(s)
    PROVE  \E kind \in OperationKind, rec \in SandboxRecord, t \in Task :
              Begin(s, kind, rec, t) /\ Ready(s, kind, rec, t)
<1> DEFINE t(next) == [NoTask EXCEPT !.next = next, !.fallback = rows[s].actual]
<1>1. rows[s] \in SandboxRecord
  BY RowType DEF BeginStart, BeginStop, BeginDestroy
<1>2. rows[s].actual \in ActualState
  BY <1>1, RowEdits
<1>3. \A next \in {"set_inspect", "d_inspect"} :
         /\ t(next) \in Task /\ t(next).next = next /\ t(next).made = {}
         /\ t(next).replacing = FALSE /\ t(next).onError = "idle"
  <2> TAKE next \in {"set_inspect", "d_inspect"}
  <2>1. next \in Pc
    BY DEF Pc
  <2>2. t(next) \in Task
    BY <1>2, <2>1, NoTaskType DEF Task
  <2> QED
    BY <2>2 DEF NoTask
<1>4. \A x \in DesiredState :
         /\ [rows[s] EXCEPT !.desired = x] \in SandboxRecord
         /\ [rows[s] EXCEPT !.desired = x].desired = x
  BY <1>1, RowEdits DEF SandboxRecord
<1>5. CASE BeginStart(s)
  <2> DEFINE rec == [rows[s] EXCEPT !.desired = "Running"]
  <2>1. rec \in SandboxRecord /\ rec.desired = "Running"
    BY <1>4 DEF DesiredState
  <2>2. Begin(s, "Start", rec, t("set_inspect"))
    BY <1>5 DEF BeginStart
  <2> HIDE DEF rec, t
  <2>3. Ready(s, "Start", rec, t("set_inspect"))
    BY <1>3, <2>1 DEF Ready, OperationKind
  <2> QED
    BY <1>3, <2>1, <2>2, <2>3 DEF OperationKind
<1>6. CASE BeginStop(s)
  <2> DEFINE rec == [rows[s] EXCEPT !.desired = "Stopped"]
  <2>1. rec \in SandboxRecord /\ rec.desired = "Stopped"
    BY <1>4 DEF DesiredState
  <2>2. Begin(s, "Stop", rec, t("set_inspect"))
    BY <1>6 DEF BeginStop
  <2> HIDE DEF rec, t
  <2>3. Ready(s, "Stop", rec, t("set_inspect"))
    BY <1>3, <2>1 DEF Ready, OperationKind
  <2> QED
    BY <1>3, <2>1, <2>2, <2>3 DEF OperationKind
<1>7. CASE BeginDestroy(s)
  <2> DEFINE rec == DestroyRecord(s)
             row == [rows[s] EXCEPT !.desired = "Absent"]
             actual == IF row.actual = "Absent" THEN row.actual ELSE "Destroying"
  <2>1. row \in SandboxRecord
    BY <1>4 DEF DesiredState
  <2>2. actual \in ActualState
    BY <2>1, RowEdits DEF ActualState
  <2>3. [row EXCEPT !.actual = actual] \in SandboxRecord
    BY <2>1, <2>2, RowEdits
  <2>4. rec = [row EXCEPT !.actual = actual]
    BY <1>1 DEF DestroyRecord, SandboxRecord
  <2>5. Begin(s, "Destroy", rec, t("d_inspect"))
    BY <1>7 DEF BeginDestroy
  <2> HIDE DEF rec, t, row, actual
  <2>6. Ready(s, "Destroy", rec, t("d_inspect"))
    BY <1>3, <2>3, <2>4 DEF Ready, OperationKind
  <2> QED
    BY <1>3, <2>3, <2>4, <2>5, <2>6 DEF OperationKind
<1> QED
  BY <1>5, <1>6, <1>7

\* A handler that is ready begins a new operation, and the others go on.
LEMMA BeginKeepsHolds ==
    ASSUME LifecycleInvariant, NEW s \in Sandboxes, NEW kind \in OperationKind,
           NEW rec \in SandboxRecord, NEW t \in Task,
           Begin(s, kind, rec, t), Ready(s, kind, rec, t),
           hadVolumes' = IF "volume" \in aux[s] THEN hadVolumes \cup {s} ELSE hadVolumes \ {s}
    PROVE  /\ TaskType' /\ RuntimeTypeOK' /\ Transaction
           /\ \A o \in Sandboxes : Holds(o)'
<1> DEFINE i == Len(ops) + 1
           u == [t EXCEPT !.pc = "init", !.op = i, !.prior = rows[s], !.rec = rec]
<1>1. TaskType /\ RuntimeTypeOK /\ StoreTypeOK
  BY DEF LifecycleInvariant, StoreInvariant
<1>2. /\ BeginOperation(s, rec, kind) /\ task' = [task EXCEPT ![s] = u]
      /\ box' = box /\ aux' = aux
  BY DEF Begin
<1>3. /\ Len(ops') = i /\ Len(ops) \in Nat
      /\ \A j \in 1..Len(ops) : ops'[j] = ops[j]
      /\ ops'[i].sandbox = s /\ ops'[i].kind = kind /\ ops'[i].status = "Pending"
  BY <1>1, <1>2, BeginStep
<1>4. Transaction
  BY <1>2 DEF Transaction
<1>5. rows[s] \in Row /\ rec \in Row /\ "init" \in Pc /\ i \in Nat
  BY <1>1, <1>3, RowType DEF Row, Pc
<1> HIDE DEF i
<1>6. u \in Task
  BY <1>5 DEF Task
<1>7. /\ u.pc = "init" /\ u.op = i /\ u.prior = rows[s] /\ u.rec = rec
      /\ u.next = t.next /\ u.onError = t.onError /\ u.replacing = t.replacing
      /\ u.seen = t.seen /\ u.made = t.made /\ u.todo = t.todo
  BY DEF Task
<1> HIDE DEF u
<1>8. /\ TaskType' /\ task'[s] = u
      /\ \A o \in Sandboxes \ {s} : task'[o] = task[o]
  BY <1>1, <1>2, <1>6 DEF TaskType
<1>9. ASSUME NEW o \in Sandboxes \ {s} PROVE Holds(o)'
  <2>1. Holds(o) /\ task'[o] = task[o] /\ (o \in hadVolumes' <=> o \in hadVolumes)
    BY <1>8 DEF LifecycleInvariant
  <2>2. OwnedResources(o)' = OwnedResources(o)
    BY <1>2 DEF OwnedResources
  <2>3. CASE task[o].pc # "idle"
    <3>1. task[o].op \in 1..Len(ops) /\ Pending(task[o].op) /\ ops[task[o].op].sandbox = o
      BY <2>1, <2>3 DEF Holds, Operations
    <3>2. ops'[task[o].op] = ops[task[o].op] /\ task[o].op \in 1..Len(ops')
      BY <1>3, <3>1 DEF i
    <3> QED
      BY <1>2, <2>1, <2>2, <2>3, <3>1, <3>2 DEF Holds, Kind, Operations, Pending, LegalAt, VolumesOf
  <2> QED
    BY <2>1, <2>3 DEF Holds
<1>10. LegalAt("init", u, kind, s \in hadVolumes', aux'[s], OwnedResources(s)')
  BY <1>2, <1>7 DEF Ready, LegalAt, ControlOf, DataOf, VolumesOf, UpPc, ApplyPc, ReplacePc,
        DestroyPc, GuestPc
<1>11. Holds(s)'
  BY <1>3, <1>7, <1>8, <1>10, SMTT(30) DEF Holds, Kind, Operations, Pending, i
<1>12. RuntimeTypeOK'
  BY <1>1, <1>2 DEF RuntimeTypeOK
<1> QED
  BY <1>4, <1>8, <1>9, <1>11, <1>12

\* Every request that is accepted is one of those.
LEMMA RequestBegins ==
    ASSUME LifecycleInvariant, NEW s \in Sandboxes, Request(s)
    PROVE  \E kind \in OperationKind, rec \in SandboxRecord, t \in Task :
              Begin(s, kind, rec, t) /\ Ready(s, kind, rec, t)
<1>1. StoreTypeOK /\ approved \in Images /\ plan.manifests \subseteq Manifests
  BY DEF LifecycleInvariant, StoreInvariant, BoundsType, Plan
<1>2. CASE \E m \in plan.manifests : BeginUp(s, m)
  BY <1>1, <1>2, UpIsReady DEF Ready
<1>3. CASE \E m \in plan.manifests : BeginApply(s, m)
  BY <1>1, <1>3, ApplyIsReady DEF Ready
<1> QED
  BY <1>1, <1>2, <1>3, StateIsReady DEF Request

\* A request keeps the invariant.
LEMMA RequestKeeps ==
    ASSUME LifecycleInvariant, NEW s \in Sandboxes, Request(s)
    PROVE  LifecycleInvariant' /\ Transaction /\ UNCHANGED runtimeVars
<1>1. PICK kind \in OperationKind, rec \in SandboxRecord, t \in Task :
              Begin(s, kind, rec, t) /\ Ready(s, kind, rec, t)
  BY RequestBegins
<1>2. /\ TaskType' /\ RuntimeTypeOK' /\ Transaction
      /\ \A o \in Sandboxes : Holds(o)'
  BY <1>1, BeginKeepsHolds DEF Request
<1>3. StoreInvariant'
  BY <1>2, StoreInvariantKept DEF LifecycleInvariant
<1>4. BoundsType'
  <2>1. faults' = faults /\ approved' = approved
    BY <1>1 DEF Begin
  <2>2. BoundsType /\ hadVolumes \subseteq Sandboxes
    BY DEF LifecycleInvariant, BoundsType
  <2> QED
    BY <2>1, <2>2, CountedType DEF Request, Counted, BoundsType
<1>5. daemon' = "serving" /\ queue' = {} /\ look' = look
  BY DEF Request, recoveryVars, LifecycleInvariant, Settling
<1>6. Settling'
  BY <1>5 DEF LifecycleInvariant, Settling
<1> QED
  BY <1>1, <1>2, <1>3, <1>4, <1>6 DEF LifecycleInvariant, Begin, runtimeVars

-----------------------------------------------------------------------------
(* Every step keeps the invariant: what others do, and crashes *)

\* What is left of the resources of a sandbox does not grow.
NothingAppears == \A o \in Sandboxes : OwnedResources(o) = {} => OwnedResources(o)' = {}

\* A handler is not concerned by what happens to the containers.
LEMMA HoldsBeside ==
    ASSUME NEW o \in Sandboxes, Holds(o), task' = task, ops' = ops, aux' = aux,
           hadVolumes' = hadVolumes, NothingAppears
    PROVE  Holds(o)'
BY DEF Holds, Kind, Operations, Pending, LegalAt, NothingAppears

\* Recovery is not concerned by it either.
LEMMA SettlingBeside ==
    ASSUME Settling, StoreTypeOK, task' = task, ops' = ops, UNCHANGED recoveryVars,
           NothingAppears, queue # {} => First \in queue
    PROVE  Settling'
<1>1. daemon' = daemon /\ queue' = queue /\ look' = look /\ First' = First
  BY DEF recoveryVars, First
<1>2. queue # {} => ops[First].sandbox \in Sandboxes
  BY OperationType DEF Settling, Operations
<1>3. daemon # "serving" => \A s \in Sandboxes : At(s, "idle")'
  BY DEF Settling, At
<1> QED
  BY <1>1, <1>2, <1>3 DEF Settling, NothingAppears, Operations

\* A non-empty set of ids has a least one.
LEMMA LeastIsIn ==
    ASSUME NEW S, S \subseteq Nat, S # {}
    PROVE  Least(S) \in S
BY LeastExists DEF Least

\* Recovery looks at an operation that is there.
LEMMA FirstIsIn ==
    ASSUME Settling, queue # {}
    PROVE  First \in queue /\ First \in 1..Len(ops)
<1>1. queue \subseteq Nat
  BY DEF Settling, Operations
<1> QED
  BY <1>1, LeastIsIn DEF First, Settling, Operations

\* What others do takes containers away or puts in containers that are not ours.
LEMMA InterferenceKeeps ==
    ASSUME LifecycleInvariant, NEW s \in Sandboxes, Interference(s)
    PROVE  LifecycleInvariant' /\ UNCHANGED storeVars
<1>1. /\ StoreTypeOK /\ RuntimeTypeOK /\ TaskType /\ BoundsType /\ Settling
      /\ \A o \in Sandboxes : Holds(o)
  BY DEF LifecycleInvariant, StoreInvariant
<1>2. /\ rows' = rows /\ ops' = ops /\ aux' = aux /\ task' = task /\ UNCHANGED recoveryVars
      /\ hadVolumes' = hadVolumes /\ approved' = approved /\ plan' = plan /\ crashes' = crashes
  BY DEF Interference, storeVars
<1>3. PICK c \in Container \cup {NoBox} :
         /\ box' = [box EXCEPT ![s] = c]
         /\ c = NoBox \/ ~c.owned \/ Mine(s)
  <2>1. CASE box' = [box EXCEPT ![s] = NoBox]
    BY <2>1
  <2>2. CASE Mine(s) /\ box' = [box EXCEPT ![s].state = "Stopped"]
    <3>1. [box[s] EXCEPT !.state = "Stopped"] \in Container
      BY <1>1, <2>2, ContainerEdits DEF RuntimeTypeOK, Mine
    <3> QED
      BY <2>2, <3>1
  <2>3. CASE \E image \in plan.images :
                box' = [box EXCEPT ![s] = [NewContainer(image) EXCEPT !.owned = FALSE]]
    <3>1. PICK image \in plan.images :
                 box' = [box EXCEPT ![s] = [NewContainer(image) EXCEPT !.owned = FALSE]]
      BY <2>3
    <3>2. image \in Images
      BY <1>1 DEF BoundsType, Plan
    <3> DEFINE c == [NewContainer(image) EXCEPT !.owned = FALSE]
    <3>3. c \in Container /\ ~c.owned
      BY <3>2 DEF NewContainer, Container
    <3> HIDE DEF c
    <3> QED
      BY <3>1, <3>3 DEF c
  <2> QED
    BY <2>1, <2>2, <2>3 DEF Interference
<1>4. RuntimeTypeOK'
  BY <1>1, <1>2, <1>3 DEF RuntimeTypeOK
<1>5. NothingAppears
  BY <1>1, <1>2, <1>3 DEF NothingAppears, OwnedResources, RuntimeTypeOK, Mine
<1>6. \A o \in Sandboxes : Holds(o)'
  BY <1>1, <1>2, <1>5, HoldsBeside
<1>7. Settling'
  BY <1>1, <1>2, <1>5, FirstIsIn, SettlingBeside
<1>8. BoundsType'
  BY <1>1, <1>2, CountedType DEF Interference, Fails, Counted, BoundsType
<1>9. StoreInvariant' /\ TaskType' /\ UNCHANGED storeVars
  BY <1>1, <1>2 DEF LifecycleInvariant, StoreInvariant, StoreTypeOK, OperationsHaveRows, TaskType,
                    storeVars
<1> QED
  BY <1>4, <1>6, <1>7, <1>8, <1>9 DEF LifecycleInvariant

\* When no handler runs there is nothing to hold.
LEMMA IdleHolds ==
    ASSUME NEW s \in Sandboxes, At(s, "idle")'
    PROVE  Holds(s)'
BY DEF At, Holds

\* The daemon or the host dies: what is in the store is what is kept.
LEMMA DeathKeeps ==
    ASSUME LifecycleInvariant, Crash \/ HostReboot
    PROVE  LifecycleInvariant' /\ UNCHANGED storeVars
<1>1. /\ StoreInvariant /\ RuntimeTypeOK /\ TaskType /\ BoundsType
  BY DEF LifecycleInvariant
<1>2. /\ rows' = rows /\ ops' = ops /\ aux' = aux /\ daemon' = "down" /\ queue' = {}
      /\ look' = NoLook /\ task' = [s \in Sandboxes |-> NoTask]
      /\ crashes < plan.maxCrashes /\ crashes' = crashes + 1
      /\ approved' = approved /\ faults' = faults /\ hadVolumes' = hadVolumes /\ plan' = plan
  BY DEF Crash, HostReboot, Dies, storeVars
<1>3. TaskType' /\ \A s \in Sandboxes : At(s, "idle")'
  BY <1>2, NoTaskType DEF TaskType, At, NoTask
<1>4. \A s \in Sandboxes : Holds(s)'
  BY <1>3, IdleHolds
<1>5. RuntimeTypeOK'
  <2>1. CASE Crash
    BY <1>1, <1>2, <2>1 DEF Crash, RuntimeTypeOK
  <2>2. CASE HostReboot
    <3>1. \A s \in Sandboxes :
             box[s] # NoBox => [box[s] EXCEPT !.state = "Stopped"] \in Container
      BY <1>1, ContainerEdits DEF RuntimeTypeOK
    <3> QED
      BY <1>1, <1>2, <2>2, <3>1 DEF HostReboot, RuntimeTypeOK
  <2> QED
    BY <2>1, <2>2
<1>6. BoundsType'
  BY <1>1, <1>2 DEF BoundsType, Plan
<1>7. Settling'
  <2>1. look' \in [step : {"inspect", "resolve", "finish"}, actual : ActualState,
                   status : OperationStatus]
    BY <1>2 DEF NoLook, ActualState, OperationStatus
  <2> QED
    BY <1>2, <1>3, <2>1 DEF Settling
<1>8. StoreInvariant' /\ UNCHANGED storeVars
  BY <1>1, <1>2 DEF StoreInvariant, StoreTypeOK, OperationsHaveRows, storeVars
<1> QED
  BY <1>3, <1>4, <1>5, <1>6, <1>7, <1>8 DEF LifecycleInvariant

\* The daemon goes away in order, or is started and reads what is pending.
LEMMA StartKeeps ==
    ASSUME LifecycleInvariant, Start \/ Shutdown
    PROVE  LifecycleInvariant' /\ UNCHANGED <<storeVars, runtimeVars>>
<1>1. /\ StoreInvariant /\ RuntimeTypeOK /\ TaskType /\ BoundsType /\ Settling
  BY DEF LifecycleInvariant
<1>2. /\ rows' = rows /\ ops' = ops /\ aux' = aux /\ box' = box /\ task' = task
      /\ crashes' = crashes /\ approved' \in plan.images /\ faults' = faults
      /\ hadVolumes' = hadVolumes /\ plan' = plan
  BY <1>1 DEF Start, StartDaemon, Shutdown, storeVars, runtimeVars, serviceVars, BoundsType
<1>3. \A s \in Sandboxes : At(s, "idle")'
  BY <1>1, <1>2 DEF Start, StartDaemon, Shutdown, Settling, At
<1>4. \A s \in Sandboxes : Holds(s)'
  BY <1>3, IdleHolds
<1>5. BoundsType'
  BY <1>1, <1>2, CountedType DEF Counted, BoundsType
<1>6. Settling'
  <2>1. CASE Start
    <3>1. /\ daemon' = "recovering" /\ look' = NoLook /\ queue' = PendingOperations
      BY <2>1 DEF Start, StartDaemon
    <3>2. look' \in [step : {"inspect", "resolve", "finish"}, actual : ActualState,
                     status : OperationStatus] /\ look'.step = "inspect"
      BY <3>1 DEF NoLook, ActualState, OperationStatus
    <3>3. queue' \subseteq Operations'
      BY <1>2, <3>1 DEF PendingOperations, Operations
    <3> QED
      BY <1>3, <3>1, <3>2, <3>3 DEF Settling
  <2>2. CASE Shutdown
    BY <1>1, <1>2, <1>3, <2>2 DEF Shutdown, Settling
  <2> QED
    BY <2>1, <2>2
<1>7. StoreInvariant' /\ RuntimeTypeOK' /\ TaskType' /\ UNCHANGED <<storeVars, runtimeVars>>
  BY <1>1, <1>2 DEF StoreInvariant, StoreTypeOK, OperationsHaveRows, RuntimeTypeOK, TaskType,
                    storeVars, runtimeVars
<1> QED
  BY <1>4, <1>5, <1>6, <1>7 DEF LifecycleInvariant

-----------------------------------------------------------------------------
(* Every step keeps the invariant: recovery *)

Look == [step : {"inspect", "resolve", "finish"}, actual : ActualState, status : OperationStatus]

\* What recovery will record: a destroy is completed when nothing is left, and a
\* resolution is taken from a log that has one.
Justified(op, seen) ==
    /\ seen.status = "Completed" /\ op.kind = "Destroy" => OwnedResources(op.sandbox) = {}
    /\ seen.step = "resolve" => Positions(op.events, "after_provision") # {}

\* Recovery has moved on, given up, or seen the operation that it is at.
Recovered ==
    \/ daemon' \in {"recovering", "aborted"} /\ queue' \subseteq queue /\ look' = NoLook
       /\ (daemon' = "aborted" => queue' = {})
    \/ /\ UNCHANGED <<daemon, queue, ops, runtimeVars>> /\ daemon = "recovering"
       /\ look' \in Look /\ (queue # {} => Justified(ops[First], look'))
    \/ queue = {} /\ UNCHANGED <<queue, look>> /\ daemon' \in {"serving", "aborted"}

\* A step of recovery of that kind, and the rest of the state with it.
LEMMA RecoveredKeeps ==
    ASSUME LifecycleInvariant, daemon = "recovering", Recovered,
           Transaction \/ UNCHANGED storeVars, Len(ops) <= Len(ops'), Len(ops') \in Nat,
           UNCHANGED runtimeVars, task' = task, Counted, approved' = approved,
           UNCHANGED <<crashes, hadVolumes, plan>>
    PROVE  LifecycleInvariant'
<1>1. /\ StoreInvariant /\ RuntimeTypeOK /\ TaskType /\ BoundsType /\ Settling
  BY DEF LifecycleInvariant
<1>2. \A s \in Sandboxes : At(s, "idle")'
  BY <1>1 DEF Settling, At
<1>3. \A s \in Sandboxes : Holds(s)'
  BY <1>2, IdleHolds
<1>4. BoundsType'
  BY <1>1, CountedType DEF BoundsType
<1>5. StoreInvariant' /\ RuntimeTypeOK' /\ TaskType'
  BY <1>1, StoreInvariantKept DEF RuntimeTypeOK, TaskType, runtimeVars
<1>6. NoLook \in Look /\ NoLook.step = "inspect" /\ look \in Look
  BY <1>1 DEF NoLook, Look, ActualState, OperationStatus, Settling
<1>7. queue \subseteq Operations' /\ Len(ops) \in Nat
  BY <1>1 DEF Settling, Operations, StoreInvariant, StoreTypeOK
<1>8. Settling'
  <2>1. CASE daemon' \in {"recovering", "aborted"} /\ queue' \subseteq queue /\ look' = NoLook
             /\ (daemon' = "aborted" => queue' = {})
    BY <1>2, <1>6, <1>7, <2>1 DEF Settling, Look
  <2>2. CASE /\ UNCHANGED <<daemon, queue, ops, runtimeVars>>
             /\ look' \in Look /\ (queue # {} => Justified(ops[First], look'))
    <3>1. First' = First /\ \A o : OwnedResources(o)' = OwnedResources(o)
      BY <2>2 DEF First, OwnedResources, runtimeVars
    <3> QED
      BY <1>2, <1>7, <2>2, <3>1 DEF Settling, Look, Justified
  <2>3. CASE queue = {} /\ UNCHANGED <<queue, look>> /\ daemon' \in {"serving", "aborted"}
    BY <1>2, <1>6, <2>3 DEF Settling, Look
  <2> QED
    BY <2>1, <2>2, <2>3 DEF Recovered
<1> QED
  BY <1>3, <1>4, <1>5, <1>8 DEF LifecycleInvariant

\* recover_pending() inspects a sandbox and decides.
LEMMA InspectRecovers ==
    ASSUME LifecycleInvariant, RecoverInspect
    PROVE  Recovered /\ UNCHANGED storeVars
<1> DEFINE op == ops[First]
           s == op.sandbox
           actual == RuntimeActual(s, "Absent")
           converged == Converged(s, op, actual)
           resolves == /\ converged /\ op.kind \in {"Create", "Apply"}
                       /\ Positions(op.events, "after_provision") # {}
           seen == [step |-> IF resolves THEN "resolve" ELSE "finish", actual |-> actual,
                    status |-> IF converged THEN "Completed" ELSE "Failed"]
           failed == [step |-> "finish", actual |-> rows[s].actual, status |-> "Failed"]
<1>1. daemon = "recovering" /\ queue # {} /\ UNCHANGED <<storeVars, runtimeVars>>
  BY DEF RecoverInspect, Looking
<1>2. /\ StoreTypeOK /\ OperationsHaveRows /\ RuntimeTypeOK /\ Settling
  BY DEF LifecycleInvariant, StoreInvariant
<1>3. First \in 1..Len(ops) /\ s \in Sandboxes
  BY <1>1, <1>2, FirstIsIn, OperationType
<1>4. CASE NextPending
  BY <1>1, <1>4 DEF NextPending, Recovered
<1>5. CASE AbortStart
  BY <1>1, <1>5 DEF AbortStart, Recovered
<1>6. CASE look' = failed /\ UNCHANGED <<daemon, queue>>
  <2>1. rows[s].actual \in ActualState
    BY <1>2, <1>3, RowType, RowEdits DEF OperationsHaveRows
  <2>2. failed \in Look /\ Justified(op, failed)
    BY <2>1 DEF Look, Justified, OperationStatus
  <2> HIDE DEF failed, op
  <2> QED
    BY <1>1, <1>6, <2>2 DEF Recovered, storeVars, op
<1>7. CASE look' = seen /\ UNCHANGED <<daemon, queue>>
  <2>1. actual \in ActualState
    BY <1>2, <1>3 DEF RuntimeActual, RuntimeTypeOK, Container, ActualState
  <2>2. converged /\ op.kind = "Destroy" => OwnedResources(s) = {}
    BY DEF Converged
  <2> HIDE DEF actual, converged
  <2>3. seen \in Look
    BY <2>1 DEF Look, OperationStatus
  <2>4. Justified(op, seen)
    BY <2>2 DEF Justified
  <2> HIDE DEF seen, op
  <2> QED
    BY <1>1, <1>7, <2>3, <2>4 DEF Recovered, storeVars, op
<1> QED
  BY <1>1, <1>4, <1>5, <1>6, <1>7 DEF RecoverInspect

\* The resolution that the log proves goes on record.
LEMMA ResolveRecovers ==
    ASSUME LifecycleInvariant, RecoverResolve
    PROVE  Recovered /\ (Transaction \/ UNCHANGED storeVars) /\ ops' = ops
<1> DEFINE op == ops[First]
           s == op.sandbox
           at == Least(Positions(op.events, "after_provision"))
           print == op.events[at].print
           row == [rows[s] EXCEPT !.resolved = print, !.actual = look.actual]
           seen == [look EXCEPT !.step = "finish"]
<1>1. daemon = "recovering" /\ queue # {} /\ look.step = "resolve" /\ UNCHANGED runtimeVars
  BY DEF RecoverResolve, Looking
<1>2. /\ StoreTypeOK /\ OperationsHaveRows /\ Settling
  BY DEF LifecycleInvariant, StoreInvariant
<1>3. First \in 1..Len(ops) /\ s \in Sandboxes /\ op.events \in Seq(OperationEvent)
  BY <1>1, <1>2, FirstIsIn, OperationType
<1>4. look \in Look /\ Justified(op, look)
  BY <1>1, <1>2 DEF Settling, Look, Justified
<1>5. CASE PutSandbox(s, row) /\ look' = seen /\ UNCHANGED <<daemon, queue>>
  <2>1. Positions(op.events, "after_provision") \subseteq 1..Len(op.events)
    BY DEF Positions
  <2>2. at \in 1..Len(op.events)
    BY <1>1, <1>3, <1>4, <2>1, LeastIsIn DEF Justified
  <2> HIDE DEF at
  <2>3. print \in Fingerprint
    <3>1. op.events[at] \in OperationEvent
      BY <1>3, <2>2
    <3> QED
      BY <3>1 DEF OperationEvent, Fingerprint
  <2> HIDE DEF print
  <2>4. rows[s] \in SandboxRecord
    BY <1>2, <1>3, RowType DEF OperationsHaveRows
  <2>5. [rows[s] EXCEPT !.resolved = print] \in SandboxRecord
    BY <2>3, <2>4, RowEdits
  <2>6. [[rows[s] EXCEPT !.resolved = print] EXCEPT !.actual = look.actual] \in SandboxRecord
    BY <1>4, <2>5, RowEdits DEF Look
  <2>7. row \in SandboxRecord
    BY <2>4, <2>6 DEF SandboxRecord
  <2> HIDE DEF row
  <2>8. Transaction /\ ops' = ops
    BY <1>3, <1>5, <2>7 DEF Transaction, PutSandbox
  <2>9. seen \in Look /\ Justified(op, seen)
    BY <1>4 DEF Look, Justified
  <2> HIDE DEF seen, op
  <2> QED
    BY <1>1, <1>5, <2>8, <2>9 DEF Recovered, op
<1>6. CASE AbortStart /\ UNCHANGED storeVars
  BY <1>1, <1>6 DEF AbortStart, Recovered, storeVars
<1> QED
  BY <1>5, <1>6 DEF RecoverResolve

\* The operation is ended with what recovery has seen.
LEMMA FinishRecovers ==
    ASSUME LifecycleInvariant, RecoverFinish
    PROVE  /\ Recovered /\ Len(ops') = Len(ops)
           /\ \/ UNCHANGED storeVars
              \/ /\ Transaction
                 /\ \A j \in Operations : ops'[j] # ops[j] =>
                       j = First /\ ops'[j].status = look.status
<1>1. daemon = "recovering" /\ queue # {} /\ UNCHANGED runtimeVars
  BY DEF RecoverFinish, Looking
<1>2. StoreTypeOK /\ Settling
  BY DEF LifecycleInvariant, StoreInvariant
<1>3. First \in 1..Len(ops)
  BY <1>1, <1>2, FirstIsIn
<1>4. look.actual \in ActualState /\ look.status \in OperationStatus
  BY <1>2 DEF Settling
<1>5. CASE FinishOperation(First, look.actual, look.status) /\ NextPending
  <2>1. Transaction
    BY <1>3, <1>4, <1>5 DEF Transaction
  <2>2. /\ Len(ops') = Len(ops) /\ ops'[First].status = look.status
        /\ \A j \in 1..Len(ops) : j # First => ops'[j] = ops[j]
    BY <1>2, <1>3, <1>4, <1>5, FinishStep
  <2> QED
    BY <1>1, <1>5, <2>1, <2>2 DEF NextPending, Recovered, Operations
<1>6. CASE AbortStart /\ UNCHANGED storeVars
  BY <1>1, <1>6 DEF AbortStart, Recovered, storeVars
<1> QED
  BY <1>5, <1>6 DEF RecoverFinish

\* A step of recovery keeps the invariant.
LEMMA RecoverKeeps ==
    ASSUME LifecycleInvariant, Recover
    PROVE  LifecycleInvariant' /\ (Transaction \/ UNCHANGED storeVars) /\ UNCHANGED runtimeVars
<1>1. /\ daemon = "recovering" /\ UNCHANGED runtimeVars /\ task' = task /\ approved' = approved
      /\ Counted /\ UNCHANGED <<crashes, hadVolumes, plan>>
  BY DEF Recover, RecoveryStep, RecoverInspect, RecoverResolve, RecoverFinish, FinishReconcile,
         Looking, Works, Fails, Counted
<1>2. Recovered /\ (Transaction \/ UNCHANGED storeVars) /\ Len(ops') = Len(ops)
  <2>1. CASE FinishReconcile
    BY <2>1 DEF FinishReconcile, Recovered, storeVars
  <2>2. CASE RecoverInspect
    BY <2>2, InspectRecovers DEF storeVars
  <2>3. CASE RecoverResolve
    BY <2>3, ResolveRecovers
  <2>4. CASE RecoverFinish
    BY <2>4, FinishRecovers
  <2> QED
    BY <2>1, <2>2, <2>3, <2>4 DEF Recover, RecoveryStep
<1>3. Len(ops) \in Nat
  BY DEF LifecycleInvariant, StoreInvariant, StoreTypeOK
<1> QED
  BY <1>1, <1>2, <1>3, RecoveredKeeps

-----------------------------------------------------------------------------
(* The theorems *)

\* The daemon starts with nothing on record and nothing running.
LEMMA InitialInvariant == Init => LifecycleInvariant
<1> SUFFICES ASSUME Init PROVE LifecycleInvariant
  OBVIOUS
<1>1. StoreInvariant
  BY DEF Init, StoreInit, StoreInvariant, StoreTypeOK, OperationsHaveRows
<1>2. RuntimeTypeOK
  BY DEF Init, RuntimeInit, RuntimeTypeOK
<1>3. TaskType /\ \A s \in Sandboxes : At(s, "idle")
  BY NoTaskType DEF Init, TaskType, At, NoTask
<1>4. BoundsType
  BY ServiceAssumption DEF Init, BoundsType, Plan
<1>5. Settling
  BY <1>3 DEF Init, Settling, NoLook, ActualState, OperationStatus
<1>6. \A s \in Sandboxes : Holds(s)
  BY <1>3 DEF At, Holds
<1> QED
  BY <1>1, <1>2, <1>3, <1>4, <1>5, <1>6 DEF LifecycleInvariant

\* Every step of the daemon keeps the invariant and is a transaction of the
\* store or leaves its tables alone.
LEMMA EveryStep ==
    ASSUME LifecycleInvariant, [Next]_vars
    PROVE  LifecycleInvariant' /\ [Transaction]_storeVars
<1>1. CASE UNCHANGED vars
  <2>1. /\ rows' = rows /\ ops' = ops /\ box' = box /\ aux' = aux /\ task' = task
        /\ approved' = approved /\ faults' = faults /\ daemon' = daemon /\ queue' = queue
        /\ look' = look /\ crashes' = crashes /\ hadVolumes' = hadVolumes /\ plan' = plan
    BY <1>1 DEF vars, serviceVars, recoveryVars
  <2>2. /\ StoreInvariant' /\ RuntimeTypeOK' /\ TaskType' /\ BoundsType'
    BY <2>1 DEF LifecycleInvariant, StoreInvariant, StoreTypeOK, OperationsHaveRows,
                RuntimeTypeOK, TaskType, BoundsType
  <2>3. Settling'
    BY <2>1 DEF LifecycleInvariant, Settling, At, First, Operations, OwnedResources
  <2>4. \A s \in Sandboxes : Holds(s)'
    BY <2>1 DEF LifecycleInvariant, Holds, Kind, Operations, Pending, OwnedResources
  <2> QED
    BY <2>1, <2>2, <2>3, <2>4 DEF LifecycleInvariant, storeVars
<1>2. CASE \E s \in Sandboxes : HandlerStep(s)
  BY <1>2, HandlerKeeps, HandlerStepFacts
<1>3. CASE \E s \in Sandboxes : Request(s)
  BY <1>3, RequestKeeps
<1>4. CASE \E s \in Sandboxes : Interference(s)
  BY <1>4, InterferenceKeeps
<1>5. CASE Recover
  BY <1>5, RecoverKeeps
<1>6. CASE Start \/ Shutdown
  BY <1>6, StartKeeps
<1>7. CASE Crash \/ HostReboot
  BY <1>7, DeathKeeps
<1> QED
  BY <1>1, <1>2, <1>3, <1>4, <1>5, <1>6, <1>7 DEF Next

\* The invariant holds in every state of the daemon.
LEMMA AlwaysInvariant == Spec => []LifecycleInvariant
BY InitialInvariant, EveryStep, PTL DEF Spec

\* The daemon implements the store under an arbitrary caller: whatever its
\* handlers, its recovery, crashes and interference do, every step is one of the
\* four transactions with well-formed arguments, or leaves the tables alone.
THEOREM DaemonIsACaller == Spec => AnyCaller
<1>1. Init => StoreInit
  BY DEF Init
<1>2. LifecycleInvariant /\ [Next]_vars => [Transaction]_storeVars
  BY EveryStep
<1> QED
  BY <1>1, <1>2, AlwaysInvariant, PTL DEF Spec, AnyCaller

\* So the store keeps its promises under the daemon: one pending operation per
\* sandbox, a journal that agrees with the operations and only grows, roots that
\* are unique, and no live sandbox that vanishes from the record.
THEOREM DaemonKeepsStore == Spec => []StoreConsistent /\ JournalAppendOnly /\ LiveNeverVanishes
BY DaemonIsACaller, StoreStaysConsistent, StoreJournalAppendOnly, StoreLiveNeverVanishes, PTL

\* The types of the whole daemon: every record it builds, in handlers and in
\* recovery, is one the store and the runtime accept.
THEOREM DaemonTypeCorrect == Spec => []TypeOK
<1>1. LifecycleInvariant => TypeOK
  BY DEF LifecycleInvariant, StoreInvariant, TaskType, BoundsType, Settling, TypeOK, Plan
<1> QED
  BY <1>1, AlwaysInvariant, PTL

\* A handler holds a pending operation of its own until it returns: no other
\* handler, no error path and no recovery has ended it.
THEOREM OperationsAreHeld == Spec => []HandlersHoldTheirOperation
<1>1. LifecycleInvariant => HandlersHoldTheirOperation
  BY DEF LifecycleInvariant, Holds, HandlersHoldTheirOperation
<1> QED
  BY <1>1, AlwaysInvariant, PTL

\* Containers, volumes and networks change only under a pending operation on
\* their sandbox, unless others change them or the host goes down.
THEOREM EveryMutationIsJournaled == Spec => MutationsAreJournaled
<1> DEFINE Journaled ==
        \/ \E s \in Sandboxes : Interference(s)
        \/ HostReboot
        \/ \A s \in Sandboxes : box'[s] # box[s] \/ aux'[s] # aux[s] => HasPending(s)
<1>1. ASSUME LifecycleInvariant, [Next]_vars PROVE [Journaled]_vars
  <2>1. CASE \E s \in Sandboxes : HandlerStep(s)
    <3>1. PICK s \in Sandboxes : HandlerStep(s)
      BY <2>1
    <3>2. task[s].pc # "idle" /\ Touches(s)
      BY <1>1, <3>1, HandlerStepFacts
    <3>3. /\ RuntimeTypeOK /\ task[s].op \in Operations /\ ops[task[s].op].sandbox = s
          /\ Pending(task[s].op)
      BY <1>1, <3>2, HandlerHas
    <3>4. HasPending(s)
      BY <3>3 DEF HasPending, Operations, Pending
    <3>5. \A o \in Sandboxes \ {s} : box'[o] = box[o] /\ aux'[o] = aux[o]
      BY <3>2, <3>3, TouchesKeep
    <3> QED
      BY <3>4, <3>5
  <2>2. CASE UNCHANGED runtimeVars
    BY <2>2 DEF runtimeVars
  <2>3. CASE Crash
    BY <2>3 DEF Crash, Dies
  <2>4. CASE \E s \in Sandboxes : Request(s)
    BY <1>1, <2>2, <2>4, RequestKeeps
  <2>5. CASE Recover
    BY <1>1, <2>2, <2>5, RecoverKeeps
  <2>6. CASE Start \/ Shutdown
    BY <1>1, <2>2, <2>6, StartKeeps
  <2> QED
    BY <1>1, <2>1, <2>3, <2>4, <2>5, <2>6 DEF Next
<1>2. LifecycleInvariant /\ [Next]_vars => [Journaled]_vars
  BY <1>1
<1> QED
  BY <1>2, AlwaysInvariant, PTL DEF Spec, MutationsAreJournaled

\* A container without the sandbox's labels is never removed or replaced by the
\* daemon, in no handler and on no error path.
THEOREM ForeignContainersAreKept == Spec => ForeignIsKept
<1> DEFINE Kept ==
        \/ \E s \in Sandboxes : Interference(s)
        \/ \A s \in Sandboxes :
              box[s] # NoBox /\ ~Mine(s) => box'[s] # NoBox /\ ~box'[s].owned
<1>1. ASSUME LifecycleInvariant, [Next]_vars PROVE [Kept]_vars
  <2>1. CASE \E s \in Sandboxes : HandlerStep(s)
    <3>1. PICK s \in Sandboxes : HandlerStep(s)
      BY <2>1
    <3>2. RuntimeTypeOK /\ Touches(s)
      BY <1>1, <3>1, HandlerStepFacts DEF LifecycleInvariant
    <3> QED
      BY <3>2, TouchesKeep DEF Mine
  <2>2. CASE UNCHANGED runtimeVars
    BY <2>2 DEF runtimeVars, Mine
  <2>3. CASE Crash
    BY <2>3 DEF Crash, Mine
  <2>4. CASE HostReboot
    <3>1. \A s \in Sandboxes :
             box[s] # NoBox => LET c == [box[s] EXCEPT !.state = "Stopped"] IN
                               c \in Container /\ c.owned = box[s].owned
      BY <1>1, ContainerEdits DEF LifecycleInvariant, RuntimeTypeOK
    <3> QED
      BY <2>4, <3>1, NoBoxAssumption DEF HostReboot, Mine
  <2>5. CASE \E s \in Sandboxes : Request(s)
    BY <1>1, <2>2, <2>5, RequestKeeps
  <2>6. CASE Recover
    BY <1>1, <2>2, <2>6, RecoverKeeps
  <2>7. CASE Start \/ Shutdown
    BY <1>1, <2>2, <2>7, StartKeeps
  <2> QED
    BY <1>1, <2>1, <2>3, <2>4, <2>5, <2>6, <2>7 DEF Next
<1>2. LifecycleInvariant /\ [Next]_vars => [Kept]_vars
  BY <1>1
<1> QED
  BY <1>2, AlwaysInvariant, PTL DEF Spec, ForeignIsKept

\* Volumes go away under destroy, and otherwise only under an up that found none
\* when it began: no cleanup and no rollback takes volumes that hold data.
THEOREM VolumesAreKept == Spec => VolumesSurvive
<1> DEFINE Kept == \A s \in Sandboxes :
        "volume" \in aux[s] /\ "volume" \notin aux'[s] =>
            \/ ops[task[s].op].kind = "Destroy"
            \/ ops[task[s].op].kind = "Create" /\ s \notin hadVolumes
<1>1. ASSUME LifecycleInvariant, [Next]_vars PROVE [Kept]_vars
  <2>1. CASE \E s \in Sandboxes : HandlerStep(s)
    <3>1. PICK s \in Sandboxes : HandlerStep(s)
      BY <2>1
    <3>2. task[s].pc # "idle" /\ Touches(s)
      BY <1>1, <3>1, HandlerStepFacts
    <3>3. RuntimeTypeOK /\ LegalNow(s)
      BY <1>1, <3>2, HandlerHas
    <3>4. \A o \in Sandboxes \ {s} : aux'[o] = aux[o]
      BY <3>2, <3>3, TouchesKeep
    <3>5. ASSUME "volume" \in aux[s], "volume" \notin aux'[s]
          PROVE  Kind(s) = "Destroy" \/ (Kind(s) = "Create" /\ s \notin hadVolumes)
      <4>1. task[s].pc = "remove" /\ "volume" \in task[s].todo
        BY <3>2, <3>3, <3>5, TouchesKeep
      <4> QED
        BY <3>3, <4>1 DEF LegalNow, LegalAt, ControlOf, VolumesOf
    <3> QED
      BY <3>4, <3>5 DEF Kind
  <2>2. CASE aux' = aux
    BY <2>2
  <2>3. CASE \E s \in Sandboxes : Request(s)
    BY <1>1, <2>2, <2>3, RequestKeeps DEF runtimeVars
  <2>4. CASE Recover
    BY <1>1, <2>2, <2>4, RecoverKeeps DEF runtimeVars
  <2>5. CASE Start \/ Shutdown
    BY <1>1, <2>2, <2>5, StartKeeps DEF runtimeVars
  <2>6. CASE Crash \/ HostReboot \/ \E s \in Sandboxes : Interference(s)
    BY <2>2, <2>6 DEF Crash, HostReboot, Dies, Interference
  <2> QED
    BY <1>1, <2>1, <2>3, <2>4, <2>5, <2>6 DEF Next
<1>2. LifecycleInvariant /\ [Next]_vars => [Kept]_vars
  BY <1>1
<1> QED
  BY <1>2, AlwaysInvariant, PTL DEF Spec, VolumesSurvive

\* No handler, no error path and no recovery removes what the daemon must keep.
THEOREM ResourcesStay == Spec => ResourcesAreKept
BY VolumesAreKept, ForeignContainersAreKept DEF ResourcesAreKept

\* A destroy that is recorded as completed has left nothing, also when recovery
\* completes it after a crash.
THEOREM CompletedDestroysAreReal == Spec => DestroyedIsGone
<1> DEFINE Done == \A i \in Operations :
        Ends(i, "Completed") /\ ops[i].kind = "Destroy" => OwnedResources(ops[i].sandbox) = {}
<1>1. ASSUME LifecycleInvariant, [Next]_vars PROVE [Done]_vars
  <2>1. CASE \E s \in Sandboxes : HandlerStep(s)
    <3>1. PICK s \in Sandboxes : HandlerStep(s)
      BY <2>1
    <3>2. task[s].pc # "idle" /\ Writes(s)
      BY <1>1, <3>1, HandlerStepFacts
    <3>3. StoreTypeOK /\ LegalNow(s) /\ task[s].op \in Operations /\ ops[task[s].op].sandbox = s
      BY <1>1, <3>2, HandlerHas
    <3>4. ASSUME NEW i \in Operations, Ends(i, "Completed"), ops[i].kind = "Destroy"
          PROVE  OwnedResources(ops[i].sandbox) = {}
      <4>1. i = task[s].op /\ task[s].pc = "complete"
        BY <3>2, <3>3, <3>4, WritesKeep DEF Ends, Pending
      <4> QED
        BY <3>3, <3>4, <4>1 DEF LegalNow, LegalAt, Kind
    <3> QED
      BY <3>4
  <2>2. CASE Recover
    <3>1. CASE ops' = ops
      BY <3>1 DEF Ends, Pending
    <3>2. CASE RecoverFinish
      <4>1. CASE UNCHANGED storeVars
        BY <4>1 DEF storeVars, Ends, Pending
      <4>2. CASE \A j \in Operations : ops'[j] # ops[j] =>
                    j = First /\ ops'[j].status = look.status
        <5>1. /\ queue # {} /\ look.step # "inspect"
          BY <3>2 DEF RecoverFinish, Looking
        <5>2. look.status = "Completed" /\ ops[First].kind = "Destroy" =>
                 OwnedResources(ops[First].sandbox) = {}
          BY <1>1, <5>1 DEF LifecycleInvariant, Settling
        <5> QED
          BY <4>2, <5>2 DEF Ends, Pending
      <4> QED
        BY <1>1, <3>2, <4>1, <4>2, FinishRecovers
    <3>3. CASE RecoverInspect \/ FinishReconcile
      BY <1>1, <3>1, <3>3, InspectRecovers DEF FinishReconcile, storeVars
    <3>4. CASE RecoverResolve
      BY <1>1, <3>1, <3>4, ResolveRecovers
    <3> QED
      BY <2>2, <3>2, <3>3, <3>4 DEF Recover, RecoveryStep
  <2>3. CASE UNCHANGED storeVars
    BY <2>3 DEF storeVars, Ends, Pending
  <2>4. CASE \E s \in Sandboxes : Request(s)
    <3>1. PICK s \in Sandboxes, kind \in OperationKind, rec \in SandboxRecord :
                 BeginOperation(s, rec, kind)
      BY <1>1, <2>4, RequestBegins DEF Begin
    <3>2. StoreTypeOK
      BY <1>1 DEF LifecycleInvariant, StoreInvariant
    <3>3. \A i \in Operations : ops'[i] = ops[i]
      BY <3>1, <3>2, BeginStep DEF Operations
    <3> QED
      BY <3>3 DEF Ends, Pending
  <2>5. CASE \E s \in Sandboxes : Interference(s)
    BY <1>1, <2>3, <2>5, InterferenceKeeps
  <2>6. CASE Start \/ Shutdown
    BY <1>1, <2>3, <2>6, StartKeeps
  <2>7. CASE Crash \/ HostReboot
    BY <1>1, <2>3, <2>7, DeathKeeps
  <2> QED
    BY <1>1, <2>1, <2>2, <2>4, <2>5, <2>6, <2>7 DEF Next
<1>2. LifecycleInvariant /\ [Next]_vars => [Done]_vars
  BY <1>1
<1> QED
  BY <1>2, AlwaysInvariant, PTL DEF Spec, DestroyedIsGone

=============================================================================
