------------------------------ MODULE Recovery -----------------------------
(***************************************************************************)
(* reconcile() and recover_pending() of crates/gascand/src/service.rs, and *)
(* the start of the daemon around them (run_daemon in main.rs): the        *)
(* operations a previous daemon left pending are settled one by one from   *)
(* what the runtime shows and what the log proves, and only then does the  *)
(* daemon serve.  An error that reconcile() returns ends the start.        *)
(***************************************************************************)
EXTENDS Service

VARIABLES
    daemon,      \* "down", "recovering", "serving", "aborted"
    queue,       \* the pending operations recovery still has to look at
    look         \* what recovery saw of the first of them, and its next step

recoveryVars == <<daemon, queue, look>>

NoLook == [step |-> "inspect", actual |-> "Absent", status |-> "Failed"]

-----------------------------------------------------------------------------
(* ordered_hook_evidence() *)

Positions(events, phase) == {k \in 1..Len(events) : events[k].phase = phase}

Least(S) == CHOOSE k \in S : \A j \in S : k <= j

Greatest(S) == CHOOSE k \in S : \A j \in S : j <= k

\* The log shows a health check that came after provisioning and for the same
\* fingerprint; without provisioning in the log, the row must already claim
\* that fingerprint.
HookEvidence(events, row) ==
    LET beforeHealth == Positions(events, "before_health")
        afterHealth == Positions(events, "after_health")
        before == Positions(events, "before_provision")
        after == Positions(events, "after_provision")
        print == events[Greatest(afterHealth)].print IN
    /\ beforeHealth # {} /\ afterHealth # {}
    /\ Least(beforeHealth) < Greatest(afterHealth)
    /\ print # None
    /\ \/ /\ before # {} /\ after # {}
          /\ Least(before) < Least(after) /\ Least(after) < Least(beforeHealth)
          /\ events[Least(after)].print = print
       \/ before = {} /\ after = {} /\ row.resolved = print

\* What recovery takes for a converged operation.
Converged(s, op, actual) ==
    CASE op.kind = "Create" -> actual = "Running" /\ HookEvidence(op.events, rows[s])
      [] op.kind = "Apply" -> /\ actual \in {"Running", "Stopped"}
                              /\ HookEvidence(op.events, rows[s])
      [] op.kind = "Start" -> actual = "Running"
      [] op.kind = "Stop" -> actual = "Stopped"
      [] op.kind = "Destroy" -> actual = "Absent" /\ OwnedResources(s) = {}
      [] OTHER -> TRUE

-----------------------------------------------------------------------------
(* Starting *)

\* Mistake: only interrupted creates are recovered.
PendingCreates == {i \in 1..Len(ops) : ops[i].status = "Pending" /\ ops[i].kind = "Create"}

PendingOperations == {i \in 1..Len(ops) : ops[i].status = "Pending"}

\* A start may bring a binary that approves another image.
StartDaemon ==
    /\ daemon \in {"down", "aborted"}
    /\ daemon' = "recovering" /\ queue' = PendingOperations /\ look' = NoLook
    /\ approved' \in plan.images
    /\ UNCHANGED <<storeVars, runtimeVars, task, faults>>

\* The operations are looked at in the order of their ids.
First == Least(queue)

Looking(step) == daemon = "recovering" /\ queue # {} /\ look.step = step

NextPending == queue' = queue \ {First} /\ look' = NoLook /\ UNCHANGED daemon

\* reconcile() returned an error: run_daemon returns it.
AbortStart ==
    /\ daemon' = "aborted" /\ queue' = {} /\ look' = NoLook

\* Inspect the sandbox of the first pending operation and decide.  A sandbox
\* that cannot be inspected keeps its operation and becomes a finding; one
\* whose container is not ours keeps its recorded state.
RecoverInspect ==
    LET op == ops[First]
        s == op.sandbox
        actual == RuntimeActual(s, "Absent")
        converged == Converged(s, op, actual)
        resolves == /\ converged /\ op.kind \in {"Create", "Apply"}
                    /\ Positions(op.events, "after_provision") # {} IN
    /\ Looking("inspect")
    /\ \/ Fails("inspect") /\ NextPending
       \/ /\ op.kind = "Destroy"
          /\ box[s] = NoBox \/ Mine(s)
          /\ Fails("list") /\ AbortStart
       \/ /\ box[s] # NoBox /\ ~Mine(s) /\ Works
          /\ look' = [step |-> "finish", actual |-> rows[s].actual, status |-> "Failed"]
          /\ UNCHANGED <<daemon, queue>>
       \/ /\ box[s] = NoBox \/ Mine(s)
          /\ Works
          /\ look' = [step |-> IF resolves THEN "resolve" ELSE "finish",
                      actual |-> actual,
                      status |-> IF converged THEN "Completed" ELSE "Failed"]
          /\ UNCHANGED <<daemon, queue>>
    /\ UNCHANGED <<storeVars, runtimeVars, task, approved>>

\* The resolution the log carries becomes the row's.
RecoverResolve ==
    LET op == ops[First]
        print == op.events[Least(Positions(op.events, "after_provision"))].print
        row == [rows[op.sandbox] EXCEPT !.resolved = print, !.actual = look.actual] IN
    /\ Looking("resolve")
    /\ \/ /\ Works /\ PutSandbox(op.sandbox, row)
          /\ look' = [look EXCEPT !.step = "finish"] /\ UNCHANGED <<daemon, queue>>
       \/ /\ \/ Fails("store")
             \/ Works /\ ~PutAccepted(op.sandbox, row)
          /\ AbortStart /\ UNCHANGED storeVars
    /\ UNCHANGED <<runtimeVars, task, approved>>

RecoverFinish ==
    LET i == First IN
    /\ Looking("finish")
    /\ \/ Works /\ FinishOperation(i, look.actual, look.status) /\ NextPending
       \/ /\ \/ Fails("store")
             \/ Works /\ ~FinishAccepted(i, look.actual, look.status)
          /\ AbortStart /\ UNCHANGED storeVars
    /\ UNCHANGED <<runtimeVars, task, approved>>

\* The rest of reconcile() only reports, but it must list the resources.
FinishReconcile ==
    /\ daemon = "recovering" /\ queue = {}
    /\ \/ Works /\ daemon' = "serving"
       \/ Fails("list") /\ daemon' = "aborted"
    /\ UNCHANGED <<queue, look, storeVars, runtimeVars, task, approved>>

RecoveryStep == RecoverInspect \/ RecoverResolve \/ RecoverFinish \/ FinishReconcile

=============================================================================
