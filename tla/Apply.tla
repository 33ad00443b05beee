------------------------------- MODULE Apply -------------------------------
(***************************************************************************)
(* apply(): apply_inner, replace_image and rollback_image of               *)
(* crates/gascand/src/service.rs.  A container whose image is not the      *)
(* approved one is replaced: stopped, removed, created again beside its    *)
(* retained volumes and network, provisioned from scratch; every failure   *)
(* on the way, the one of the final commit included, puts a container of   *)
(* the previous image back.  Otherwise the container is (re)started and    *)
(* what changed is provisioned in place.                                   *)
(***************************************************************************)
EXTENDS Up

BeginApply(s, m) ==
    /\ rows[s] # NoRow /\ StorageValid(s)
    /\ Begin(s, "Apply", rows[s],
             [NoTask EXCEPT !.next = "ap_inspect", !.want = m, !.print = m,
                            !.onError = "fail", !.fallback = rows[s].actual])

\* A changed manifest may or may not have changed the setup script.
ApplyInspect(s) ==
    LET t == task[s]
        restart == {"ap_plan"} \cup IF t.prior.resolved = t.want THEN {} ELSE {"ap_stop"} IN
    /\ At(s, "ap_inspect")
    /\ \/ /\ \/ Fails("inspect")
             \/ ~Mine(s) /\ Works
          /\ Goto(s, "fail")
       \/ /\ Mine(s) /\ Works
          /\ \E pc \in IF ChangeRequired(t.prior, box[s].image) THEN {"rp_evidence"}
                      ELSE IF box[s].state = "Running" THEN restart ELSE {"ap_start"} :
                task' = [task EXCEPT ![s].pc = pc, ![s].seen = box[s]]
    /\ UNCHANGED <<storeVars, box, aux, approved>>

ApplyStop(s) ==
    /\ At(s, "ap_stop")
    /\ \/ Works /\ SetState(s, "Stopped") /\ Goto(s, "ap_start")
       \/ /\ \/ Fails("stop") /\ Perhaps(SetState(s, "Stopped"))
             \/ box[s] = NoBox /\ Works /\ UNCHANGED runtimeVars
          /\ Goto(s, "fail")
    /\ UNCHANGED <<storeVars, approved>>

ApplyStart(s) ==
    /\ At(s, "ap_start")
    /\ \/ Works /\ SetState(s, "Running") /\ Goto(s, "ap_plan")
       \/ /\ \/ Fails("start") /\ Perhaps(SetState(s, "Running"))
             \/ box[s] = NoBox /\ Works /\ UNCHANGED runtimeVars
          /\ Goto(s, "fail")
    /\ UNCHANGED <<storeVars, approved>>

\* An unchanged sandbox is only marked running; a changed one is provisioned.
ApplyPlan(s) ==
    LET unchanged == task[s].prior.resolved = task[s].want IN
    /\ At(s, "ap_plan") /\ Works
    /\ task' = [task EXCEPT
          ![s].pc = IF unchanged THEN "ssh" ELSE "before_provision",
          ![s].next = IF unchanged THEN "complete" ELSE "commit",
          ![s].rec.actual = "Running"]
    /\ UNCHANGED <<storeVars, box, aux, approved>>

-----------------------------------------------------------------------------
(* replace_image() *)

\* retained_resources(): exactly one container of ours, and beside it all the
\* volumes and the network the request expects.
Retainable(s) == Mine(s) /\ aux[s] = {"volume", "network"}

\* replacement_evidence(), called before and after the image is pulled: the
\* container is still ours and still of the image that was inspected.
Evidence(s) == Retainable(s) /\ box[s].image = task[s].seen.image

ReplaceEvidence(s) ==
    /\ At(s, "rp_evidence")
    /\ \/ Works /\ Evidence(s) /\ Goto(s, "rp_prepare")
       \/ Works /\ ~Evidence(s) /\ Goto(s, "fail")
       \/ Fails("list") /\ Goto(s, "fail")
    /\ UNCHANGED <<storeVars, box, aux, approved>>

\* Everything up to here fails without having touched the container.
ReplacePrepare(s) ==
    /\ At(s, "rp_prepare")
    /\ \/ /\ Works /\ Evidence(s)
          /\ task' = [task EXCEPT ![s].pc = "rp_stop", ![s].seen = box[s],
                        ![s].replacing = TRUE, ![s].onError = "rb_list"]
       \/ /\ \/ Works /\ ~Evidence(s)
             \/ \E p \in {"image", "inspect", "list", "store"} : Fails(p)
          /\ Goto(s, "fail")
    /\ UNCHANGED <<storeVars, box, aux, approved>>

ReplaceStop(s) ==
    LET running == task[s].seen.state = "Running" IN
    /\ At(s, "rp_stop")
    /\ \/ running /\ Works /\ SetState(s, "Stopped") /\ Goto(s, "rp_remove")
       \/ ~running /\ Works /\ UNCHANGED runtimeVars /\ Goto(s, "rp_remove")
       \/ /\ running
          /\ \/ Fails("stop") /\ Perhaps(SetState(s, "Stopped"))
             \/ box[s] = NoBox /\ Works /\ UNCHANGED runtimeVars
          /\ Goto(s, "rb_list")
    /\ UNCHANGED <<storeVars, approved>>

ReplaceRemove(s) ==
    /\ At(s, "rp_remove")
    /\ \/ Works /\ RemoveResource(s, "container") /\ Goto(s, "rp_create")
       \/ /\ \/ Fails("remove") /\ Perhaps(RemoveResource(s, "container"))
             \/ ~Mine(s) /\ Works /\ UNCHANGED runtimeVars
          /\ Goto(s, "rb_list")
    /\ UNCHANGED <<storeVars, approved>>

\* create_container(): its inventory may fail before the command and after it,
\* and after it the evidence of a new container is lost.
ReplaceCreate(s) ==
    /\ At(s, "rp_create")
    /\ \/ Works /\ CreateResource(s, "container", approved) /\ Goto(s, "rp_start")
       \/ Fails("create") /\ CreateResource(s, "container", approved) /\ Goto(s, "rp_partial")
       \/ /\ Fails("list") /\ Perhaps(CreateResource(s, "container", approved))
          /\ Goto(s, "rb_list")
       \/ /\ \/ Fails("create")
             \/ box[s] # NoBox /\ Works
          /\ UNCHANGED runtimeVars /\ Goto(s, "rb_list")
    /\ UNCHANGED <<storeVars, approved>>

\* remove_exact_container() of what a failed create_container() left behind;
\* when that fails too, the rollback meets the container again.
ReplacePartial(s) ==
    /\ At(s, "rp_partial")
    /\ \/ Works /\ RemoveResource(s, "container")
       \/ Fails("remove") /\ Perhaps(RemoveResource(s, "container"))
       \/ /\ \/ Fails("inspect")
             \/ ~Mine(s) /\ Works
          /\ UNCHANGED runtimeVars
    /\ Goto(s, "rb_list")
    /\ UNCHANGED <<storeVars, approved>>

\* From here the steps of Guest run, their events without a fingerprint.
ReplaceStart(s) ==
    /\ At(s, "rp_start")
    /\ \/ /\ Works /\ SetState(s, "Running")
          /\ task' = [task EXCEPT
                ![s].pc = "before_provision", ![s].print = None,
                ![s].next = "commit",
                ![s].rec = [@ EXCEPT !.actual = "Running", !.image = approved]]
       \/ /\ \/ Fails("start") /\ Perhaps(SetState(s, "Running"))
             \/ box[s] = NoBox /\ Works /\ UNCHANGED runtimeVars
          /\ Goto(s, "rb_list")
    /\ UNCHANGED <<storeVars, approved>>

-----------------------------------------------------------------------------
(* rollback_image(), after a failed replacement or a failed commit of one  *)

\* A rollback that failed changes only the reported error.
RollbackEnds(s) == Goto(s, IF task[s].uncommit THEN "restore_row" ELSE "fail")

\* Undoing a commit collects the retained resources afresh.
RetainResources(s) ==
    /\ At(s, "retain")
    /\ \/ Works /\ Retainable(s) /\ Goto(s, "rb_list")
       \/ Works /\ ~Retainable(s) /\ RollbackEnds(s)
       \/ Fails("list") /\ RollbackEnds(s)
    /\ UNCHANGED <<storeVars, box, aux, approved>>

RollbackList(s) ==
    /\ At(s, "rb_list")
    /\ \/ Works /\ Mine(s) /\ Goto(s, "rb_stop")
       \/ Works /\ ~Mine(s) /\ Goto(s, "rb_create")
       \/ Fails("list") /\ RollbackEnds(s)
    /\ UNCHANGED <<storeVars, box, aux, approved>>

RollbackStop(s) ==
    /\ At(s, "rb_stop")
    /\ \/ Works /\ Mine(s) /\ SetState(s, "Stopped") /\ Goto(s, "rb_remove")
       \/ Works /\ box[s] = NoBox /\ UNCHANGED runtimeVars /\ Goto(s, "rb_remove")
       \/ /\ \/ Fails("inspect")
             \/ Works /\ box[s] # NoBox /\ ~Mine(s)
          /\ UNCHANGED runtimeVars /\ RollbackEnds(s)
       \/ /\ box[s] # NoBox /\ box[s].state = "Running"
          /\ Fails("stop") /\ Perhaps(SetState(s, "Stopped")) /\ RollbackEnds(s)
    /\ UNCHANGED <<storeVars, approved>>

RollbackRemove(s) ==
    /\ At(s, "rb_remove")
    /\ \/ Works /\ RemoveResource(s, "container") /\ Goto(s, "rb_create")
       \/ /\ \/ Fails("remove") /\ Perhaps(RemoveResource(s, "container"))
             \/ ~Mine(s) /\ Works /\ UNCHANGED runtimeVars
          /\ RollbackEnds(s)
    /\ UNCHANGED <<storeVars, approved>>

\* What a failed create leaves behind stays: its evidence is not used here.
RollbackCreate(s) ==
    LET image == task[s].seen.image IN
    /\ At(s, "rb_create")
    /\ \/ Works /\ CreateResource(s, "container", image) /\ Goto(s, "rb_start")
       \/ Fails("create") /\ CreateResource(s, "container", image) /\ RollbackEnds(s)
       \/ /\ \/ Fails("create")
             \/ box[s] # NoBox /\ Works
          /\ UNCHANGED runtimeVars /\ RollbackEnds(s)
    /\ UNCHANGED <<storeVars, approved>>

RollbackStart(s) ==
    /\ At(s, "rb_start")
    /\ \/ Works /\ SetState(s, "Running") /\ Goto(s, "rb_ssh")
       \/ Fails("store") /\ SetState(s, "Running") /\ RollbackEnds(s)
       \/ /\ \/ Fails("start") /\ Perhaps(SetState(s, "Running"))
             \/ box[s] = NoBox /\ Works /\ UNCHANGED runtimeVars
          /\ RollbackEnds(s)
    /\ UNCHANGED <<storeVars, approved>>

RestorePriorSsh(s) ==
    /\ At(s, "rb_ssh")
    /\ Works \/ Fails("ssh") \/ Fails("store")
    /\ RollbackEnds(s)
    /\ UNCHANGED <<storeVars, box, aux, approved>>

\* After a failed commit the previous row is written back, if the store lets it.
RestoreRow(s) ==
    LET prior == task[s].prior IN
    /\ At(s, "restore_row")
    /\ \/ Works /\ PutSandbox(s, prior)
       \/ Works /\ ~PutAccepted(s, prior) /\ UNCHANGED storeVars
       \/ Fails("store") /\ UNCHANGED storeVars
    /\ Goto(s, "fail")
    /\ UNCHANGED <<box, aux, approved>>

ApplyStep(s) ==
    \/ ApplyInspect(s) \/ ApplyStop(s) \/ ApplyStart(s) \/ ApplyPlan(s)

ReplaceStep(s) ==
    \/ ReplaceEvidence(s) \/ ReplacePrepare(s) \/ ReplaceStop(s)
    \/ ReplaceRemove(s) \/ ReplaceCreate(s) \/ ReplacePartial(s) \/ ReplaceStart(s)

RollbackStep(s) ==
    \/ RetainResources(s) \/ RollbackList(s) \/ RollbackStop(s)
    \/ RollbackRemove(s) \/ RollbackCreate(s) \/ RollbackStart(s)
    \/ RestorePriorSsh(s) \/ RestoreRow(s)

=============================================================================
