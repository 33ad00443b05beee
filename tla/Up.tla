-------------------------------- MODULE Up ---------------------------------
(***************************************************************************)
(* up(): up_inner and up_runtime of crates/gascand/src/service.rs.  A      *)
(* missing container is created, an existing one is started, and what the  *)
(* row does not yet claim is provisioned; what has changed since is        *)
(* reported as "apply_required".                                           *)
(***************************************************************************)
EXTENDS Service

-----------------------------------------------------------------------------
(* Provisioning a started container and checking it, the steps that up,    *)
(* apply and image replacement run in the same order: before_provision,    *)
(* the provisioning itself, after_provision, before_health, the health     *)
(* check, after_health, and recording that SSH is disabled.  A handler     *)
(* enters at "before_provision" or at "before_health"; task[s].onError     *)
(* says where its errors lead.                                             *)

BeforeProvision(s) ==
    /\ At(s, "before_provision")
    /\ Emit(s, "before_provision", task[s].print, "provision", task[s].onError)
    /\ UNCHANGED <<box, aux, approved>>

\* provision_with_applied(): volume roots, tools, shell, setup script.  The
\* commands need a running container.  A setup script that fails or has changed
\* leads to finalize_setup_failure; when it could not be run at all, the
\* container is stopped as well but the error is an ordinary one.
Provision(s) ==
    /\ At(s, "provision")
    /\ \/ Works /\ ProvisionGuest(s, task[s].want) /\ Goto(s, "after_provision")
       \/ Fails("setup") /\ Goto(s, "setup_stop") /\ UNCHANGED runtimeVars
       \/ /\ \/ Fails("exec")
             \/ ~(box[s] # NoBox /\ box[s].state = "Running") /\ Works
          /\ Goto(s, task[s].onError)
          /\ SetState(s, "Stopped") \/ UNCHANGED runtimeVars
    /\ UNCHANGED <<storeVars, approved>>

\* finalize_setup_failure(): stop, and confirm the stop by inspection.
SetupStop(s) ==
    LET after(confirmed) ==
            task' = [task EXCEPT
                ![s].pc = IF task[s].replacing THEN "rb_list" ELSE "fail",
                ![s].stopped = confirmed /\ ~task[s].replacing] IN
    /\ At(s, "setup_stop")
    /\ \/ Works /\ SetState(s, "Stopped") /\ after(TRUE)
       \/ Fails("inspect") /\ SetState(s, "Stopped") /\ after(FALSE)
       \/ /\ \/ Fails("stop") /\ Perhaps(SetState(s, "Stopped"))
             \/ box[s] = NoBox /\ Works /\ UNCHANGED runtimeVars
          /\ after(FALSE)
    /\ UNCHANGED <<storeVars, approved>>

AfterProvision(s) ==
    /\ At(s, "after_provision")
    /\ \/ /\ Works
          /\ AppendOperationEvent(task[s].op, "after_provision", task[s].print)
          /\ task' = [task EXCEPT ![s].pc = "before_health",
                                  ![s].rec.resolved = task[s].want]
       \/ Fails("store") /\ UNCHANGED storeVars /\ Goto(s, task[s].onError)
    /\ UNCHANGED <<box, aux, approved>>

BeforeHealth(s) ==
    /\ At(s, "before_health")
    /\ Emit(s, "before_health", None, "health", task[s].onError)
    /\ UNCHANGED <<box, aux, approved>>

HealthCheck(s) ==
    /\ At(s, "health")
    /\ \/ Emit(s, "after_health", task[s].print, "ssh", task[s].onError)
       \/ Fails("health") /\ UNCHANGED storeVars /\ Goto(s, task[s].onError)
    /\ UNCHANGED <<box, aux, approved>>

\* disable_and_persist_ssh(), for a sandbox that never had SSH enabled: only
\* the SSH columns are written.  An unchanged apply does not write the row.
SettleSsh(s) ==
    /\ At(s, "ssh")
    /\ Note(s, task[s].next, task[s].onError)
    /\ UNCHANGED <<storeVars, box, aux, approved>>

GuestStep(s) ==
    \/ BeforeProvision(s) \/ Provision(s) \/ SetupStop(s) \/ AfterProvision(s)
    \/ BeforeHealth(s) \/ HealthCheck(s) \/ SettleSsh(s)

-----------------------------------------------------------------------------
(* up itself *)

\* ImageState::change_required(): the image on record and the image of the
\* container must both be the approved one.
ChangeRequired(prior, running) ==
    \/ prior = NoRow
    \/ prior.image # approved
    \/ running # approved

\* validate_storage_layout(): a row that is not Absent must have a layout.
StorageValid(s) == rows[s].actual = "Absent" \/ rows[s].storage

\* Mistake: a new row is written without its image.
UpRecordNoImage(s) ==
    IF rows[s] = NoRow
    THEN [root |-> RootOf[s], desired |-> "Running", actual |-> "Creating",
          image |-> None, resolved |-> None, storage |-> FALSE]
    ELSE [rows[s] EXCEPT !.desired = "Running"]

UpRecord(s) ==
    IF rows[s] = NoRow
    THEN [root |-> RootOf[s], desired |-> "Running", actual |-> "Creating",
          image |-> approved, resolved |-> None, storage |-> FALSE]
    ELSE [rows[s] EXCEPT
            !.desired = "Running",
            !.actual = IF @ = "Absent" THEN "Creating" ELSE @]

BeginUp(s, m) ==
    /\ rows[s] # NoRow => StorageValid(s)
    /\ Begin(s, "Create", UpRecord(s),
             [NoTask EXCEPT !.next = "up_inspect", !.want = m, !.print = m,
                            !.onError = "cleanup"])

\* The row up writes when it ends well.
UpResult(t, actual) == [t.rec EXCEPT !.actual = actual, !.storage = TRUE]

UpInspect(s) ==
    LET t == task[s] IN
    /\ At(s, "up_inspect")
    /\ \/ /\ \/ Fails("inspect")
             \/ box[s] # NoBox /\ ~Mine(s) /\ Works
          /\ Goto(s, "fail") /\ UNCHANGED storeVars
       \/ /\ box[s] = NoBox /\ Works
          /\ Goto(s, "create") /\ UNCHANGED storeVars
       \/ /\ Mine(s) /\ ChangeRequired(t.prior, box[s].image)
          /\ \/ /\ Works /\ AppendOperationEvent(t.op, "apply_required", None)
                /\ task' = [task EXCEPT ![s].pc = "commit",
                                        ![s].rec = UpResult(t, box[s].state)]
             \/ Fails("store") /\ Goto(s, "fail") /\ UNCHANGED storeVars
       \/ /\ Mine(s) /\ ~ChangeRequired(t.prior, box[s].image) /\ Works
          /\ task' = [task EXCEPT ![s].pc = "up_start", ![s].seen = box[s]]
          /\ UNCHANGED storeVars
    /\ UNCHANGED <<box, aux, approved>>

\* Mistake: what a failed create has made is forgotten.
AbandonCreateForgets(s, made) ==
    task' = [task EXCEPT ![s].pc = "fail", ![s].made = made]

\* A failed create removes what its evidence lists, then reports the error.
AbandonCreate(s, made) ==
    task' = [task EXCEPT ![s].pc = IF made = {} THEN "fail" ELSE "remove",
                         ![s].made = made, ![s].todo = made, ![s].next = "fail"]

\* Mistake: what is in the way is taken for what this attempt has made.
UpCreateClears(s) ==
    /\ At(s, "create") /\ Works
    /\ IF CreateRefused(s) THEN AbandonCreate(s, OwnedResources(s)) ELSE Goto(s, "make")
    /\ UNCHANGED <<storeVars, box, aux, approved>>

\* create() takes inventory first and refuses to start when something is there.
UpCreate(s) ==
    /\ At(s, "create")
    /\ \/ Works /\ ~CreateRefused(s) /\ Goto(s, "make")
       \/ Works /\ CreateRefused(s) /\ Goto(s, "fail")
       \/ Fails("list") /\ Goto(s, "fail")
    /\ UNCHANGED <<storeVars, box, aux, approved>>

UpMake(s) ==
    LET made == task[s].made
        r == NextToCreate(made) IN
    /\ At(s, "make")
    /\ \/ /\ Works /\ CreateResource(s, r, approved)
          /\ task' = [task EXCEPT
                ![s].made = @ \cup {r},
                ![s].pc = IF r = "container" THEN "persist" ELSE "make"]
       \/ Fails("create") /\ CreateResource(s, r, approved) /\ Goto(s, "evidence")
       \/ /\ \/ Fails("create")
             \/ r = "container" /\ box[s] # NoBox /\ Works
          /\ UNCHANGED runtimeVars /\ AbandonCreate(s, made)
    /\ UNCHANGED <<storeVars, approved>>

\* reconcile_created(): a command that broke off may have taken effect, and a
\* fresh inventory tells; without one the evidence is what was known before.
UpEvidence(s) ==
    LET made == task[s].made
        found == {NextToCreate(made)} \cap OwnedResources(s) IN
    /\ At(s, "evidence")
    /\ \/ Works /\ AbandonCreate(s, made \cup found)
       \/ Fails("list") /\ AbandonCreate(s, made)
    /\ UNCHANGED <<storeVars, box, aux, approved>>

\* persist_created_state(): the storage layout is on record from here on.
UpPersist(s) ==
    /\ At(s, "persist")
    /\ \/ /\ Works /\ PutSandbox(s, [rows[s] EXCEPT !.storage = TRUE])
          /\ Goto(s, "created")
       \/ Fails("store") /\ UNCHANGED storeVars /\ Goto(s, "cleanup")
    /\ UNCHANGED <<box, aux, approved>>

\* The "created" event.  Its failure leaves up_runtime before the block whose
\* errors are rolled back.
UpCreated(s) ==
    /\ At(s, "created")
    /\ Note(s, "up_start", "fail")
    /\ UNCHANGED <<storeVars, box, aux, approved>>

\* The container is looked at again before it is started.
UpStart(s) ==
    /\ At(s, "up_start")
    /\ \/ /\ Works /\ SetState(s, "Running")
          /\ task' = [task EXCEPT ![s].pc = "up_plan",
                        ![s].seen = IF @ = NoBox THEN NoBox ELSE box[s]]
       \/ /\ \/ Fails("inspect") /\ UNCHANGED runtimeVars
             \/ box[s] = NoBox /\ Works /\ UNCHANGED runtimeVars
             \/ /\ box[s] # NoBox /\ box[s].state # "Running"
                /\ Fails("start") /\ Perhaps(SetState(s, "Running"))
          /\ Goto(s, "cleanup")
    /\ UNCHANGED <<storeVars, approved>>

\* Provision, unless the row says it is done (durable_match); a row that
\* resolves to something else is left to apply.
UpPlan(s) ==
    LET t == task[s]
        match == /\ t.seen # NoBox /\ t.prior.resolved = t.want
                 /\ ~ChangeRequired(t.prior, t.seen.image)
        stale == t.seen # NoBox /\ ~match /\ t.prior.resolved # None
        ready == [t EXCEPT !.rec = UpResult(t, "Running"), !.next = "commit"] IN
    /\ At(s, "up_plan")
    /\ \/ /\ match \/ stale
          /\ IF stale THEN AppendOperationEvent(t.op, "apply_required", None)
                      ELSE UNCHANGED storeVars
          /\ task' = [task EXCEPT ![s] = [ready EXCEPT !.pc = "before_health"]]
          /\ Works
       \/ /\ ~match /\ ~stale /\ Works /\ UNCHANGED storeVars
          /\ task' = [task EXCEPT ![s] = [ready EXCEPT !.pc = "before_provision"]]
       \/ Fails("store") /\ Goto(s, "cleanup") /\ UNCHANGED storeVars
    /\ UNCHANGED <<box, aux, approved>>

\* The error path of up_runtime: what this attempt created is stopped and
\* removed (rollback_created); a container that was there before is stopped.
UpCleanup(s) ==
    LET created == task[s].made # {} IN
    /\ At(s, "cleanup")
    /\ \/ /\ created /\ Mine(s) /\ Works
          /\ SetState(s, "Stopped")
          /\ task' = [task EXCEPT ![s].pc = "remove", ![s].todo = task[s].made,
                                  ![s].next = "fail"]
       \/ /\ ~created /\ box[s] # NoBox /\ Works
          /\ SetState(s, "Stopped") /\ Goto(s, "fail")
       \/ /\ \/ Works /\ IF created THEN ~Mine(s) ELSE box[s] = NoBox
             \/ Fails("inspect")
             \/ Fails("ssh") /\ ~created
          /\ UNCHANGED runtimeVars /\ Goto(s, "fail")
       \/ /\ box[s] # NoBox /\ (created => box[s].state = "Running")
          /\ Fails("stop") /\ Perhaps(SetState(s, "Stopped")) /\ Goto(s, "fail")
    /\ UNCHANGED <<storeVars, approved>>

UpStep(s) ==
    \/ UpInspect(s) \/ UpCreate(s) \/ UpMake(s) \/ UpEvidence(s) \/ UpPersist(s)
    \/ UpCreated(s) \/ UpStart(s) \/ UpPlan(s) \/ UpCleanup(s)

=============================================================================
