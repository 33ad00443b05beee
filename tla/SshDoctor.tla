------------------------------ MODULE SshDoctor ------------------------------
(***************************************************************************)
(* The daemon's inspection of managed SSH state (gascand/src/doctor.rs)    *)
(* beside the operations that write it.  Doctor holds the publication      *)
(* lock, but reads the records, the directory, the identity and the        *)
(* publication one after the other; an operation creates the identity and  *)
(* writes its record without that lock.  An operation appears here as the  *)
(* writes of SSH state it makes, in their order.  A file is absent, good,  *)
(* unsafe (wrong owner, mode or type), garbled (cannot be parsed), or      *)
(* foreign (well formed, but not what the daemon would write).             *)
(***************************************************************************)
EXTENDS Naturals, FiniteSets

CONSTANTS
    Sandboxes,
    MaxOps,      \* bound on the operations begun
    MaxFaults,   \* bound on files touched by others and on failing calls
    MaxAsked     \* bound on the inspections asked for

FileStates == {"absent", "good", "unsafe", "garbled", "foreign"}

VARIABLES
    rec,         \* the records: actual state, pending, transport, resolution;
                 \* and what the runtime would answer should the operation fail
    identity,    \* the key pair: the state of its two files
    config,      \* the managed config: its state and the sandboxes it names
    gen,         \* the generation the config names
    stale, odd,  \* an obsolete generation remains; one has an unsafe entry
    guard,       \* who holds the publication lock
    pc,          \* the operation on each sandbox
    dpc, seen,   \* Doctor and what it has read
    verdict,     \* the conditions it reports for identity and config
    ops, faults, asked,
    calm         \* history: since Doctor began, what has stayed away

files == <<identity, config, gen, stale, odd>>
bounds == <<ops, faults, asked>>
doctor == <<dpc, seen, verdict>>
vars == <<rec, files, guard, pc, doctor, bounds, calm>>

NoRecord == [state |-> "none", pending |-> FALSE, transport |-> FALSE, resolution |-> FALSE,
             was |-> "absent"]
Nothing == [durable |-> [ok |-> FALSE], artifacts |-> "none", identity |-> "none",
            publication |-> "none", snapshot |-> "none", hosts |-> {}, litter |-> "none"]
Calm == [others |-> TRUE, operations |-> TRUE, calls |-> TRUE]

Init ==
    /\ rec = [s \in Sandboxes |-> NoRecord]
    /\ identity = [private |-> "absent", public |-> "absent"]
    /\ config = [st |-> "absent", hosts |-> {}] /\ gen = "absent"
    /\ stale = FALSE /\ odd = FALSE
    /\ guard = "free" /\ pc = [s \in Sandboxes |-> "idle"]
    /\ dpc = "idle" /\ seen = Nothing
    /\ verdict = [identity |-> "none", config |-> "none"]
    /\ ops = 0 /\ faults = 0 /\ asked = 0
    /\ calm = Calm

Goto(s, label) == pc' = [pc EXCEPT ![s] = label]
Disturb(what) == calm' = [calm EXCEPT ![what] = FALSE]
Fault == faults < MaxFaults /\ faults' = faults + 1 /\ UNCHANGED <<ops, asked>>

-----------------------------------------------------------------------------
(* The operations: the record each begins with.                            *)
Begins(s, label, r) ==
    /\ pc[s] = "idle" /\ ops < MaxOps /\ ops' = ops + 1
    /\ rec' = [rec EXCEPT ![s] = [r EXCEPT !.pending = TRUE]]
    /\ Goto(s, label) /\ Disturb("operations")
    /\ UNCHANGED <<files, guard, doctor, faults, asked>>

BeginUp(s) ==
    /\ rec[s].state \in {"none", "absent"}
    /\ Begins(s, "identity", [rec[s] EXCEPT !.state = "creating"])
BeginStart(s) == rec[s].state = "stopped" /\ Begins(s, "activate", rec[s])
BeginStop(s) == rec[s].state = "running" /\ Begins(s, "deactivate", rec[s])
BeginDestroy(s) ==
    /\ rec[s].state \in {"running", "stopped", "absent"}
    /\ Begins(s, IF rec[s].resolution THEN "deactivate" ELSE "gone",
              [rec[s] EXCEPT !.state = IF @ = "absent" THEN @ ELSE "destroying", !.was = rec[s].state])

Whole == identity.private = "good" /\ identity.public = "good"

(* ensure_host_identity: both keys at once, under the directory's lock,    *)
(* when neither is there; anything else is refused.                        *)
EnsureIdentity(s) ==
    /\ pc[s] = "identity"
    /\ \/ /\ identity = [private |-> "absent", public |-> "absent"] \/ Whole
          /\ identity' = [private |-> "good", public |-> "good"]
          /\ Goto(s, "create") /\ UNCHANGED rec
       \/ /\ identity # [private |-> "absent", public |-> "absent"] /\ ~Whole
          /\ rec' = [rec EXCEPT ![s].state = "absent", ![s].pending = FALSE]
          /\ Goto(s, "idle") /\ UNCHANGED identity
    /\ Disturb("operations")
    /\ UNCHANGED <<config, gen, stale, odd, guard, doctor, bounds>>

(* The container exists: persist_created_state records its transport.      *)
PersistCreated(s) ==
    /\ pc[s] = "create"
    /\ rec' = [rec EXCEPT ![s].transport = TRUE]
    /\ Goto(s, "activate") /\ Disturb("operations")
    /\ UNCHANGED <<files, guard, doctor, bounds>>

(* load_active_hosts: the config and its generation are what the daemon    *)
(* wrote, or there is no config.                                           *)
Loadable ==
    /\ Whole
    /\ \/ config.st = "absent"
       \/ config.st = "good" /\ (config.hosts = {} \/ gen = "good")

(* The operation fails: the record takes the state the runtime is in.      *)
Fails(s, resolution) ==
    /\ rec' = [rec EXCEPT ![s].pending = FALSE, ![s].resolution = resolution,
                          ![s].state = IF @ = "creating" THEN "absent"
                                       ELSE IF @ = "destroying" THEN rec[s].was ELSE @]
    /\ Goto(s, "idle")

(* prepare_activation under the lock, then the resolution is stored: a     *)
(* first activation pins one, a later one finds it there.                  *)
Activate(s) ==
    /\ pc[s] = "activate" /\ guard = "free"
    /\ \/ /\ Loadable
          /\ rec' = [rec EXCEPT ![s].resolution = TRUE]
          /\ guard' = s /\ Goto(s, "commit") /\ UNCHANGED bounds
       \/ ~Loadable /\ Fails(s, rec[s].resolution) /\ UNCHANGED <<guard, bounds>>
       \/ Fault /\ Fails(s, rec[s].resolution) /\ UNCHANGED guard
    /\ Disturb("operations")
    /\ UNCHANGED <<files, doctor>>

Published(s) ==
    /\ config' = [st |-> "good", hosts |-> config.hosts \cup {s}] /\ gen' = "good"
    /\ \/ stale' = FALSE /\ UNCHANGED bounds
       \/ stale' = TRUE /\ config.hosts \notin {{}, {s}} /\ Fault
    /\ Goto(s, "up") /\ UNCHANGED rec

(* commit_openssh_files: an obsolete generation may resist its pruning;    *)
(* when nothing was published the resolution of a create is taken back.    *)
Commit(s) ==
    /\ pc[s] = "commit"
    /\ \/ Published(s)
       \/ Fault /\ Fails(s, rec[s].state # "creating") /\ UNCHANGED <<config, gen, stale>>
    /\ guard' = "free" /\ Disturb("operations")
    /\ UNCHANGED <<identity, odd, doctor>>

(* deactivate_for_paths: nothing is written when the alias is not there.   *)
Deactivate(s) ==
    /\ pc[s] = "deactivate" /\ guard = "free"
    /\ \/ /\ Loadable /\ s \in config.hosts
          /\ config' = [config EXCEPT !.hosts = @ \ {s}]
          /\ gen' = IF config.hosts = {s} THEN "absent" ELSE "good"
          /\ stale' = FALSE
       \/ Loadable /\ s \notin config.hosts /\ UNCHANGED <<config, gen, stale>>
       \/ ~Loadable /\ UNCHANGED <<config, gen, stale>>
    /\ IF Loadable
       THEN Goto(s, IF rec[s].state = "running" THEN "down" ELSE "gone") /\ UNCHANGED rec
       ELSE Fails(s, rec[s].resolution)
    /\ Disturb("operations")
    /\ UNCHANGED <<identity, odd, guard, doctor, bounds>>

(* The terminal write: the record takes the state the operation reached;   *)
(* a destroy also clears what the record said of SSH.                      *)
Finish(s) ==
    /\ pc[s] \in {"up", "down", "gone"}
    /\ rec' = [rec EXCEPT ![s] =
                 CASE pc[s] = "up" -> [@ EXCEPT !.pending = FALSE, !.state = "running"]
                   [] pc[s] = "down" -> [@ EXCEPT !.pending = FALSE, !.state = "stopped"]
                   [] OTHER -> [NoRecord EXCEPT !.state = "absent"]]
    /\ Goto(s, "idle") /\ Disturb("operations")
    /\ UNCHANGED <<files, guard, doctor, bounds>>

(* Somebody else deletes or edits a managed file, or changes its mode.     *)
Touch ==
    /\ Fault
    /\ \/ /\ \E f \in {"private", "public"}, x \in FileStates \ {"good"} :
               identity[f] # "absent" /\ identity' = [identity EXCEPT ![f] = x]
          /\ UNCHANGED <<config, gen, odd>>
       \/ /\ config.st # "absent"
          /\ \E x \in FileStates \ {"good"} : 
               config' = [st |-> x, hosts |-> IF x = "absent" THEN {} ELSE config.hosts]
          /\ UNCHANGED <<identity, gen, odd>>
       \/ /\ gen # "absent" /\ gen' \in FileStates \ {"good"}
          /\ UNCHANGED <<identity, config, odd>>
       \/ odd' = TRUE /\ UNCHANGED <<identity, config, gen>>
    /\ Disturb("others")
    /\ UNCHANGED <<rec, stale, guard, pc, doctor>>

-----------------------------------------------------------------------------
(* ssh_doctor_facts_for_paths.                                             *)
Step(from, to) == dpc = from /\ dpc' = to
Reading == UNCHANGED <<rec, files, guard, pc, verdict>>
Unread == Fault /\ Disturb("calls")
Read == UNCHANGED <<bounds, calm>>
Hopeless(kind) == kind \in {"unsafe", "internal"}

Ask ==
    /\ dpc = "idle" /\ asked < MaxAsked
    /\ dpc' = "asked" /\ asked' = asked + 1 /\ seen' = Nothing
    /\ calm' = [Calm EXCEPT !.operations = \A s \in Sandboxes : pc[s] = "idle"]
    /\ UNCHANGED <<rec, files, guard, pc, verdict, ops, faults>>

Acquire ==
    /\ Step("asked", "records") /\ guard = "free" /\ guard' = "doctor"
    /\ UNCHANGED <<rec, files, pc, seen, verdict, bounds, calm>>

(* durable_ssh_state: what the records, read in one transaction, expect.   *)
Expected(s) ==
    /\ rec[s].transport /\ rec[s].resolution
    /\ rec[s].state = "running" \/ (rec[s].state = "creating" /\ rec[s].pending)
Managed(s) == rec[s].transport \/ rec[s].resolution
Coherent(s) ==
    /\ rec[s].transport = rec[s].resolution
    /\ Managed(s) => Expected(s) \/ rec[s].state \in {"running", "stopped"}
DurableState ==
    [ok |-> TRUE,
     expected |-> {s \in Sandboxes : Expected(s)},
     manages |-> \E s \in Sandboxes : Managed(s),
     consistent |-> \A s \in Sandboxes : Coherent(s),
     pending |-> \E s \in Sandboxes : rec[s].pending]

ReadRecords ==
    /\ Step("records", "artifacts")
    /\ \/ seen' = [seen EXCEPT !.durable = DurableState] /\ Read
       \/ UNCHANGED seen /\ Unread
    /\ Reading

(* inspect_managed_ssh_artifacts: does the directory have an entry?        *)
Entries == \/ identity.private # "absent" \/ identity.public # "absent"
           \/ config.st # "absent" \/ gen # "absent" \/ stale \/ odd
ReadArtifacts ==
    /\ Step("artifacts", "identity")
    /\ \/ seen' = [seen EXCEPT !.artifacts = IF Entries THEN "some" ELSE "empty"] /\ Read
       \/ seen' = [seen EXCEPT !.artifacts = "internal"] /\ Unread
    /\ Reading

(* inspect_host_identity_if_present.                                       *)
IdentityKind ==
    LET keys == {identity.private, identity.public} IN
    CASE "unsafe" \in keys -> "unsafe"
      [] keys = {"absent"} -> "absent"
      [] "absent" \in keys /\ keys # {"absent"} -> "missing"
      [] keys = {"good"} -> "good"
      [] OTHER -> "inconsistent"
ReadIdentity ==
    /\ dpc = "identity"
    /\ \/ seen' = [seen EXCEPT !.identity = IdentityKind] /\ Read
       \/ seen' = [seen EXCEPT !.identity = "internal"] /\ Unread
    /\ dpc' = IF Hopeless(seen'.identity) \/ Hopeless(seen.artifacts) THEN "judge" ELSE "publication"
    /\ Reading

(* inspect_publication_files, and the hosts of what it read: a snapshot    *)
(* needs the identity, and is refused unless all renders as it was found.  *)
PublicationKind ==
    LET references(x) == config.st \in {"good", "foreign"} /\ config.hosts # {} /\ gen = x
    IN  CASE config.st \in {"absent", "unsafe"} -> config.st
          [] config.st = "garbled" -> "inconsistent"
          [] references("unsafe") -> "unsafe"
          [] references("absent") -> "missing"
          [] OTHER -> "present"
SnapshotKind ==
    IF config.st = "good" /\ (config.hosts = {} \/ gen = "good") THEN "good" ELSE "inconsistent"
ReadPublication ==
    /\ Step("publication", "judge")
    /\ \/ /\ seen' = [seen EXCEPT !.publication = PublicationKind,
                  !.snapshot = IF seen.identity = "good" /\ PublicationKind = "present"
                               THEN SnapshotKind ELSE "none",
                  !.hosts = config.hosts,
                  !.litter = IF odd THEN "unsafe" ELSE IF stale THEN "stale" ELSE "none"]
          /\ Read
       \/ seen' = [seen EXCEPT !.publication = "internal"] /\ Unread
    /\ Reading

Both(condition) == [identity |-> condition, config |-> condition]
IdentityFact(v) ==
    CASE v.identity = "good" -> "ready" [] v.identity = "absent" -> "missing" [] OTHER -> v.identity

(* An operation under way excuses what is missing, and nothing else.       *)
TransitionPending(v) ==
    /\ v.durable.ok /\ v.durable.pending /\ v.durable.consistent
    /\ v.identity \in {"absent", "missing"} \/ v.publication \in {"absent", "missing"}
    /\ "inconsistent" \notin {v.identity, v.publication, v.snapshot}
    /\ v.durable.manages \/ v.artifacts # "empty"

RequiresCompleteState(v) == v.durable.ok => v.durable.manages \/ v.artifacts = "some"

(* validate_complete_publication, then generation_cleanup_fact; `accepts`  *)
(* is whether `ssh -G` took the config within its ten seconds.             *)
PublishedFact(v, accepts) ==
    IF ~v.durable.ok THEN "inconsistent"
    ELSE IF ~v.durable.consistent \/ v.hosts # v.durable.expected \/ ~accepts THEN "inconsistent"
    ELSE IF v.litter = "none" THEN "ready" ELSE v.litter

ConfigFact(v, accepts) ==
    CASE v.publication = "absent" -> "missing"
      [] v.publication \in {"missing", "inconsistent"} -> v.publication
      [] v.publication = "present" /\ v.snapshot = "good" -> PublishedFact(v, accepts)
      [] OTHER -> "inconsistent"

Judgement(v, accepts) ==
    CASE Hopeless(v.identity) -> Both(v.identity)
      [] ~Hopeless(v.identity) /\ Hopeless(v.artifacts) -> Both(v.artifacts)
      [] ~Hopeless(v.identity) /\ ~Hopeless(v.artifacts) /\ Hopeless(v.publication) ->
           [identity |-> IdentityFact(v), config |-> v.publication]
      [] OTHER ->
           IF TransitionPending(v) THEN Both("pending")
           ELSE IF ~RequiresCompleteState(v) THEN Both("notcreated")
           ELSE [identity |-> IdentityFact(v), config |-> ConfigFact(v, accepts)]

Judge ==
    /\ Step("judge", "judged")
    /\ \/ verdict' = Judgement(seen, TRUE) /\ Read
       \/ verdict' = Judgement(seen, FALSE) /\ Unread
    /\ UNCHANGED <<rec, files, guard, pc, seen>>

\* Mistake: the publication lock is kept.
RespondKeepingGuard ==
    /\ Step("judged", "idle") /\ seen' = Nothing
    /\ UNCHANGED <<rec, files, guard, pc, verdict, bounds, calm>>

(* The facts are returned and the publication lock is dropped.             *)
Respond ==
    /\ Step("judged", "idle") /\ guard' = "free" /\ seen' = Nothing
    /\ UNCHANGED <<rec, files, pc, verdict, bounds, calm>>

-----------------------------------------------------------------------------
Operate(s) ==
    \/ EnsureIdentity(s) \/ PersistCreated(s) \/ Activate(s) \/ Commit(s)
    \/ Deactivate(s) \/ Finish(s)
Inspect ==
    \/ Acquire \/ ReadRecords \/ ReadArtifacts \/ ReadIdentity \/ ReadPublication
    \/ Judge \/ Respond

Next ==
    \/ \E s \in Sandboxes : BeginUp(s) \/ BeginStart(s) \/ BeginStop(s) \/ BeginDestroy(s) \/ Operate(s)
    \/ Ask \/ Inspect \/ Touch

Spec == Init /\ [][Next]_vars

-----------------------------------------------------------------------------
Conditions == {"ready", "notcreated", "missing", "inconsistent", "unsafe", "pending", "internal", "stale"}
Passing == {"ready", "notcreated", "stale"}

TypeOK ==
    /\ rec \in [Sandboxes -> [state : {"none", "creating", "running", "stopped", "destroying", "absent"},
                              pending : BOOLEAN, transport : BOOLEAN, resolution : BOOLEAN,
                              was : {"running", "stopped", "absent"}]]
    /\ identity \in [private : FileStates, public : FileStates]
    /\ config \in [st : FileStates, hosts : SUBSET Sandboxes] /\ gen \in FileStates
    /\ guard \in Sandboxes \cup {"free", "doctor"}
    /\ guard = "doctor" <=> dpc \notin {"idle", "asked"}
    /\ \A s \in Sandboxes : guard = s <=> pc[s] = "commit"
    /\ verdict \in [identity : Conditions \cup {"none"}, config : Conditions \cup {"none"}]

(* A config reported ready is ready: while nobody else touches the files,  *)
(* the identity is whole and the config on disk names exactly the          *)
(* sandboxes the records expected, although operations went on meanwhile   *)
(* (validate_complete_publication under the publication lock).             *)
ReadyIsWhole ==
    dpc = "judged" /\ verdict.config \in {"ready", "stale"} /\ calm.others =>
        Loadable /\ config.st = "good" /\ config.hosts = seen.durable.expected

(* An unsafe key, config or named generation is neither passed nor put     *)
(* down to an operation under way (the early returns before the            *)
(* transition is considered); nor is an unsafe generation beside a         *)
(* complete publication (generation_cleanup_fact).                         *)
UnsafeIsNeverExcused ==
    dpc = "judged" /\ calm.others
      /\ \/ "unsafe" \in {identity.private, identity.public, config.st}
         \/ config.st = "good" /\ config.hosts # {} /\ gen = "unsafe"
         \/ odd /\ Loadable /\ config.st = "good"
      => verdict.config \notin Passing \cup {"pending"}

(* With no operation under way and nothing having failed, whatever         *)
(* operations came before, Doctor finds managed SSH in order.              *)
RestPasses ==
    dpc = "judged" /\ faults = 0 /\ calm.operations =>
        verdict.identity \in Passing /\ verdict.config \in Passing

(* tests/doctor_state.rs: Doctor defers partial artifacts during the first *)
(* pending create, whatever point that create has reached.                 *)
FirstCreateIsDeferred ==
    \A s \in Sandboxes :
        /\ dpc = "judged" /\ faults = 0 /\ rec[s].state = "creating"
        /\ \A t \in Sandboxes \ {s} : rec[t].state = "none"
        => verdict.config \in {"pending", "notcreated", "ready"}

=============================================================================
