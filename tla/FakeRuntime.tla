---------------------------- MODULE FakeRuntime ----------------------------
(***************************************************************************)
(* The runtime the daemon's own tests drive (crates/gascan-core/src/       *)
(* fake_runtime.rs).  One mutex makes each call a single step.  A runtime  *)
(* with a file writes its whole state there when a call succeeds and loads *)
(* it again when the daemon restarts; a call that fails part way changes   *)
(* memory and not the file.                                                *)
(*                                                                         *)
(* A sandbox has a network, a volume and a container.  Resources carry the *)
(* proofs of module Observations; held is what a caller keeps of the last  *)
(* listing or create.  Sessions run beside the calls.                      *)
(***************************************************************************)
EXTENDS Integers, Sequences, FiniteSets, FiniteSetsExt

CONSTANTS
    Sandboxes,
    Seeds,           \* what a test may have put in the way: "own", "foreign"
    Injections,      \* bound: failures a test injects
    Restarts,        \* bound: restarts of the daemon
    Executions,      \* bound: sessions of each sandbox
    DiskFails        \* whether writing the file can fail

Kinds == {"network", "volume", "container"}
Resources == Sandboxes \X Kinds
Proofs == 1..3
None == 0
Boundaries == {"create", "after_1", "after_2", "after_3", "recreate", "after_recreate",
               "start", "stop", "remove", "hang", "input", "stream"}

Afters == {"after_1", "after_2", "after_3"}     \* only one of them is pending

Acknowledged == {"created", "running", "stopped", "removed"}
Replies == Acknowledged \cup {"none", "session", "failed", "resource_conflict", "not_found"}

VARIABLES
    sandboxes,       \* each sandbox's state, or "absent"
    owner,           \* of each resource: "own", "foreign" or "absent"
    proof,           \* the proof of each resource, or None
    held,            \* the proofs the caller holds
    logs,            \* sessions whose output is in the logs
    file,            \* what a restart would load
    failures,        \* failures injected and not yet met
    session,         \* each sandbox's session
    exits,           \* exits seen by each sandbox's callers
    reply,           \* how the last call was answered
    budget           \* what remains of the bounds

vars == <<sandboxes, owner, proof, held, logs, file, failures, session, exits, reply, budget>>
memory == <<sandboxes, owner, proof>>
calls == <<logs, session, exits>>

\* persist_state() writes no proofs: they are not serialized.
Snapshot(b, o, l) == [sandboxes |-> b, owner |-> o, logs |-> l]

TypeOK ==
    /\ sandboxes \in [Sandboxes -> {"absent", "stopped", "running"}]
    /\ owner \in [Resources -> {"absent", "own", "foreign"}]
    /\ proof \in [Resources -> Proofs \cup {None}]
    /\ held \in [Resources -> Proofs \cup {None}]
    /\ \A r \in Resources : (owner[r] = "absent") = (proof[r] = None)
    /\ logs \in [Sandboxes -> 0..Executions]
    /\ failures \subseteq Boundaries
    /\ session \in [Sandboxes -> {"none", "open", "stuck", "logged", "exited", "ended", "broken"}]
    /\ reply \in [Sandboxes -> Replies]

\* A test may seed volumes and networks of any owner.
Seeded ==
    {o \in [Resources -> Seeds \cup {"absent"}] :
        \A s \in Sandboxes : o[<<s, "container">>] = "absent"}

Init ==
    /\ sandboxes = [s \in Sandboxes |-> "absent"]
    /\ owner \in Seeded
    /\ proof = [r \in Resources |-> IF owner[r] = "absent" THEN None ELSE 1]
    /\ held = [r \in Resources |-> None]
    /\ logs = [s \in Sandboxes |-> 0]
    /\ file = Snapshot(sandboxes, owner, logs)
    /\ failures = {}
    /\ session = [s \in Sandboxes |-> "none"]
    /\ exits = [s \in Sandboxes |-> 0]
    /\ reply = [s \in Sandboxes |-> "none"]
    /\ budget = [injections |-> Injections, restarts |-> Restarts,
                 executions |-> [s \in Sandboxes |-> Executions]]

Own(s) == {r \in Resources : r[1] = s}
Fresh(r) == Min(Proofs \ {proof[r], held[r]})
Answer(s, a) == reply' = [reply EXCEPT ![s] = a]

\* fail_once(): an injected failure is met once.
Meets(b) == b \in failures /\ failures' = failures \ {b}
Avoids(b) == b \notin failures /\ UNCHANGED failures

Inject(b) ==
    /\ budget.injections > 0 /\ b \notin failures
    /\ failures' = (failures \ IF b \in Afters THEN Afters ELSE {}) \cup {b}
    /\ budget' = [budget EXCEPT !.injections = @ - 1]
    /\ UNCHANGED <<memory, held, calls, file, reply>>

\* The end of every call that changed memory: the file is written and the
\* call succeeds, or the write fails and so does the call.
Written(s, done) == file' = Snapshot(sandboxes', owner', logs') /\ Answer(s, done)
Unwritten(s) == DiskFails /\ Answer(s, "failed") /\ UNCHANGED file

Persist(s, done) == Written(s, done) \/ Unwritten(s)

-----------------------------------------------------------------------------
(* create()                                                                *)

\* What it makes: a volume of this sandbox is used again, one of anybody else
\* ends the create after the network.
Made(s) ==
    LET volume == owner[<<s, "volume">>]
    IN  CASE volume = "absent" -> <<"network", "volume", "container">>
          [] volume = "own" -> <<"network", "container">>
          [] volume = "foreign" -> <<"network">>

\* fail_after_create_mutation(): how many resources the create makes when the
\* failure injected after so many mutations is met, or all of them.
After(i) == CASE i = 1 -> "after_1" [] i = 2 -> "after_2" [] OTHER -> "after_3"

StopsAfter(s) ==
    LET met == {i \in 1..Len(Made(s)) : After(i) \in failures}
    IN  IF met = {} THEN None ELSE Min(met)

Make(s, made) ==
    /\ owner' = [r \in Resources |-> IF r \in made THEN "own" ELSE owner[r]]
    /\ proof' = [r \in Resources |-> IF r \in made THEN Fresh(r) ELSE proof[r]]
    /\ sandboxes' = IF <<s, "container">> \in made
                    THEN [sandboxes EXCEPT ![s] = "stopped"] ELSE sandboxes

Evidence(s, made) ==
    held' = [r \in Resources |-> IF r[1] # s THEN held[r] ELSE IF r \in made THEN proof'[r] ELSE None]

\* Mistake: a sandbox that exists is created again.
CreateRefusedNever(s) ==
    /\ Avoids("create") /\ sandboxes[s] # "absent"
    /\ sandboxes' = [sandboxes EXCEPT ![s] = "stopped"]
    /\ Answer(s, "created")
    /\ UNCHANGED <<owner, proof, held, calls, file, budget>>

CreateRefused(s) ==
    /\ \/ Meets("create") /\ Answer(s, "failed")
       \/ /\ Avoids("create")
          /\ sandboxes[s] # "absent" \/ owner[<<s, "network">>] # "absent"
          /\ Answer(s, "resource_conflict")
    /\ UNCHANGED <<memory, held, calls, file, budget>>

CreateFails(s) ==
    LET n == StopsAfter(s)
        upto == IF n # None THEN n ELSE Len(Made(s))
        made == {<<s, Made(s)[i]>> : i \in 1..upto}
    IN  /\ "create" \notin failures
        /\ sandboxes[s] = "absent" /\ owner[<<s, "network">>] = "absent"
        /\ n # None \/ owner[<<s, "volume">>] = "foreign"
        /\ Make(s, made) /\ Evidence(s, made)
        /\ IF n # None
           THEN failures' = failures \ {After(n)} /\ Answer(s, "failed")
           ELSE UNCHANGED failures /\ Answer(s, "resource_conflict")
        /\ UNCHANGED <<calls, file, budget>>

\* When only the file cannot be written the failure names nothing.
Create(s) ==
    LET made == {<<s, Made(s)[i]>> : i \in 1..Len(Made(s))}
    IN  /\ Avoids("create") /\ StopsAfter(s) = None
        /\ sandboxes[s] = "absent" /\ owner[<<s, "network">>] = "absent"
        /\ owner[<<s, "volume">>] # "foreign"
        /\ UNCHANGED <<calls, budget>>
        /\ Make(s, made)
        /\ \/ Written(s, "created") /\ Evidence(s, made)
           \/ Unwritten(s) /\ Evidence(s, {})

-----------------------------------------------------------------------------
(* create_container(): the retained resources must be the very ones seen   *)

Retained(s) == {<<s, "network">>, <<s, "volume">>}

Stands(r) == owner[r] = "own" /\ proof[r] = held[r]

CreateContainer(s) ==
    LET container == {<<s, "container">>}
    IN  /\ UNCHANGED <<calls, budget>>
        /\ \A r \in Retained(s) : held[r] # None
        /\ \/ /\ Meets("recreate") /\ Answer(s, "failed")
              /\ UNCHANGED <<memory, held, file>>
           \/ /\ Avoids("recreate") /\ sandboxes[s] # "absent"
              /\ Answer(s, "resource_conflict")
              /\ UNCHANGED <<memory, held, file>>
           \/ /\ Avoids("recreate") /\ sandboxes[s] = "absent"
              /\ \E r \in Retained(s) : ~Stands(r)
              /\ Answer(s, "failed")
              /\ UNCHANGED <<memory, held, file>>
           \/ /\ "recreate" \notin failures /\ sandboxes[s] = "absent"
              /\ \A r \in Retained(s) : Stands(r)
              /\ Make(s, container)
              /\ \/ /\ Meets("after_recreate") /\ Answer(s, "failed")
                    /\ held' = [held EXCEPT ![<<s, "container">>] = proof'[<<s, "container">>]]
                    /\ UNCHANGED file
                 \/ /\ Avoids("after_recreate") /\ Written(s, "created")
                    /\ held' = [held EXCEPT ![<<s, "container">>] = proof'[<<s, "container">>]]
                 \/ /\ Avoids("after_recreate") /\ Unwritten(s)
                    /\ UNCHANGED held

-----------------------------------------------------------------------------
(* start(), stop(), remove() and list_resources()                          *)

SetState(s, boundary, x) ==
    /\ \/ Meets(boundary) /\ Answer(s, "failed") /\ UNCHANGED <<sandboxes, file>>
       \/ /\ Avoids(boundary) /\ sandboxes[s] = "absent"
          /\ Answer(s, "not_found") /\ UNCHANGED <<sandboxes, file>>
       \/ /\ Avoids(boundary) /\ sandboxes[s] # "absent"
          /\ sandboxes' = [sandboxes EXCEPT ![s] = x]
          /\ UNCHANGED <<owner, logs>>
          /\ Persist(s, x)
    /\ UNCHANGED <<owner, proof, held, calls, budget>>

Start(s) == SetState(s, "start", "running")

Stop(s) == SetState(s, "stop", "stopped")

\* All of the request is compared before any of it is removed.
Remove(s) ==
    LET request == {r \in Own(s) : held[r] # None}
    IN  /\ request # {}
        /\ \/ /\ Meets("remove") \/ (Avoids("remove") /\ \E r \in request : ~Stands(r))
              /\ Answer(s, "failed")
              /\ UNCHANGED <<memory, held, file>>
           \/ /\ Avoids("remove") /\ \A r \in request : Stands(r)
              /\ owner' = [r \in Resources |-> IF r \in request THEN "absent" ELSE owner[r]]
              /\ proof' = [r \in Resources |-> IF r \in request THEN None ELSE proof[r]]
              /\ sandboxes' = IF <<s, "container">> \in request
                              THEN [sandboxes EXCEPT ![s] = "absent"] ELSE sandboxes
              /\ UNCHANGED <<held, logs>>
              /\ Persist(s, "removed")
        /\ UNCHANGED <<calls, budget>>

\* A caller keeps what a listing shows of its sandbox, or only some of it.
ListResources(s) ==
    /\ \E kept \in {Kinds, Kinds \ {"container"}, {"container"}} :
          held' = [r \in Resources |->
                     IF r[1] # s THEN held[r]
                     ELSE IF r[2] \in kept /\ owner[r] = "own" THEN proof[r] ELSE None]
    /\ UNCHANGED <<memory, calls, file, failures, reply, budget>>

-----------------------------------------------------------------------------
(* exec(): the task of a session                                           *)

Session(s, x) == session' = [session EXCEPT ![s] = x]

Exec(s) ==
    /\ session[s] \notin {"open", "stuck", "logged", "exited"}
    /\ budget.executions[s] > 0
    /\ \/ /\ sandboxes[s] # "running"
          /\ Answer(s, IF sandboxes[s] = "absent" THEN "not_found" ELSE "failed")
          /\ UNCHANGED <<session, failures, budget>>
       \/ /\ sandboxes[s] = "running"
          /\ \/ Meets("hang") /\ Session(s, "stuck")
             \/ "hang" \notin failures /\ Meets("input") /\ Session(s, "stuck")
             \/ /\ failures \cap {"hang", "input"} = {}
                /\ Meets("stream") /\ Session(s, "stuck")
             \/ /\ failures \cap {"hang", "input", "stream"} = {}
                /\ UNCHANGED failures /\ Session(s, "open")
          /\ budget' = [budget EXCEPT !.executions[s] = @ - 1]
          /\ Answer(s, "session")
    /\ UNCHANGED <<memory, held, logs, exits, file>>

\* The input ends, the command is interpreted, and its output goes to the logs
\* and, if it can, to the file, before any of it is sent.
Finish(s) ==
    /\ session[s] = "open"
    /\ logs' = [logs EXCEPT ![s] = @ + 1]
    /\ \/ file' = Snapshot(sandboxes, owner, logs')
       \/ DiskFails /\ UNCHANGED file
    /\ Session(s, "logged")
    /\ UNCHANGED <<memory, held, exits, failures, reply, budget>>

Exit(s) ==
    /\ session[s] = "logged"
    /\ Session(s, "exited")
    /\ exits' = [exits EXCEPT ![s] = @ + 1]
    /\ UNCHANGED <<memory, held, logs, file, failures, reply, budget>>

EndStream(s) ==
    /\ session[s] = "exited"
    /\ Session(s, "ended")
    /\ UNCHANGED <<memory, held, logs, exits, file, failures, reply, budget>>

\* The caller cancels, or a session told to fail does: no exit is seen.
Cancel(s) ==
    /\ session[s] \in {"stuck", "logged"}
    /\ Session(s, "broken")
    /\ UNCHANGED <<memory, held, logs, exits, file, failures, reply, budget>>

-----------------------------------------------------------------------------
(* A restart loads the file; proofs, failures and sessions are gone        *)

Restart ==
    /\ budget.restarts > 0
    /\ budget' = [budget EXCEPT !.restarts = @ - 1]
    /\ sandboxes' = file.sandboxes /\ owner' = file.owner /\ logs' = file.logs
    /\ proof' = [r \in Resources |-> IF owner'[r] = "absent" THEN None ELSE Fresh(r)]
    /\ failures' = {}
    /\ session' = [s \in Sandboxes |-> "none"]
    /\ exits' = [s \in Sandboxes |-> 0]
    /\ reply' = [s \in Sandboxes |-> "none"]
    /\ UNCHANGED <<held, file>>

Next ==
    \/ \E b \in Boundaries : Inject(b)
    \/ \E s \in Sandboxes :
          \/ CreateRefused(s) \/ CreateFails(s) \/ Create(s) \/ CreateContainer(s)
          \/ Start(s) \/ Stop(s) \/ Remove(s) \/ ListResources(s)
          \/ Exec(s) \/ Finish(s) \/ Exit(s) \/ EndStream(s) \/ Cancel(s)
    \/ Restart

Spec == Init /\ [][Next]_vars

-----------------------------------------------------------------------------
(* Properties                                                              *)

Restarted == budget'.restarts < budget.restarts

\* inspect() and list_resources() never disagree: a sandbox is there exactly
\* when its container is listed as its own, after any failure and restart.
ListingMatchesInspect ==
    \A s \in Sandboxes : (sandboxes[s] # "absent") = (owner[<<s, "container">>] = "own")

\* A resource is removed only by the observation of that very resource: one
\* from before a restart, or of a resource since removed and made again,
\* removes nothing.
RemovalIsExact ==
    [][\A r \in Resources :
          owner[r] # "absent" /\ owner'[r] = "absent" /\ ~Restarted => held[r] = proof[r]]_vars

\* create() and create_container() name everything they made, however far they
\* came: the caller holds the proof of each new resource.
FailureNamesWhatItMade ==
    [][\A r \in Resources :
          owner[r] = "absent" /\ owner'[r] # "absent" /\ ~Restarted => held'[r] = proof'[r]]_vars

\* A restart keeps what the last call for a sandbox was told is done, even when
\* earlier calls failed or could not be written.
RestartKeepsAcknowledged ==
    [][\A s \in Sandboxes :
          Restarted /\ reply[s] \in Acknowledged =>
             /\ sandboxes'[s] = sandboxes[s]
             /\ \A r \in Own(s) : owner'[r] = owner[r]]_vars

\* Whoever has seen a session's exit finds its output in logs().
LogsBeforeExit == \A s \in Sandboxes : exits[s] <= logs[s]

\* The fake runtime keeps the contract of every backend as long as the daemon
\* is not restarted.
Backend ==
    INSTANCE Contract WITH
        state <- sandboxes,
        session <- [s \in Sandboxes |->
                      CASE session[s] \in {"stuck", "logged"} -> "open"
                        [] OTHER -> session[s]]

KeepsContract == Backend!Spec

=============================================================================
