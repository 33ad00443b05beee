------------------------------ MODULE Contract ------------------------------
(***************************************************************************)
(* What every runtime backend owes the daemon, whatever it is implemented  *)
(* over: the walk of backend_contract (crates/gascan-conformance/src/      *)
(* lib.rs) as a specification of all the orders its calls can come in.     *)
(*                                                                         *)
(* A sandbox is absent, stopped or running.  A second create conflicts,    *)
(* start and stop may be repeated, and a session's exit is the last thing  *)
(* its stream yields.  A call may fail; a create that fails may have made  *)
(* the container, any other call that fails has done nothing or its work.  *)
(***************************************************************************)
CONSTANT Sandboxes

VARIABLES
    state,           \* what inspect() answers
    session,         \* the stream of the sandbox's session
    reply            \* how the last call for the sandbox was answered

contractVars == <<state, session, reply>>

Init ==
    /\ state = [s \in Sandboxes |-> "absent"]
    /\ session = [s \in Sandboxes |-> "none"]
    /\ reply = [s \in Sandboxes |-> "none"]

Answer(s, r) == reply' = [reply EXCEPT ![s] = r]
Becomes(s, x) == state' = [state EXCEPT ![s] = x]

Create(s) ==
    state[s] = "absent" /\ Becomes(s, "stopped") /\ Answer(s, "created") /\ UNCHANGED session

Conflict(s) == Answer(s, "resource_conflict") /\ UNCHANGED <<state, session>>

Start(s) ==
    state[s] # "absent" /\ Becomes(s, "running") /\ Answer(s, "running") /\ UNCHANGED session

Stop(s) ==
    state[s] # "absent" /\ Becomes(s, "stopped") /\ Answer(s, "stopped") /\ UNCHANGED session

\* A removal that names the container, or only other resources.
Remove(s) ==
    (Becomes(s, "absent") \/ UNCHANGED state) /\ Answer(s, "removed") /\ UNCHANGED session

Missing(s) ==
    state[s] = "absent" /\ Answer(s, "not_found") /\ UNCHANGED <<state, session>>

Fail(s) ==
    /\ Answer(s, "failed")
    /\ \/ UNCHANGED state
       \/ state[s] = "absent" /\ Becomes(s, "stopped")
    /\ UNCHANGED session

Exec(s) ==
    /\ state[s] = "running" /\ session[s] \notin {"open", "exited"}
    /\ session' = [session EXCEPT ![s] = "open"]
    /\ Answer(s, "session")
    /\ UNCHANGED state

\* Exit is terminal: the stream ends after it, and without it only by failing.
Stream(s) ==
    /\ \/ session[s] = "open" /\ session' = [session EXCEPT ![s] = "exited"]
       \/ session[s] = "exited" /\ session' = [session EXCEPT ![s] = "ended"]
       \/ session[s] = "open" /\ session' = [session EXCEPT ![s] = "broken"]
    /\ UNCHANGED <<state, reply>>

Next ==
    \E s \in Sandboxes :
       \/ Create(s) \/ Conflict(s) \/ Start(s) \/ Stop(s) \/ Remove(s)
       \/ Missing(s) \/ Fail(s) \/ Exec(s) \/ Stream(s)

Spec == Init /\ [][Next]_contractVars
=============================================================================
