---------------------------- MODULE MCLifecycle ----------------------------
(* Instances of Lifecycle for TLC. *)
EXTENDS Lifecycle

CONSTANTS s1, s2, r1, r2, i1, i2, m1, m2

MCRootOf == [s \in Sandboxes |-> IF s = s1 THEN r1 ELSE r2]

AllRequests == {"up", "apply", "start", "stop", "destroy"}

\* Nothing fails, but the daemon or the host dies once.
CrashPlan ==
    [who |-> {s1}, requests |-> AllRequests, manifests |-> {m1, m2}, images |-> {i1, i2},
     faults |-> {}, maxFaults |-> 0, maxCrashes |-> 1]

\* Up to two calls to the runtime fail, anywhere.
CallsPlan ==
    [CrashPlan EXCEPT !.faults = {"inspect", "list", "create", "start", "stop", "remove", "image",
                                  "exec", "setup", "health", "ssh"},
                      !.maxFaults = 2, !.maxCrashes = 0]

\* Writes to the store fail, and the daemon dies.
StorePlan == [CrashPlan EXCEPT !.manifests = {m1}, !.faults = {"store"}, !.maxFaults = 2]

\* A write fails when there are two manifests, so that a rollback has a row to
\* put back that differs from the one it finds.
RestorePlan == [CrashPlan EXCEPT !.faults = {"store"}, !.maxFaults = 1, !.maxCrashes = 0]

\* Others interfere with the containers while calls fail and the daemon dies.
OthersPlan ==
    [CrashPlan EXCEPT !.manifests = {m1}, !.faults = {"loss", "exit", "foreign", "remove", "stop"},
                      !.maxFaults = 2]

\* Two sandboxes at once.
TwoPlan ==
    [who |-> {s1, s2}, requests |-> {"up", "stop", "destroy"}, manifests |-> {m1}, images |-> {i1},
     faults |-> {"inspect"}, maxFaults |-> 1, maxCrashes |-> 1]

MCPlans == {CrashPlan, CallsPlan, StorePlan, RestorePlan, OthersPlan, TwoPlan}

\* A small plan with everything in it, for liveness.
LivePlan ==
    [CrashPlan EXCEPT !.images = {i1}, !.faults = {"list", "start", "setup", "create"},
                      !.maxFaults = 1]

MCLivePlans == {LivePlan}

MCAbortPlans == {[CrashPlan EXCEPT !.manifests = {m1}]}

=============================================================================
