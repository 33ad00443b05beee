---------------------------- MODULE Observations ----------------------------
(***************************************************************************)
(* The proofs by which the Apple backend may delete what it observed       *)
(* (crates/gascan-apple/src/backend.rs).                                   *)
(*                                                                         *)
(* An inventory asks the runtime for its containers, its volumes and its   *)
(* networks, one command each, and then brings the shared cache of         *)
(* observations in line with the answers under a lock.  An observation     *)
(* carries an opaque proof; a removal compares the proof it was given with *)
(* the one of a new inventory.  Operations on one sandbox exclude each     *)
(* other; those on two sandboxes run at the same time over the one cache.  *)
(*                                                                         *)
(* Everything here carries its sandbox's own labels.  A proof is a number, *)
(* and a new proof is the smallest one nobody holds for that resource.     *)
(***************************************************************************)
EXTENDS Integers, FiniteSets, FiniteSetsExt, Functions

CONSTANTS
    Sandboxes,
    Operations,      \* bound: operations on each sandbox
    Faults           \* bound: commands that fail, in a whole behaviour

Kinds == {"network", "volume", "container"}
Resources == Sandboxes \X Kinds
Proofs == 1..3
None == 0

VARIABLES
    world,           \* the resources that exist
    observations,    \* the cache: the proof of each resource, or None
    op,              \* the operation running on each sandbox
    left,            \* operations still to come on each sandbox
    faults           \* faults still to come

vars == <<world, observations, op, left, faults>>

\* at: where the operation is; then: who asked for the inventory that runs;
\* seen: what its commands listed; found: its answer for this sandbox, or that
\* it failed; held: the proofs the operation would remove by; role: what it is.
Nothing == [k \in Kinds |-> None]

Idle ==
    [role |-> "none", at |-> "idle", then |-> "none", seen |-> {},
     found |-> Nothing, failed |-> FALSE, held |-> Nothing, result |-> "none"]

TypeOK ==
    /\ world \subseteq Resources
    /\ observations \in [Resources -> Proofs \cup {None}]
    /\ left \in [Sandboxes -> 0..Operations]
    /\ faults \in 0..Faults
    /\ \A s \in Sandboxes :
          /\ op[s].role \in {"none", "create", "destroy"}
          /\ op[s].seen \subseteq Resources
          /\ op[s].found \in [Kinds -> Proofs \cup {None}]
          /\ op[s].held \in [Kinds -> Proofs \cup {None}]
          /\ op[s].result \in 
                {"none", "ok", "failed", "refused", "left", "destroyed", "incomplete"}

Init ==
    /\ world = {}
    /\ observations = [r \in Resources |-> None]
    /\ op = [s \in Sandboxes |-> Idle]
    /\ left = [s \in Sandboxes |-> Operations]
    /\ faults = Faults

Own(s) == {k \in Kinds : <<s, k>> \in world}
Held(s) == {k \in Kinds : op[s].held[k] # None}
Fault == faults > 0 /\ faults' = faults - 1

ListAt == [container |-> "list_container", volume |-> "list_volume", network |-> "list_network"]
MakeAt == [network |-> "make_network", volume |-> "make_volume", container |-> "make_container"]
CheckAt == [network |-> "check_network", volume |-> "check_volume", container |-> "check_container"]

Goto(s, at) == op' = [op EXCEPT ![s].at = at]
End(s, result) == op' = [op EXCEPT ![s] = [Idle EXCEPT !.result = result]]

-----------------------------------------------------------------------------
(* inventory(): three commands, then the cache                             *)

Inventory(s, then) ==
    [op[s] EXCEPT !.at = "list_container", !.then = then, !.seen = {},
                  !.found = Nothing, !.failed = FALSE]

Ask(s, then) == op' = [op EXCEPT ![s] = Inventory(s, then)]

AfterList(k) ==
    CASE k = "container" -> "list_volume"
      [] k = "volume" -> "list_network"
      [] OTHER -> "reconcile"

List(s, k) ==
    /\ op[s].at = ListAt[k]
    /\ \/ /\ op' = [op EXCEPT ![s].seen = @ \cup {r \in world : r[2] = k},
                              ![s].at = AfterList(k)]
          /\ UNCHANGED faults
       \/ /\ Fault
          /\ op' = [op EXCEPT ![s].failed = TRUE, ![s].seen = {}, ![s].at = op[s].then]
    /\ UNCHANGED <<world, observations, left>>

Fresh(r) ==
    Min(Proofs \ {observations[r], op[r[1]].held[r[2]], op[r[1]].found[r[2]]})

Proof(r) == IF observations[r] # None THEN observations[r] ELSE Fresh(r)

Reconcile(s) ==
    /\ op[s].at = "reconcile"
    /\ observations' = [r \in Resources |-> IF r \in op[s].seen THEN Proof(r) ELSE None]
    /\ op' = [op EXCEPT ![s].found = [k \in Kinds |-> observations'[<<s, k>>]],
                        ![s].seen = {},
                        ![s].at = op[s].then]
    /\ UNCHANGED <<world, left, faults>>

-----------------------------------------------------------------------------
(* create(): nothing may be in the way, then one resource after the other  *)

Begin(s, role) ==
    /\ op[s].at = "idle" /\ left[s] > 0
    /\ left' = [left EXCEPT ![s] = @ - 1]
    /\ op' = [op EXCEPT ![s] = [Inventory(s, IF role = "create" THEN "before" ELSE "expected")
                                EXCEPT !.role = role, !.result = "none"]]
    /\ UNCHANGED <<world, observations, faults>>

Before(s) ==
    /\ op[s].at = "before"
    /\ IF op[s].failed \/ \E k \in Kinds : op[s].found[k] # None
       THEN End(s, "refused")
       ELSE Goto(s, "make_network")
    /\ UNCHANGED <<world, observations, left, faults>>

AfterMake(k) ==
    CASE k = "network" -> "make_volume"
      [] k = "volume" -> "make_container"
      [] OTHER -> "created"

\* The command succeeds; it fails and did nothing; or its result is lost.
Make(s, k) ==
    /\ op[s].at = MakeAt[k]
    /\ \/ /\ world' = world \cup {<<s, k>>}
          /\ Ask(s, CheckAt[k])
          /\ UNCHANGED faults
       \/ Fault /\ Goto(s, "rollback") /\ UNCHANGED world
       \/ Fault /\ Ask(s, "ambiguous") /\ world' \in {world, world \cup {<<s, k>>}}
    /\ UNCHANGED <<observations, left>>

Check(s, k) ==
    /\ op[s].at = CheckAt[k]
    /\ IF ~op[s].failed /\ op[s].found[k] # None
       THEN op' = [op EXCEPT ![s].held[k] = op[s].found[k], ![s].at = AfterMake(k)]
       ELSE Ask(s, "ambiguous")
    /\ UNCHANGED <<world, observations, left, faults>>

ReconcileCreated(s) ==
    /\ op[s].at = "ambiguous"
    /\ op' = [op EXCEPT ![s].held = [k \in Kinds |-> IF @[k] # None THEN @[k] ELSE op[s].found[k]],
                        ![s].at = "rollback"]
    /\ UNCHANGED <<world, observations, left, faults>>

\* The service records the sandbox, or fails to and takes everything back.
Created(s) ==
    /\ op[s].at = "created"
    /\ \/ End(s, "ok") /\ UNCHANGED faults
       \/ Fault /\ Goto(s, "rollback")
    /\ UNCHANGED <<world, observations, left>>

Rollback(s) ==
    /\ op[s].at = "rollback"
    /\ IF Held(s) = {} THEN End(s, "failed") ELSE Goto(s, "remove")
    /\ UNCHANGED <<world, observations, left, faults>>

-----------------------------------------------------------------------------
(* remove(): container, volume, network, each against a new inventory      *)

NextHeld(s) ==
    CASE "container" \in Held(s) -> "container"
      [] "container" \notin Held(s) /\ "volume" \in Held(s) -> "volume"
      [] OTHER -> "network"

Remove(s) ==
    /\ op[s].at = "remove"
    /\ IF Held(s) # {}
       THEN Ask(s, "compare")
       ELSE IF op[s].role = "create" THEN End(s, "failed") ELSE Ask(s, "remaining")
    /\ UNCHANGED <<world, observations, left, faults>>

\* Mistake: the operation that failed is reported in place of its outcome.
UnfinishedRole(s) == op[s].role

Unfinished(s) == IF op[s].role = "create" THEN "left" ELSE "incomplete"

\* A mismatch ends the removal, and so does a command that fails; the delete
\* command may have had its effect when its result is lost.
Compare(s) ==
    LET k == NextHeld(s)
    IN  /\ op[s].at = "compare"
        /\ \/ /\ op[s].failed \/ op[s].found[k] # op[s].held[k]
              /\ End(s, Unfinished(s))
              /\ UNCHANGED <<world, faults>>
           \/ /\ ~op[s].failed /\ op[s].found[k] = op[s].held[k]
              /\ \/ world' = world \ {<<s, k>>} /\ Goto(s, "forget") /\ UNCHANGED faults
                 \/ Fault /\ End(s, Unfinished(s)) /\ world' \in {world, world \ {<<s, k>>}}
        /\ UNCHANGED <<observations, left>>

Forget(s) ==
    LET k == NextHeld(s)
    IN  /\ op[s].at = "forget"
        /\ observations' = [observations EXCEPT ![<<s, k>>] = None]
        /\ op' = [op EXCEPT ![s].held[k] = None, ![s].at = "remove"]
        /\ UNCHANGED <<world, left, faults>>

-----------------------------------------------------------------------------
(* destroy: what is listed now, and nothing of it may remain               *)

Expected(s) ==
    /\ op[s].at = "expected"
    /\ IF op[s].failed
       THEN End(s, "incomplete")
       ELSE op' = [op EXCEPT ![s].held = op[s].found, ![s].at = "remove"]
    /\ UNCHANGED <<world, observations, left, faults>>

Remaining(s) ==
    /\ op[s].at = "remaining"
    /\ End(s, IF op[s].failed \/ \E k \in Kinds : op[s].found[k] # None THEN "incomplete" ELSE "destroyed")
    /\ UNCHANGED <<world, observations, left, faults>>

Next ==
    \E s \in Sandboxes :
       \/ \E role \in {"create", "destroy"} : Begin(s, role)
       \/ \E k \in Kinds : List(s, k) \/ Make(s, k) \/ Check(s, k)
       \/ Reconcile(s) \/ Before(s) \/ ReconcileCreated(s) \/ Created(s) \/ Rollback(s)
       \/ Remove(s) \/ Compare(s) \/ Forget(s) \/ Expected(s) \/ Remaining(s)

Spec == Init /\ [][Next]_vars

-----------------------------------------------------------------------------
(* Properties                                                              *)

\* A failed create names everything it made and nothing else: whatever one
\* command did or whichever listing failed, the evidence create() returns is
\* what now exists under this sandbox's labels.
EvidenceIsComplete ==
    \A s \in Sandboxes : op[s].at = "rollback" => Held(s) = Own(s)

\* The rollback of a failed create deletes every resource of its evidence: no
\* `up` that failed leaves a network, a volume or a container behind.
RollbackLeavesNothing ==
    \A s \in Sandboxes : op[s].result \in {"failed", "left"} => Own(s) = {}
=============================================================================
