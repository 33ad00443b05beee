-------------------------------- MODULE Gate --------------------------------
(***************************************************************************)
(* What the daemon promises about durable operations at its end, without   *)
(* saying how: operations enter while the gate is open, nothing enters     *)
(* once it is shut, and the daemon is done only when everyone has left.    *)
(***************************************************************************)
CONSTANT Calls       \* the durable operations clients ask for

VARIABLES
    open,            \* operations are admitted
    inside,          \* the operations that are running
    done             \* the daemon has given up on running anything

gateVars == <<open, inside, done>>

GateInit ==
    /\ open = TRUE
    /\ inside = {}
    /\ done = FALSE

Enter(c) ==
    /\ open
    /\ inside' = inside \cup {c}
    /\ UNCHANGED <<open, done>>

Leave(c) ==
    /\ inside' = inside \ {c}
    /\ UNCHANGED <<open, done>>

Shut ==
    /\ open' = FALSE
    /\ UNCHANGED <<inside, done>>

Finish ==
    /\ ~open /\ inside = {}
    /\ done' = TRUE
    /\ UNCHANGED <<open, inside>>

GateNext ==
    \/ \E c \in Calls : Enter(c) \/ Leave(c)
    \/ Shut
    \/ Finish

GateSpec == GateInit /\ [][GateNext]_gateVars

=============================================================================
