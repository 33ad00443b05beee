------------------------------- MODULE Store -------------------------------
(***************************************************************************)
(* The daemon's SQLite store (crates/gascand/src/store.rs): one row per    *)
(* sandbox, one row per durable operation, and the append-only log of      *)
(* operation events.  Every method of the store is one transaction, so     *)
(* every one of them is one step here: a predicate says when the           *)
(* transaction commits (the method returns Ok), an action says what it     *)
(* writes.  A refused transaction writes nothing.                          *)
(*                                                                         *)
(* A row keeps the columns the service reads back.  The setup and the tool *)
(* resolution are always written together and with one fingerprint, so     *)
(* they are one field; the SSH columns are not modelled.                   *)
(***************************************************************************)
EXTENDS Integers, Sequences

CONSTANTS
    Sandboxes,   \* sandbox ids (crates/gascan-core/src/sandbox.rs)
    Roots,       \* canonical workspace roots
    Images,      \* immutable, digest-qualified workspace image references
    Manifests,   \* desired fingerprints: manifest, tools and setup script
    None,        \* an absent value: a NULL column, a fingerprint not given
    NoRow        \* "the table has no row for this id"

ASSUME NoneAssumption == None \notin Manifests

VARIABLES
    rows,        \* table sandboxes
    ops          \* tables operations and operation_events; an id is an index

storeVars == <<rows, ops>>

DesiredState == {"Absent", "Running", "Stopped"}

ActualState == {"Absent", "Creating", "Running", "Stopped", "Destroying"}

OperationKind == {"Create", "Apply", "Start", "Stop", "Destroy", "Reconcile"}

OperationStatus == {"Pending", "Completed", "Failed"}

\* The phases of progress events that something in the daemon reads back, and
\* "none" for an event without details.
Phase == {"none", "apply_required", "before_provision", "after_provision",
          "before_health", "after_health"}

SandboxRecord ==
    [root : Roots, desired : DesiredState, actual : ActualState,
     image : Images, resolved : Manifests \cup {None}, storage : BOOLEAN]

ASSUME NoRowAssumption == NoRow \notin SandboxRecord

OperationEvent ==
    [status : OperationStatus, phase : Phase, print : Manifests \cup {None}]

OperationRecord ==
    [sandbox : Sandboxes, kind : OperationKind, status : OperationStatus,
     events : Seq(OperationEvent)]

Event(status, phase, print) ==
    [status |-> status, phase |-> phase, print |-> print]

-----------------------------------------------------------------------------
(* Transition tables *)

ActualEdges ==
    {<<"Absent", "Creating">>, <<"Creating", "Running">>,
     <<"Creating", "Stopped">>, <<"Running", "Stopped">>,
     <<"Running", "Destroying">>, <<"Stopped", "Running">>,
     <<"Stopped", "Destroying">>, <<"Destroying", "Absent">>}

ValidActual(from, to) == from = to \/ <<from, to>> \in ActualEdges

\* What a failed operation may additionally undo.
RollbackEdges ==
    {<<"Create", "Creating", "Absent">>, <<"Destroy", "Destroying", "Running">>,
     <<"Destroy", "Destroying", "Stopped">>}

\* Mistake: a terminal operation may be ended again.
ValidOperationAgain(from, to) == to \in {"Completed", "Failed"}

ValidOperation(from, to) == from = "Pending" /\ to \in {"Completed", "Failed"}

\* Mistake: a failure may record any state.
ValidTerminalActualAny(from, to, kind, status) ==
    ValidActual(from, to) \/ status = "Failed"

ValidTerminalActual(from, to, kind, status) ==
    \/ ValidActual(from, to)
    \/ status = "Failed" /\ <<kind, from, to>> \in RollbackEdges

-----------------------------------------------------------------------------
(* Transactions *)

HasPending(s) ==
    \E i \in 1..Len(ops) : ops[i].sandbox = s /\ ops[i].status = "Pending"

PutAccepted(s, row) ==
    /\ rows[s] # NoRow => /\ rows[s].root = row.root
                          /\ ValidActual(rows[s].actual, row.actual)
    /\ \A t \in Sandboxes \ {s} : rows[t] # NoRow => rows[t].root # row.root

PutSandbox(s, row) ==
    /\ PutAccepted(s, row)
    /\ rows' = [rows EXCEPT ![s] = row]
    /\ UNCHANGED ops

BeginAccepted(s, row) == PutAccepted(s, row) /\ ~HasPending(s)

NewOperation(s, kind) ==
    [sandbox |-> s, kind |-> kind, status |-> "Pending",
     events |-> <<Event("Pending", "none", None)>>]

BeginOperation(s, row, kind) ==
    /\ BeginAccepted(s, row)
    /\ rows' = [rows EXCEPT ![s] = row]
    /\ ops' = Append(ops, NewOperation(s, kind))

AppendAccepted(i) == ops[i].status = "Pending"

AppendOperationEvent(i, phase, print) ==
    /\ AppendAccepted(i)
    /\ ops' = [ops EXCEPT ![i].events =
                  Append(@, Event("Pending", phase, print))]
    /\ UNCHANGED rows

FinishAccepted(i, actual, status) ==
    /\ ValidOperation(ops[i].status, status)
    /\ rows[ops[i].sandbox] # NoRow
    /\ ValidTerminalActual(rows[ops[i].sandbox].actual, actual, ops[i].kind, status)

\* Mistake: the two columns are swapped.
FinishOperationSwapped(i, actual, status) ==
    /\ FinishAccepted(i, actual, status)
    /\ rows' = [rows EXCEPT ![ops[i].sandbox].actual = status]
    /\ ops' = [ops EXCEPT ![i].status = actual]

FinishOperation(i, actual, status) ==
    /\ FinishAccepted(i, actual, status)
    /\ rows' = [rows EXCEPT ![ops[i].sandbox].actual = actual]
    /\ ops' = [ops EXCEPT ![i].status = status,
                          ![i].events = Append(@, Event(status, "none", None))]

StoreInit ==
    /\ rows = [s \in Sandboxes |-> NoRow]
    /\ ops = <<>>

\* Any transaction, with any arguments.
Transaction ==
    \/ \E s \in Sandboxes, row \in SandboxRecord : PutSandbox(s, row)
    \/ \E s \in Sandboxes, row \in SandboxRecord, kind \in OperationKind :
          BeginOperation(s, row, kind)
    \/ \E i \in 1..Len(ops), phase \in Phase, print \in Manifests \cup {None} :
          AppendOperationEvent(i, phase, print)
    \/ \E i \in 1..Len(ops), actual \in ActualState, status \in OperationStatus :
          FinishOperation(i, actual, status)

\* The store under a caller of which nothing is known: what holds here holds
\* whatever the service above the store does.
AnyCaller == StoreInit /\ [][Transaction]_storeVars

-----------------------------------------------------------------------------
(* Properties *)

\* The two tables hold well-formed rows (the CHECK constraints and the
\* *_from_db conversions of store.rs accept everything that was written).
StoreTypeOK ==
    /\ rows \in [Sandboxes -> SandboxRecord \cup {NoRow}]
    /\ ops \in Seq(OperationRecord)

\* A sandbox never has two pending operations: begin_operation's check and
\* the partial unique index agree, so recovery never has to choose.
OnePending ==
    \A i, j \in 1..Len(ops) :
        /\ ops[i].status = "Pending" /\ ops[j].status = "Pending"
        /\ ops[i].sandbox = ops[j].sandbox
        => i = j

\* The event log tells the same story as the operation row: every event but
\* the last is a progress event, and the last one carries the status of the
\* operation, so a terminal event exists exactly when the row is terminal.
JournalAgreesWithStatus ==
    \A i \in 1..Len(ops) :
        LET events == ops[i].events IN
        /\ events # <<>>
        /\ \A k \in 1..(Len(events) - 1) : events[k].status = "Pending"
        /\ events[Len(events)].status = ops[i].status

\* Every operation refers to a sandbox that has a row, so the lookup inside
\* finish_operation and the one in recovery always find it.
OperationsHaveRows ==
    \A i \in 1..Len(ops) : rows[ops[i].sandbox] # NoRow

\* Two sandboxes never share a canonical root, whatever sequence of puts and
\* begins was accepted (DuplicateCanonicalRoot, DuplicateSandboxId).
UniqueRoots ==
    \A s, t \in Sandboxes :
        /\ rows[s] # NoRow /\ rows[t] # NoRow
        /\ rows[s].root = rows[t].root
        => s = t

\* What the store promises of every state it can be read in.
StoreConsistent ==
    StoreTypeOK /\ OnePending /\ JournalAgreesWithStatus /\ OperationsHaveRows /\ UniqueRoots

\* What a step may do to the journal.
JournalGrows ==
    /\ Len(ops) <= Len(ops')
    /\ \A i \in 1..Len(ops) :
          /\ ops'[i].sandbox = ops[i].sandbox /\ ops'[i].kind = ops[i].kind
          /\ Len(ops[i].events) <= Len(ops'[i].events)
          /\ \A k \in 1..Len(ops[i].events) : ops'[i].events[k] = ops[i].events[k]
          /\ ops[i].status # "Pending" => ops'[i] = ops[i]

\* The journal only grows: no step removes or reorders operations or events,
\* and an operation that is completed or failed is never touched again.
JournalAppendOnly == [][JournalGrows]_storeVars

\* What a step may not do to a row.
LiveIsKept ==
    \A s \in Sandboxes :
        rows[s] # NoRow /\ rows[s].actual \in {"Running", "Stopped"} =>
            rows'[s] # NoRow /\ rows'[s].actual # "Absent"

\* A sandbox recorded as running or stopped is never recorded as absent in one
\* step: the only ways to Absent are a destroy in progress and the rollback of
\* a create (the state diagram of the design, and the transition tables).
LiveNeverVanishes == [][LiveIsKept]_storeVars

=============================================================================
