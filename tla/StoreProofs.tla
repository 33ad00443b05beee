---------------------------- MODULE StoreProofs ----------------------------
(***************************************************************************)
(* The store's guarantees, proved for any numbers of sandboxes, roots,     *)
(* operations and events and for every caller.                             *)
(***************************************************************************)
EXTENDS Store, TLAPS

LOCAL INSTANCE WellFoundedInduction

-----------------------------------------------------------------------------
(* Ids *)

\* A non-empty set of ids has a least one, the one that an ORDER BY id puts
\* first.
LEMMA LeastExists ==
    ASSUME NEW S, S \subseteq Nat, S # {}
    PROVE  \E x \in S : \A y \in S : x <= y
<1> DEFINE R == OpToRel(<, Nat)
<1>1. \A x, y \in Nat : y < x => <<y, x>> \in R
  BY DEF OpToRel
<1>2. \E x \in S : \A y \in S : ~(<<y, x>> \in R)
  BY NatLessThanWellFounded, WFMin
<1> HIDE DEF R
<1>3. PICK x \in S : \A y \in S : ~(<<y, x>> \in R)
  BY <1>2
<1>4. ASSUME NEW y \in S PROVE x <= y
  <2>1. x \in Nat /\ y \in Nat
    OBVIOUS
  <2>2. ~(y < x)
    BY <1>1, <1>3, <2>1, Zenon
  <2> QED
    BY <2>1, <2>2
<1> QED
  BY <1>4

-----------------------------------------------------------------------------
(* Events and operations are well formed *)

\* The events that the store builds are events of the log.
LEMMA EventType ==
    ASSUME NEW status \in OperationStatus, NEW phase \in Phase,
           NEW print \in Manifests \cup {None}
    PROVE  Event(status, phase, print) \in OperationEvent
BY DEF Event, OperationEvent

\* begin_operation inserts a well-formed operation.
LEMMA NewOperationType ==
    ASSUME NEW s \in Sandboxes, NEW kind \in OperationKind
    PROVE  NewOperation(s, kind) \in OperationRecord
<1>1. Event("Pending", "none", None) \in OperationEvent
  BY EventType DEF OperationStatus, Phase
<1>2. <<Event("Pending", "none", None)>> \in Seq(OperationEvent)
  BY <1>1
<1> QED
  BY <1>2 DEF NewOperation, OperationRecord, OperationStatus

-----------------------------------------------------------------------------
(* What each transaction does to the operations and to the rows *)

\* An operation of a well-formed table is well formed.
LEMMA OperationType ==
    ASSUME StoreTypeOK, NEW i \in 1..Len(ops)
    PROVE  /\ ops[i] \in OperationRecord
           /\ ops[i].sandbox \in Sandboxes
           /\ ops[i].status \in OperationStatus
           /\ ops[i].events \in Seq(OperationEvent)
<1>1. ops[i] \in OperationRecord
  BY DEF StoreTypeOK
<1> QED
  BY <1>1 DEF OperationRecord

\* An operation whose log is replaced is well formed and keeps the rest.
LEMMA ExtendedOperation ==
    ASSUME NEW op \in OperationRecord, NEW events \in Seq(OperationEvent)
    PROVE  LET new == [op EXCEPT !.events = events] IN
           /\ new \in OperationRecord
           /\ new.sandbox = op.sandbox /\ new.kind = op.kind
           /\ new.status = op.status /\ new.events = events
<1> DEFINE log == Seq(OperationEvent)
<1>1. events \in log
  OBVIOUS
<1>2. op \in [sandbox : Sandboxes, kind : OperationKind, status : OperationStatus,
              events : log]
  BY DEF OperationRecord
<1> HIDE DEF log
<1>3. [op EXCEPT !.events = events] \in
         [sandbox : Sandboxes, kind : OperationKind, status : OperationStatus, events : log]
  BY <1>1, <1>2
<1>4. LET new == [op EXCEPT !.events = events] IN
      /\ new.sandbox = op.sandbox /\ new.kind = op.kind
      /\ new.status = op.status /\ new.events = events
  BY <1>2
<1> QED
  BY <1>3, <1>4 DEF log, OperationRecord

\* begin_operation appends one pending operation and writes one row.
LEMMA BeginStep ==
    ASSUME StoreTypeOK, NEW s \in Sandboxes, NEW row \in SandboxRecord,
           NEW kind \in OperationKind, BeginOperation(s, row, kind)
    PROVE  /\ rows' = [rows EXCEPT ![s] = row]
           /\ ops' \in Seq(OperationRecord)
           /\ Len(ops') = Len(ops) + 1 /\ Len(ops) \in Nat
           /\ \A j \in 1..Len(ops) : ops'[j] = ops[j]
           /\ ops'[Len(ops) + 1].sandbox = s /\ ops'[Len(ops) + 1].kind = kind
           /\ ops'[Len(ops) + 1].status = "Pending"
           /\ ops'[Len(ops) + 1].events = <<Event("Pending", "none", None)>>
<1> DEFINE new == NewOperation(s, kind)
<1>1. new \in OperationRecord
  BY NewOperationType
<1>2. /\ new.sandbox = s /\ new.kind = kind /\ new.status = "Pending"
      /\ new.events = <<Event("Pending", "none", None)>>
  BY DEF NewOperation
<1>3. rows' = [rows EXCEPT ![s] = row] /\ ops' = Append(ops, new)
  BY DEF BeginOperation
<1> HIDE DEF new
<1>4. /\ ops' \in Seq(OperationRecord)
      /\ Len(ops') = Len(ops) + 1 /\ Len(ops) \in Nat
      /\ \A j \in 1..Len(ops) : ops'[j] = ops[j]
      /\ ops'[Len(ops) + 1] = new
  BY <1>1, <1>3 DEF StoreTypeOK
<1> QED
  BY <1>2, <1>3, <1>4

\* append_operation_event changes one pending operation, by one event.
LEMMA AppendStep ==
    ASSUME StoreTypeOK, NEW i \in 1..Len(ops), NEW phase \in Phase,
           NEW print \in Manifests \cup {None},
           AppendOperationEvent(i, phase, print)
    PROVE  /\ rows' = rows
           /\ ops[i].status = "Pending"
           /\ ops' \in Seq(OperationRecord)
           /\ Len(ops') = Len(ops)
           /\ \A j \in 1..Len(ops) : j # i => ops'[j] = ops[j]
           /\ ops'[i].sandbox = ops[i].sandbox /\ ops'[i].kind = ops[i].kind
           /\ ops'[i].status = ops[i].status
           /\ ops'[i].events = Append(ops[i].events, Event("Pending", phase, print))
<1> DEFINE op == ops[i]
           log == Append(ops[i].events, Event("Pending", phase, print))
           new == [op EXCEPT !.events = log]
<1>1. Event("Pending", phase, print) \in OperationEvent
  BY EventType DEF OperationStatus
<1>2. op \in OperationRecord /\ log \in Seq(OperationEvent)
  BY <1>1, OperationType
<1>3. ops' = [ops EXCEPT ![i] = new] /\ rows' = rows /\ ops[i].status = "Pending"
  BY DEF AppendOperationEvent, AppendAccepted
<1> HIDE DEF op, log
<1>4. /\ new \in OperationRecord
      /\ new.sandbox = op.sandbox /\ new.kind = op.kind
      /\ new.status = op.status /\ new.events = log
  BY <1>2, ExtendedOperation, Zenon
<1> HIDE DEF new
<1>5. /\ ops' \in Seq(OperationRecord) /\ Len(ops') = Len(ops) /\ ops'[i] = new
      /\ \A j \in 1..Len(ops) : j # i => ops'[j] = ops[j]
  BY <1>3, <1>4 DEF StoreTypeOK
<1> QED
  BY <1>3, <1>4, <1>5 DEF op, log

\* finish_operation ends one pending operation and records the state.
LEMMA FinishStep ==
    ASSUME StoreTypeOK, NEW i \in 1..Len(ops), NEW actual \in ActualState,
           NEW status \in OperationStatus, FinishOperation(i, actual, status)
    PROVE  /\ ops[i].status = "Pending" /\ status \in {"Completed", "Failed"}
           /\ rows[ops[i].sandbox] \in SandboxRecord
           /\ rows' \in [Sandboxes -> SandboxRecord \cup {NoRow}]
           /\ \A s \in Sandboxes : s # ops[i].sandbox => rows'[s] = rows[s]
           /\ rows'[ops[i].sandbox] \in SandboxRecord
           /\ rows'[ops[i].sandbox].root = rows[ops[i].sandbox].root
           /\ rows'[ops[i].sandbox].actual = actual
           /\ ops' \in Seq(OperationRecord)
           /\ Len(ops') = Len(ops)
           /\ \A j \in 1..Len(ops) : j # i => ops'[j] = ops[j]
           /\ ops'[i].sandbox = ops[i].sandbox /\ ops'[i].kind = ops[i].kind
           /\ ops'[i].status = status
           /\ ops'[i].events = Append(ops[i].events, Event(status, "none", None))
<1> DEFINE s == ops[i].sandbox
           row == [rows[s] EXCEPT !.actual = actual]
           op == ops[i]
           log == Append(ops[i].events, Event(status, "none", None))
           new == [op EXCEPT !.status = status, !.events = log]
<1>1. Event(status, "none", None) \in OperationEvent
  BY EventType DEF Phase
<1>2. op \in OperationRecord /\ log \in Seq(OperationEvent)
  BY <1>1, OperationType
<1>3. /\ new \in OperationRecord
      /\ new.sandbox = op.sandbox /\ new.kind = op.kind
      /\ new.status = status /\ new.events = log
  <2> DEFINE logs == Seq(OperationEvent)
  <2>1. /\ log \in logs
        /\ op \in [sandbox : Sandboxes, kind : OperationKind,
                   status : OperationStatus, events : logs]
    BY <1>2 DEF OperationRecord
  <2> HIDE DEF op, log, logs
  <2>2. new \in [sandbox : Sandboxes, kind : OperationKind,
                 status : OperationStatus, events : logs]
    BY <2>1
  <2>3. /\ new.sandbox = op.sandbox /\ new.kind = op.kind
        /\ new.status = status /\ new.events = log
    BY <2>1
  <2> QED
    BY <2>2, <2>3 DEF logs, OperationRecord
<1>4. s \in Sandboxes
  BY OperationType
<1>5. rows[s] \in SandboxRecord
  BY <1>4 DEF FinishOperation, FinishAccepted, StoreTypeOK
<1>6. row \in SandboxRecord /\ row.root = rows[s].root /\ row.actual = actual
  BY <1>5 DEF SandboxRecord
<1>7. ops[i].status = "Pending" /\ status \in {"Completed", "Failed"}
  BY DEF FinishOperation, FinishAccepted, ValidOperation
<1>8. rows' = [rows EXCEPT ![s] = row] /\ ops' = [ops EXCEPT ![i] = new]
  BY DEF FinishOperation
<1> HIDE DEF row, op, log, new
<1>9. /\ ops' \in Seq(OperationRecord) /\ Len(ops') = Len(ops) /\ ops'[i] = new
      /\ \A j \in 1..Len(ops) : j # i => ops'[j] = ops[j]
  BY <1>3, <1>8 DEF StoreTypeOK
<1>10. /\ rows' \in [Sandboxes -> SandboxRecord \cup {NoRow}]
       /\ rows'[s] = row
       /\ \A t \in Sandboxes : t # s => rows'[t] = rows[t]
  BY <1>4, <1>6, <1>8 DEF StoreTypeOK
<1> QED
  BY <1>3, <1>5, <1>6, <1>7, <1>9, <1>10 DEF op, log

\* Every step of a caller is one of the four transactions on some arguments.
LEMMA StoreSteps ==
    ASSUME [Transaction]_storeVars
    PROVE  \/ \E s \in Sandboxes, row \in SandboxRecord : PutSandbox(s, row)
           \/ \E s \in Sandboxes, row \in SandboxRecord, kind \in OperationKind :
                 BeginOperation(s, row, kind)
           \/ \E i \in 1..Len(ops), phase \in Phase, print \in Manifests \cup {None} :
                 AppendOperationEvent(i, phase, print)
           \/ \E i \in 1..Len(ops), actual \in ActualState, status \in OperationStatus :
                 FinishOperation(i, actual, status)
           \/ rows' = rows /\ ops' = ops
BY DEF Transaction, storeVars

-----------------------------------------------------------------------------
(* Type correctness *)

\* The tables stay well formed through every transaction of store.rs.
LEMMA StoreTypeStep == StoreTypeOK /\ [Transaction]_storeVars => StoreTypeOK'
<1> SUFFICES ASSUME StoreTypeOK, [Transaction]_storeVars PROVE StoreTypeOK'
  OBVIOUS
<1>1. CASE \E s \in Sandboxes, row \in SandboxRecord : PutSandbox(s, row)
  BY <1>1 DEF PutSandbox, StoreTypeOK
<1>2. CASE \E s \in Sandboxes, row \in SandboxRecord, kind \in OperationKind :
              BeginOperation(s, row, kind)
  BY <1>2, BeginStep DEF StoreTypeOK
<1>3. CASE \E i \in 1..Len(ops), phase \in Phase, print \in Manifests \cup {None} :
              AppendOperationEvent(i, phase, print)
  BY <1>3, AppendStep DEF StoreTypeOK
<1>4. CASE \E i \in 1..Len(ops), actual \in ActualState, status \in OperationStatus :
              FinishOperation(i, actual, status)
  BY <1>4, FinishStep DEF StoreTypeOK
<1>5. CASE rows' = rows /\ ops' = ops
  BY <1>5 DEF StoreTypeOK
<1> QED
  BY <1>1, <1>2, <1>3, <1>4, <1>5, StoreSteps

\* Whatever a caller does, every table row is well formed.
THEOREM StoreTypeCorrect == AnyCaller => []StoreTypeOK
<1>1. StoreInit => StoreTypeOK
  BY DEF StoreInit, StoreTypeOK
<1> QED
  BY <1>1, StoreTypeStep, PTL DEF AnyCaller

-----------------------------------------------------------------------------
(* The invariants, each of which is inductive beside the types *)

\* begin_operation refuses a second pending operation, and no other
\* transaction makes an operation pending.
LEMMA OnePendingStep ==
    StoreTypeOK /\ OnePending /\ [Transaction]_storeVars => OnePending'
<1> SUFFICES ASSUME StoreTypeOK, OnePending, [Transaction]_storeVars PROVE OnePending'
  OBVIOUS
<1>1. CASE \E s \in Sandboxes, row \in SandboxRecord : PutSandbox(s, row)
  BY <1>1 DEF PutSandbox, OnePending
<1>2. CASE \E s \in Sandboxes, row \in SandboxRecord, kind \in OperationKind :
              BeginOperation(s, row, kind)
  <2>1. PICK s \in Sandboxes, row \in SandboxRecord, kind \in OperationKind :
                BeginOperation(s, row, kind)
    BY <1>2
  <2>2. \A i \in 1..Len(ops) : ~(ops[i].sandbox = s /\ ops[i].status = "Pending")
    BY <2>1 DEF BeginOperation, BeginAccepted, HasPending
  <2>3. /\ Len(ops') = Len(ops) + 1 /\ Len(ops) \in Nat
        /\ \A j \in 1..Len(ops) : ops'[j] = ops[j]
        /\ ops'[Len(ops) + 1].sandbox = s
    BY <2>1, BeginStep
  <2> QED
    BY <2>2, <2>3 DEF OnePending
<1>3. CASE \E i \in 1..Len(ops), phase \in Phase, print \in Manifests \cup {None} :
              AppendOperationEvent(i, phase, print)
  <2>1. PICK i \in 1..Len(ops), phase \in Phase, print \in Manifests \cup {None} :
                AppendOperationEvent(i, phase, print)
    BY <1>3
  <2>2. /\ Len(ops') = Len(ops)
        /\ \A j \in 1..Len(ops) :
              ops'[j].sandbox = ops[j].sandbox /\ ops'[j].status = ops[j].status
    BY <2>1, AppendStep
  <2> QED
    BY <2>2 DEF OnePending
<1>4. CASE \E i \in 1..Len(ops), actual \in ActualState, status \in OperationStatus :
              FinishOperation(i, actual, status)
  <2>1. PICK i \in 1..Len(ops), actual \in ActualState, status \in OperationStatus :
                FinishOperation(i, actual, status)
    BY <1>4
  <2>2. /\ Len(ops') = Len(ops) /\ ops'[i].status # "Pending"
        /\ \A j \in 1..Len(ops) : j # i => ops'[j] = ops[j]
    BY <2>1, FinishStep
  <2> QED
    BY <2>2 DEF OnePending
<1>5. CASE rows' = rows /\ ops' = ops
  BY <1>5 DEF OnePending
<1> QED
  BY <1>1, <1>2, <1>3, <1>4, <1>5, StoreSteps

\* Rows are never deleted, and an operation is only inserted with its row.
LEMMA OperationsHaveRowsStep ==
    StoreTypeOK /\ OperationsHaveRows /\ [Transaction]_storeVars => OperationsHaveRows'
<1> SUFFICES ASSUME StoreTypeOK, OperationsHaveRows, [Transaction]_storeVars
             PROVE  OperationsHaveRows'
  OBVIOUS
<1>1. CASE \E s \in Sandboxes, row \in SandboxRecord : PutSandbox(s, row)
  BY <1>1, OperationType, NoRowAssumption DEF PutSandbox, OperationsHaveRows, StoreTypeOK
<1>2. CASE \E s \in Sandboxes, row \in SandboxRecord, kind \in OperationKind :
              BeginOperation(s, row, kind)
  <2>1. PICK s \in Sandboxes, row \in SandboxRecord, kind \in OperationKind :
                BeginOperation(s, row, kind)
    BY <1>2
  <2>2. /\ Len(ops') = Len(ops) + 1 /\ Len(ops) \in Nat
        /\ \A j \in 1..Len(ops) : ops'[j] = ops[j]
        /\ ops'[Len(ops) + 1].sandbox = s
        /\ rows' = [rows EXCEPT ![s] = row]
    BY <2>1, BeginStep
  <2>3. \A t \in Sandboxes : rows[t] # NoRow => rows'[t] # NoRow
    BY <2>2, NoRowAssumption DEF StoreTypeOK
  <2>4. rows'[s] # NoRow
    BY <2>2, NoRowAssumption DEF StoreTypeOK
  <2> QED
    BY <2>2, <2>3, <2>4, OperationType DEF OperationsHaveRows
<1>3. CASE \E i \in 1..Len(ops), phase \in Phase, print \in Manifests \cup {None} :
              AppendOperationEvent(i, phase, print)
  BY <1>3, AppendStep DEF OperationsHaveRows
<1>4. CASE \E i \in 1..Len(ops), actual \in ActualState, status \in OperationStatus :
              FinishOperation(i, actual, status)
  BY <1>4, FinishStep, OperationType, NoRowAssumption DEF OperationsHaveRows
<1>5. CASE rows' = rows /\ ops' = ops
  BY <1>5 DEF OperationsHaveRows
<1> QED
  BY <1>1, <1>2, <1>3, <1>4, <1>5, StoreSteps

\* A row that the store accepts shares its root with no other row, and ending
\* an operation does not change a root.
LEMMA UniqueRootsStep ==
    StoreTypeOK /\ UniqueRoots /\ [Transaction]_storeVars => UniqueRoots'
<1> SUFFICES ASSUME StoreTypeOK, UniqueRoots, [Transaction]_storeVars PROVE UniqueRoots'
  OBVIOUS
<1>1. ASSUME NEW s \in Sandboxes, NEW row \in SandboxRecord, PutAccepted(s, row),
             rows' = [rows EXCEPT ![s] = row]
      PROVE  UniqueRoots'
  BY <1>1 DEF PutAccepted, UniqueRoots, StoreTypeOK
<1>2. CASE \E s \in Sandboxes, row \in SandboxRecord : PutSandbox(s, row)
  BY <1>1, <1>2 DEF PutSandbox
<1>3. CASE \E s \in Sandboxes, row \in SandboxRecord, kind \in OperationKind :
              BeginOperation(s, row, kind)
  BY <1>1, <1>3 DEF BeginOperation, BeginAccepted
<1>4. CASE \E i \in 1..Len(ops), phase \in Phase, print \in Manifests \cup {None} :
              AppendOperationEvent(i, phase, print)
  BY <1>4 DEF AppendOperationEvent, UniqueRoots
<1>5. CASE \E i \in 1..Len(ops), actual \in ActualState, status \in OperationStatus :
              FinishOperation(i, actual, status)
  BY <1>5, FinishStep, OperationType, NoRowAssumption DEF UniqueRoots
<1>6. CASE rows' = rows /\ ops' = ops
  BY <1>6 DEF UniqueRoots
<1> QED
  BY <1>2, <1>3, <1>4, <1>5, <1>6, StoreSteps

\* What JournalAgreesWithStatus says of one operation.
Agrees(events, status) ==
    /\ events # <<>>
    /\ \A k \in 1..(Len(events) - 1) : events[k].status = "Pending"
    /\ events[Len(events)].status = status

\* The log of a pending operation, extended by an event, agrees with the
\* status of that event.
LEMMA AgreesAppend ==
    ASSUME NEW events \in Seq(OperationEvent), Agrees(events, "Pending"),
           NEW event \in OperationEvent
    PROVE  Agrees(Append(events, event), event.status)
<1> DEFINE longer == Append(events, event)
<1>1. /\ Len(longer) = Len(events) + 1 /\ Len(events) \in Nat
      /\ \A k \in 1..Len(events) : longer[k] = events[k]
      /\ longer[Len(longer)] = event
  OBVIOUS
<1>2. \A k \in 1..Len(events) : events[k].status = "Pending"
  BY <1>1 DEF Agrees
<1>3. longer # <<>>
  BY <1>1
<1> HIDE DEF longer
<1>4. Agrees(longer, event.status)
  BY <1>1, <1>2, <1>3 DEF Agrees
<1> QED
  BY <1>4 DEF longer

\* Progress events are only appended to a pending operation, and the terminal
\* event is written in the transaction that ends it.
LEMMA JournalStep ==
    StoreTypeOK /\ JournalAgreesWithStatus /\ [Transaction]_storeVars
        => JournalAgreesWithStatus'
<1> SUFFICES ASSUME StoreTypeOK, \A j \in 1..Len(ops) : Agrees(ops[j].events, ops[j].status),
                    [Transaction]_storeVars
             PROVE  \A j \in 1..Len(ops') : Agrees(ops'[j].events, ops'[j].status)
  BY DEF JournalAgreesWithStatus, Agrees
<1>1. CASE \E s \in Sandboxes, row \in SandboxRecord : PutSandbox(s, row)
  BY <1>1 DEF PutSandbox
<1>2. CASE \E s \in Sandboxes, row \in SandboxRecord, kind \in OperationKind :
              BeginOperation(s, row, kind)
  <2>1. Agrees(<<Event("Pending", "none", None)>>, "Pending")
    BY DEF Agrees, Event
  <2>2. /\ Len(ops') = Len(ops) + 1 /\ Len(ops) \in Nat
        /\ \A j \in 1..Len(ops) : ops'[j] = ops[j]
        /\ ops'[Len(ops) + 1].status = "Pending"
        /\ ops'[Len(ops) + 1].events = <<Event("Pending", "none", None)>>
    BY <1>2, BeginStep
  <2> QED
    BY <2>1, <2>2
<1>3. CASE \E i \in 1..Len(ops), phase \in Phase, print \in Manifests \cup {None} :
              AppendOperationEvent(i, phase, print)
  <2>1. PICK i \in 1..Len(ops), phase \in Phase, print \in Manifests \cup {None} :
                AppendOperationEvent(i, phase, print)
    BY <1>3
  <2> DEFINE event == Event("Pending", phase, print)
  <2>2. event \in OperationEvent /\ event.status = "Pending"
    BY EventType DEF OperationStatus, Event
  <2>3. /\ Len(ops') = Len(ops) /\ ops[i].status = "Pending" /\ ops'[i].status = "Pending"
        /\ ops'[i].events = Append(ops[i].events, event)
        /\ \A j \in 1..Len(ops) : j # i => ops'[j] = ops[j]
    BY <2>1, AppendStep
  <2>4. ops[i].events \in Seq(OperationEvent) /\ Agrees(ops[i].events, "Pending")
    BY <2>3, OperationType
  <2> HIDE DEF event
  <2>5. Agrees(Append(ops[i].events, event), "Pending")
    BY <2>2, <2>4, AgreesAppend
  <2> QED
    BY <2>3, <2>5
<1>4. CASE \E i \in 1..Len(ops), actual \in ActualState, status \in OperationStatus :
              FinishOperation(i, actual, status)
  <2>1. PICK i \in 1..Len(ops), actual \in ActualState, status \in OperationStatus :
                FinishOperation(i, actual, status)
    BY <1>4
  <2> DEFINE event == Event(status, "none", None)
  <2>2. event \in OperationEvent /\ event.status = status
    BY EventType DEF Phase, Event
  <2>3. /\ Len(ops') = Len(ops) /\ ops[i].status = "Pending" /\ ops'[i].status = status
        /\ ops'[i].events = Append(ops[i].events, event)
        /\ \A j \in 1..Len(ops) : j # i => ops'[j] = ops[j]
    BY <2>1, FinishStep
  <2>4. ops[i].events \in Seq(OperationEvent) /\ Agrees(ops[i].events, "Pending")
    BY <2>3, OperationType
  <2> HIDE DEF event
  <2>5. Agrees(Append(ops[i].events, event), status)
    BY <2>2, <2>4, AgreesAppend
  <2> QED
    BY <2>3, <2>5
<1>5. CASE rows' = rows /\ ops' = ops
  BY <1>5
<1> QED
  BY <1>1, <1>2, <1>3, <1>4, <1>5, StoreSteps

-----------------------------------------------------------------------------
(* The theorems *)

\* No sandbox ever has two pending operations.
THEOREM StoreOnePending == AnyCaller => []OnePending
<1>1. StoreInit => OnePending
  BY DEF StoreInit, OnePending
<1> QED
  BY <1>1, StoreTypeCorrect, OnePendingStep, PTL DEF AnyCaller

\* The log of an operation always agrees with its status.
THEOREM StoreJournalAgrees == AnyCaller => []JournalAgreesWithStatus
<1>1. StoreInit => JournalAgreesWithStatus
  BY DEF StoreInit, JournalAgreesWithStatus
<1> QED
  BY <1>1, StoreTypeCorrect, JournalStep, PTL DEF AnyCaller

\* Every operation refers to a row.
THEOREM StoreOperationsHaveRows == AnyCaller => []OperationsHaveRows
<1>1. StoreInit => OperationsHaveRows
  BY DEF StoreInit, OperationsHaveRows
<1> QED
  BY <1>1, StoreTypeCorrect, OperationsHaveRowsStep, PTL DEF AnyCaller

\* No two sandboxes share a root.
THEOREM StoreUniqueRoots == AnyCaller => []UniqueRoots
<1>1. StoreInit => UniqueRoots
  BY DEF StoreInit, UniqueRoots
<1> QED
  BY <1>1, StoreTypeCorrect, UniqueRootsStep, PTL DEF AnyCaller

\* A log that is extended keeps its beginning.
LEMMA AppendKeeps ==
    ASSUME NEW events \in Seq(OperationEvent), NEW event \in OperationEvent
    PROVE  /\ Len(events) <= Len(Append(events, event))
           /\ \A k \in 1..Len(events) : Append(events, event)[k] = events[k]
OBVIOUS

\* No transaction of store.rs rewrites the journal.
THEOREM StoreJournalAppendOnly == AnyCaller => JournalAppendOnly
<1>1. StoreTypeOK /\ [Transaction]_storeVars => [JournalGrows]_storeVars
  <2> SUFFICES ASSUME StoreTypeOK, [Transaction]_storeVars PROVE JournalGrows
    OBVIOUS
  <2> USE DEF JournalGrows
  <2>0. /\ Len(ops) \in Nat
        /\ \A i \in 1..Len(ops) : Len(ops[i].events) \in Nat
    BY OperationType DEF StoreTypeOK
  <2>1. CASE ops' = ops
    BY <2>0, <2>1
  <2>2. CASE \E s \in Sandboxes, row \in SandboxRecord, kind \in OperationKind :
                BeginOperation(s, row, kind)
    <3>1. Len(ops') = Len(ops) + 1 /\ \A j \in 1..Len(ops) : ops'[j] = ops[j]
      BY <2>2, BeginStep
    <3> QED
      BY <2>0, <3>1
  <2>3. ASSUME NEW i \in 1..Len(ops), NEW event \in OperationEvent,
               ops[i].status = "Pending", Len(ops') = Len(ops),
               \A j \in 1..Len(ops) : j # i => ops'[j] = ops[j],
               ops'[i].sandbox = ops[i].sandbox, ops'[i].kind = ops[i].kind,
               ops'[i].events = Append(ops[i].events, event)
        PROVE  JournalGrows
    <3>1. /\ Len(ops[i].events) <= Len(ops'[i].events)
          /\ \A k \in 1..Len(ops[i].events) : ops'[i].events[k] = ops[i].events[k]
      BY <2>3, AppendKeeps, OperationType
    <3>2. ASSUME NEW j \in 1..Len(ops)
          PROVE  /\ ops'[j].sandbox = ops[j].sandbox /\ ops'[j].kind = ops[j].kind
                 /\ Len(ops[j].events) <= Len(ops'[j].events)
                 /\ \A k \in 1..Len(ops[j].events) : ops'[j].events[k] = ops[j].events[k]
                 /\ ops[j].status # "Pending" => ops'[j] = ops[j]
      <4>1. CASE j = i
        BY <2>3, <3>1, <4>1
      <4>2. CASE j # i
        <5>1. ops'[j] = ops[j] /\ Len(ops[j].events) \in Nat
          BY <2>0, <2>3, <4>2
        <5> QED
          BY <5>1
      <4> QED
        BY <4>1, <4>2
    <3>3. Len(ops) <= Len(ops')
      BY <2>0, <2>3
    <3> QED
      BY <3>2, <3>3
  <2>4. CASE \E i \in 1..Len(ops), phase \in Phase, print \in Manifests \cup {None} :
                AppendOperationEvent(i, phase, print)
    <3>1. PICK i \in 1..Len(ops), phase \in Phase, print \in Manifests \cup {None} :
                  AppendOperationEvent(i, phase, print)
      BY <2>4
    <3>2. Event("Pending", phase, print) \in OperationEvent
      BY EventType DEF OperationStatus
    <3>3. /\ ops[i].status = "Pending" /\ Len(ops') = Len(ops)
          /\ \A j \in 1..Len(ops) : j # i => ops'[j] = ops[j]
          /\ ops'[i].sandbox = ops[i].sandbox /\ ops'[i].kind = ops[i].kind
          /\ ops'[i].events = Append(ops[i].events, Event("Pending", phase, print))
      BY <3>1, AppendStep
    <3> HIDE DEF JournalGrows
    <3> QED
      BY <2>3, <3>2, <3>3
  <2>5. CASE \E i \in 1..Len(ops), actual \in ActualState, status \in OperationStatus :
                FinishOperation(i, actual, status)
    <3>1. PICK i \in 1..Len(ops), actual \in ActualState, status \in OperationStatus :
                  FinishOperation(i, actual, status)
      BY <2>5
    <3>2. Event(status, "none", None) \in OperationEvent
      BY EventType DEF Phase
    <3>3. /\ ops[i].status = "Pending" /\ Len(ops') = Len(ops)
          /\ \A j \in 1..Len(ops) : j # i => ops'[j] = ops[j]
          /\ ops'[i].sandbox = ops[i].sandbox /\ ops'[i].kind = ops[i].kind
          /\ ops'[i].events = Append(ops[i].events, Event(status, "none", None))
      BY <3>1, FinishStep
    <3> HIDE DEF JournalGrows
    <3> QED
      BY <2>3, <3>2, <3>3
  <2>6. CASE \E s \in Sandboxes, row \in SandboxRecord : PutSandbox(s, row)
    BY <2>1, <2>6 DEF PutSandbox
  <2> QED
    BY <2>1, <2>2, <2>4, <2>5, <2>6, StoreSteps
<1> QED
  BY <1>1, StoreTypeCorrect, PTL DEF AnyCaller, JournalAppendOnly

\* No transaction of store.rs takes a sandbox from running or stopped to absent.
THEOREM StoreLiveNeverVanishes == AnyCaller => LiveNeverVanishes
<1>1. StoreTypeOK /\ [Transaction]_storeVars => [LiveIsKept]_storeVars
  <2> SUFFICES ASSUME StoreTypeOK, [Transaction]_storeVars PROVE LiveIsKept
    OBVIOUS
  <2>1. \A from \in {"Running", "Stopped"} : ~ValidActual(from, "Absent")
    BY DEF ValidActual, ActualEdges
  <2>2. \A from \in {"Running", "Stopped"}, kind \in OperationKind, status \in OperationStatus :
            ~ValidTerminalActual(from, "Absent", kind, status)
    BY <2>1 DEF ValidTerminalActual, RollbackEdges
  <2>3. ASSUME NEW s \in Sandboxes, NEW row \in SandboxRecord, PutAccepted(s, row),
               rows' = [rows EXCEPT ![s] = row]
        PROVE  LiveIsKept
    BY <2>1, <2>3, NoRowAssumption DEF PutAccepted, LiveIsKept, StoreTypeOK
  <2>4. CASE \E s \in Sandboxes, row \in SandboxRecord : PutSandbox(s, row)
    BY <2>3, <2>4 DEF PutSandbox
  <2>5. CASE \E s \in Sandboxes, row \in SandboxRecord, kind \in OperationKind :
                BeginOperation(s, row, kind)
    BY <2>3, <2>5 DEF BeginOperation, BeginAccepted
  <2>6. CASE \E i \in 1..Len(ops), actual \in ActualState, status \in OperationStatus :
                FinishOperation(i, actual, status)
    <3>1. PICK i \in 1..Len(ops), actual \in ActualState, status \in OperationStatus :
                  FinishOperation(i, actual, status)
      BY <2>6
    <3> DEFINE t == ops[i].sandbox
    <3>2. ops[i].kind \in OperationKind
      BY OperationType DEF OperationRecord
    <3>3. ValidTerminalActual(rows[t].actual, actual, ops[i].kind, status)
      BY <3>1 DEF FinishOperation, FinishAccepted
    <3>4. /\ rows'[t] \in SandboxRecord /\ rows'[t].actual = actual
          /\ \A s \in Sandboxes : s # t => rows'[s] = rows[s]
      BY <3>1, FinishStep
    <3>5. rows[t].actual \in {"Running", "Stopped"} => actual # "Absent"
      BY <2>2, <3>2, <3>3
    <3> HIDE DEF t
    <3> QED
      BY <3>4, <3>5, NoRowAssumption DEF LiveIsKept
  <2>7. CASE rows' = rows
    BY <2>7 DEF LiveIsKept
  <2>8. CASE \E i \in 1..Len(ops), phase \in Phase, print \in Manifests \cup {None} :
                AppendOperationEvent(i, phase, print)
    BY <2>7, <2>8 DEF AppendOperationEvent
  <2> QED
    BY <2>4, <2>5, <2>6, <2>7, <2>8, StoreSteps
<1> QED
  BY <1>1, StoreTypeCorrect, PTL DEF AnyCaller, LiveNeverVanishes

\* What store.rs promises of every state, whoever calls it and in whatever order.
THEOREM StoreStaysConsistent == AnyCaller => []StoreConsistent
<1>1. /\ StoreTypeOK /\ OnePending /\ JournalAgreesWithStatus
      /\ OperationsHaveRows /\ UniqueRoots
      => StoreConsistent
  BY DEF StoreConsistent
<1> QED
  BY <1>1, StoreTypeCorrect, StoreOnePending, StoreJournalAgrees, StoreOperationsHaveRows,
     StoreUniqueRoots, PTL

=============================================================================
