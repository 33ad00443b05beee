---------------------------- MODULE StoreClient ----------------------------
(***************************************************************************)
(* The store under an arbitrary caller: any of the store's transactions,   *)
(* with any of the given arguments, in any order.  What holds here holds   *)
(* whatever the service above the store does.                              *)
(***************************************************************************)
EXTENDS Store, TLC

CONSTANTS
    Rows,        \* the rows a caller may write
    Kinds,       \* the kinds of operation a caller may begin
    Details,     \* the <<phase, fingerprint>> pairs a caller may append
    MaxOps,      \* bound: operations ever begun
    MaxEvents    \* bound: progress events of one operation

ASSUME CallerAssumption ==
    /\ Rows \subseteq SandboxRecord
    /\ Kinds \subseteq OperationKind
    /\ Details \subseteq Phase \X (Manifests \cup {None})
    /\ MaxOps \in Nat /\ MaxEvents \in Nat

CallPut == \E s \in Sandboxes, row \in Rows : PutSandbox(s, row)

CallBegin ==
    /\ Len(ops) < MaxOps
    /\ \E s \in Sandboxes, row \in Rows, kind \in Kinds :
          BeginOperation(s, row, kind)

CallAppend ==
    \E i \in 1..Len(ops), d \in Details :
        /\ Len(ops[i].events) < MaxEvents
        /\ AppendOperationEvent(i, d[1], d[2])

CallFinish ==
    \E i \in 1..Len(ops), actual \in ActualState, status \in OperationStatus :
        FinishOperation(i, actual, status)

StoreNext == CallPut \/ CallBegin \/ CallAppend \/ CallFinish

StoreSpec == StoreInit /\ [][StoreNext]_storeVars

-----------------------------------------------------------------------------
(* The instance TLC checks: two sandboxes that contend for two roots.  The *)
(* columns the store never reads are held fixed.                           *)

MCRows ==
    [root : Roots, desired : {"Running"}, actual : ActualState,
     image : Images, resolved : {None}, storage : {TRUE}]

MCDetails == {<<"before_health", None>>}

SandboxSymmetry == Permutations(Sandboxes)

=============================================================================
