------------------------------ MODULE Snapshot ------------------------------
(***************************************************************************)
(* snapshot-workspace-context: the privileged helper that copies a         *)
(* reviewed build context into a directory only it can write, under a      *)
(* random token, and hands its caller a receipt to name and to finish the  *)
(* snapshot with.  Creations take one lock; finish takes none.  The        *)
(* caller may change the source at any time, a helper may be killed at     *)
(* every step, and a later creation of the same caller removes what is     *)
(* left once it is an hour old.                                            *)
(***************************************************************************)
EXTENDS Naturals, FiniteSets

CONSTANTS
    Callers, Hands,  \* users, and the helpers one user may run at once
    Files,           \* the files of a context
    None,
    MaxTokens,       \* bound on the creations
    MaxCrashes, MaxChanges

Procs == Callers \X Hands
Caller(p) == p[1]
Tokens == 1..MaxTokens
Reviewed == [f \in Files |-> 0]   \* the bytes the caller's manifest digest stands for

VARIABLES
    source,    \* the bytes of each caller's source, file by file
    claim,     \* the holder of .create.lock
    snap,      \* each token's snapshot: the files in it and its seal
    marker,    \* each token's incomplete marker
    receipt,   \* the callers of the stored receipts
    handed,    \* the tokens whose receipt was printed
    pc, token, \* each helper: where it is and the token it works on
    todo,      \* the markers it has not looked at, or the files not copied
    used, crashes, changes

store == <<snap, marker, receipt, handed>>
bounds == <<used, crashes, changes>>
vars == <<source, claim, store, pc, token, todo, bounds>>

Empty == [files |-> [f \in {} |-> 0], sealed |-> FALSE]
Marker(caller, known) == [caller |-> caller, known |-> known, old |-> FALSE, readable |-> TRUE]

Init ==
    /\ source = [c \in Callers |-> Reviewed]
    /\ claim = None
    /\ snap = [t \in Tokens |-> None] /\ marker = [t \in Tokens |-> None]
    /\ receipt = [t \in Tokens |-> None] /\ handed = {}
    /\ pc = [p \in Procs |-> "idle"] /\ token = [p \in Procs |-> 1] /\ todo = [p \in Procs |-> {}]
    /\ used = 0 /\ crashes = 0 /\ changes = 0

Goto(p, label) == pc' = [pc EXCEPT ![p] = label]

(* acquire_claim: LockExclusive, until the helper ends.                    *)
Claim(p) ==
    /\ pc[p] = "idle" /\ claim = None /\ used < MaxTokens
    /\ claim' = p
    /\ Goto(p, "recover") /\ todo' = [todo EXCEPT ![p] = {t \in Tokens : marker[t] # None}]
    /\ UNCHANGED <<source, store, token, bounds>>

(* recover_incomplete: a readable marker of this caller, an hour old.  The *)
(* snapshot goes first, then the receipt, then the marker; a marker whose  *)
(* snapshot was never made goes alone.                                     *)
Stale(p, t) ==
    /\ marker[t] # None /\ marker[t].readable
    /\ marker[t].caller = Caller(p) /\ marker[t].old
Removable(t) == snap[t] # None

Recover(p) ==
    /\ pc[p] = "recover"
    /\ \/ /\ todo[p] = {} /\ Goto(p, "read")
          /\ UNCHANGED <<store, token, todo>>
       \/ \E t \in todo[p] :
            /\ todo' = [todo EXCEPT ![p] = @ \ {t}]
            /\ \/ /\ Stale(p, t) /\ Removable(t)
                  /\ snap' = [snap EXCEPT ![t] = None] /\ token' = [token EXCEPT ![p] = t]
                  /\ Goto(p, "forget") /\ UNCHANGED <<marker, receipt, handed>>
               \/ /\ Stale(p, t) /\ snap[t] = None /\ ~marker[t].known
                  /\ marker' = [marker EXCEPT ![t] = None]
                  /\ UNCHANGED <<snap, receipt, handed, token, pc>>
               \/ /\ ~Stale(p, t) \/ (~Removable(t) /\ (snap[t] # None \/ marker[t].known))
                  /\ UNCHANGED <<store, token, pc>>
    /\ UNCHANGED <<source, claim, bounds>>

Forget(p) ==
    /\ pc[p] = "forget" /\ Goto(p, "recover")
    /\ receipt' = [receipt EXCEPT ![token[p]] = None]
    /\ marker' = [marker EXCEPT ![token[p]] = None]
    /\ UNCHANGED <<source, claim, snap, handed, token, todo, bounds>>

\* Mistake: no marker is written before the directory is made.
MarkNothing(p) ==
    /\ pc[p] = "read" /\ used < MaxTokens
    /\ used' = used + 1 /\ token' = [token EXCEPT ![p] = used + 1]
    /\ Goto(p, "mkdir")
    /\ UNCHANGED <<source, claim, store, todo, crashes, changes>>

(* The manifest is held against the digest the caller verified; the paths  *)
(* must be exactly the manifest's.  Then marker, directory, identity.      *)
Mark(p) ==
    /\ pc[p] = "read" /\ used < MaxTokens
    /\ used' = used + 1 /\ token' = [token EXCEPT ![p] = used + 1]
    /\ marker' = [marker EXCEPT ![used + 1] = Marker(Caller(p), FALSE)]
    /\ Goto(p, "mkdir")
    /\ UNCHANGED <<source, claim, snap, receipt, handed, todo, crashes, changes>>

MakeDirectory(p) ==
    /\ pc[p] = "mkdir" /\ Goto(p, "identify")
    /\ snap' = [snap EXCEPT ![token[p]] = Empty]
    /\ UNCHANGED <<source, claim, marker, receipt, handed, token, todo, bounds>>

Identify(p) ==
    /\ pc[p] = "identify" /\ marker[token[p]] # None
    /\ marker' = [marker EXCEPT ![token[p]].known = TRUE]
    /\ todo' = [todo EXCEPT ![p] = Files]
    /\ Goto(p, "copy")
    /\ UNCHANGED <<source, claim, snap, receipt, handed, token, bounds>>

(* Any error removes snapshot, marker and receipt.                         *)
CleanUp(p) ==
    /\ snap' = [snap EXCEPT ![token[p]] = None]
    /\ marker' = [marker EXCEPT ![token[p]] = None]
    /\ receipt' = [receipt EXCEPT ![token[p]] = None]
    /\ claim' = (IF claim = p THEN None ELSE claim) /\ Goto(p, "idle")

(* copy_verified_file hashes the bytes it writes.                          *)
Copy(p) ==
    /\ pc[p] = "copy"
    /\ \/ \E f \in todo[p] :
            IF source[Caller(p)][f] = Reviewed[f] /\ snap[token[p]] # None
            THEN /\ snap' = [snap EXCEPT ![token[p]].files = [g \in DOMAIN @ \cup {f} |->
                                IF g = f THEN source[Caller(p)][f] ELSE @[g]]]
                 /\ todo' = [todo EXCEPT ![p] = @ \ {f}] /\ UNCHANGED <<claim, marker, receipt, pc>>
            ELSE CleanUp(p) /\ UNCHANGED todo
       \/ /\ todo[p] = {} /\ Goto(p, "seal") /\ UNCHANGED <<claim, snap, marker, receipt, todo>>
    /\ UNCHANGED <<source, handed, token, bounds>>

(* The modes, the stored receipt, its validation: the marker goes last.    *)
Complete(s) == s # None /\ s.sealed /\ DOMAIN s.files = Files
Seal(p) ==
    /\ pc[p] = "seal" /\ snap[token[p]] # None
    /\ snap' = [snap EXCEPT ![token[p]].sealed = TRUE]
    /\ receipt' = [receipt EXCEPT ![token[p]] = Caller(p)]
    /\ Goto(p, "unmark")
    /\ UNCHANGED <<source, claim, marker, handed, token, todo, bounds>>

Unmark(p) ==
    /\ pc[p] = "unmark"
    /\ IF Complete(snap[token[p]])
       THEN /\ marker' = [marker EXCEPT ![token[p]] = None]
            /\ Goto(p, "print") /\ UNCHANGED <<claim, snap, receipt>>
       ELSE CleanUp(p)
    /\ UNCHANGED <<source, handed, token, todo, bounds>>

HandOut(p) ==
    /\ pc[p] = "print" /\ Goto(p, "idle")
    /\ handed' = handed \cup {token[p]} /\ claim' = (IF claim = p THEN None ELSE claim)
    /\ UNCHANGED <<source, snap, marker, receipt, token, todo, bounds>>

(* finish RECEIPT: the caller's own, equal to the stored one, and the      *)
(* snapshot as it was sealed.                                              *)
Finish(p) ==
    /\ pc[p] = "idle"
    /\ \E t \in handed :
        /\ receipt[t] = Caller(p) /\ Complete(snap[t])
        /\ token' = [token EXCEPT ![p] = t]
    /\ Goto(p, "remove")
    /\ UNCHANGED <<source, claim, store, todo, bounds>>
Remove(p) ==
    /\ pc[p] = "remove" /\ Goto(p, "forgetreceipt")
    /\ snap' = [snap EXCEPT ![token[p]] = None] /\ handed' = handed \ {token[p]}
    /\ UNCHANGED <<source, claim, marker, receipt, token, todo, bounds>>
ForgetReceipt(p) ==
    /\ pc[p] = "forgetreceipt" /\ Goto(p, "idle")
    /\ receipt' = [receipt EXCEPT ![token[p]] = None]
    /\ UNCHANGED <<source, claim, snap, marker, handed, token, todo, bounds>>

(* A kill; while fs::write rewrites the marker it leaves a truncated one.  *)
Crash(p) ==
    /\ pc[p] # "idle" /\ crashes < MaxCrashes /\ crashes' = crashes + 1
    /\ Goto(p, "idle") /\ claim' = (IF claim = p THEN None ELSE claim)
    /\ \/ UNCHANGED marker
       \/ pc[p] = "identify" /\ marker' = [marker EXCEPT ![token[p]].readable = FALSE]
    /\ UNCHANGED <<source, snap, receipt, handed, token, todo, used, changes>>

(* recover_incomplete reads the clock once, before it looks at any marker. *)
HourPasses ==
    /\ \A p \in Procs : pc[p] \notin {"recover", "forget"}
    /\ \E t \in Tokens : marker[t] # None /\ ~marker[t].old
    /\ marker' = [t \in Tokens |-> IF marker[t] = None THEN None ELSE [marker[t] EXCEPT !.old = TRUE]]
    /\ UNCHANGED <<source, claim, snap, receipt, handed, pc, token, todo, bounds>>

ChangeSource(c, f) ==
    /\ changes < MaxChanges /\ changes' = changes + 1
    /\ source' = [source EXCEPT ![c][f] = 1 - @]
    /\ UNCHANGED <<claim, store, pc, token, todo, used, crashes>>

Step(p) ==
    \/ Claim(p) \/ Recover(p) \/ Forget(p) \/ Mark(p) \/ MakeDirectory(p) \/ Identify(p) \/ Copy(p)
    \/ Seal(p) \/ Unmark(p) \/ HandOut(p) \/ Finish(p) \/ Remove(p) \/ ForgetReceipt(p) \/ Crash(p)
Next ==
    HourPasses \/ (\E c \in Callers, f \in Files : ChangeSource(c, f)) \/ (\E p \in Procs : Step(p))
Spec == Init /\ [][Next]_vars

-----------------------------------------------------------------------------
(* The order of create_snapshot: a sealed snapshot has its receipt stored, *)
(* and one that is not sealed has its marker, until it is removed.         *)
TypeOK ==
    /\ \A t \in Tokens : snap[t] # None => DOMAIN snap[t].files \subseteq Files
    /\ \A t \in Tokens : snap[t] # None /\ ~snap[t].sealed => marker[t] # None
    /\ \A t \in Tokens : snap[t] # None /\ snap[t].sealed => receipt[t] # None

(* copy_verified_file: a receipt that was handed out names a snapshot of   *)
(* the very bytes the caller verified, however the source changes, until   *)
(* it is finished.                                                         *)
HandedIsReviewed == \A t \in handed : Complete(snap[t]) /\ snap[t].files = Reviewed

(* acquire_claim: recovery never removes the snapshot of a helper that is  *)
(* still making it, even when the copy takes more than an hour.            *)
ActiveIsSpared ==
    \A p \in Procs : pc[p] \in {"identify", "copy", "seal", "unmark", "print"} => snap[token[p]] # None

(* A snapshot is removed only for the caller who had it made.              *)
Maker(t) == IF receipt[t] # None THEN receipt[t] ELSE IF marker[t] # None THEN marker[t].caller ELSE None
ForeignIsSpared ==
    [][\A t \in Tokens : snap[t] # None /\ snap'[t] = None =>
        \E p \in Procs : Caller(p) = Maker(t) /\ pc'[p] # pc[p]]_vars

(* recover_incomplete: when a creation begins to read, no snapshot of its  *)
(* caller is left whose readable marker is an hour old, the one killed     *)
(* before its identity was recorded included.                              *)
StaleIsRecovered ==
    [][\A p \in Procs : pc[p] = "recover" /\ pc'[p] = "read" =>
        \A t \in Tokens : Stale(p, t) /\ snap[t] # None => \E q \in Procs : pc[q] = "remove"]_vars
=============================================================================
