------------------------------ MODULE Prefetch ------------------------------
(***************************************************************************)
(* Prefetching the browser for the workspace image: a process downloads    *)
(* the locked archive (scripts/src/bin/fetch-image-artifact.rs over        *)
(* scripts/src/lib.rs), then extracts it into the directory the image is   *)
(* built from (scripts/src/bin/extract-reviewed-chromium.rs).  Processes   *)
(* run side by side over one cache, and any of them may be killed between  *)
(* two system calls; the extractors exclude each other with a lock file,   *)
(* record an exchange in a receipt, and clean up after the ones that died. *)
(*                                                                         *)
(* A tree is the version it was extracted from, or "partial", "torn" when  *)
(* its removal was not finished, "mixed" when names and contents are of    *)
(* two archives.  The lock of the image changes only while nobody runs.    *)
(***************************************************************************)
EXTENDS Integers, FiniteSets

CONSTANTS
    Procs,           \* processes
    Versions,        \* versions of the archive
    MaxStages,       \* bound: staging trees ever made
    MaxKills,        \* bound: processes killed
    MaxRemovals      \* bound: times the idle lock file is removed

Stages == 1..MaxStages
Inodes == 1..(MaxRemovals + 1)

VARIABLES
    want,            \* the version the image lock names
    zip,             \* the downloaded archive
    output,          \* the extracted tree
    tree,            \* staging trees by name
    receipt,         \* receipts by the staging tree they are for
    lockAt,          \* the file at the lock path, 0 if there is none
    holder,          \* who has each lock file locked
    pc,              \* where each process is
    fd,              \* the lock file it opened
    seen,            \* the archive whose entries it validated
    mine,            \* the staging tree it works on
    stages, kills, removals

files == <<zip, output, tree, receipt>>
locks == <<lockAt, holder>>
local == <<fd, seen, mine>>
counts == <<stages, kills, removals>>
vars == <<want, files, locks, local, pc, counts>>

NoReceipt == [kind |-> "none", old |-> "none", new |-> "none"]
EmptyReceipt == [NoReceipt EXCEPT !.kind = "empty"]

Init ==
    /\ want \in Versions
    /\ zip = "none" /\ output = "none"
    /\ tree = [s \in Stages |-> "none"] /\ receipt = [s \in Stages |-> NoReceipt]
    /\ lockAt = 0 /\ holder = [i \in Inodes |-> "none"]
    /\ pc = [p \in Procs |-> "idle"]
    /\ fd = [p \in Procs |-> 0] /\ seen = [p \in Procs |-> "none"] /\ mine = [p \in Procs |-> 0]
    /\ stages = 0 /\ kills = 0 /\ removals = 0

Go(p, where) == pc' = [pc EXCEPT ![p] = where]

\* The end of a process, orderly or not: its descriptors are closed.
Leave(p) ==
    /\ Go(p, "idle")
    /\ holder' = [i \in Inodes |-> IF holder[i] = p THEN "none" ELSE holder[i]]
    /\ fd' = [fd EXCEPT ![p] = 0] /\ seen' = [seen EXCEPT ![p] = "none"]
    /\ mine' = [mine EXCEPT ![p] = 0]

-----------------------------------------------------------------------------
(* fetch-image-artifact                                                    *)

Start(p) ==
    /\ pc[p] = "idle" /\ Go(p, "fetch")
    /\ UNCHANGED <<want, files, locks, local, counts>>

validate_cached_artifact(p) == pc[p] = "fetch" /\ zip = want

Cached(p) ==
    /\ validate_cached_artifact(p) /\ Go(p, "validate")
    /\ UNCHANGED <<want, files, locks, local, counts>>

\* Everything is written to a file of a random name and checked there.
Download(p) ==
    /\ pc[p] = "fetch" /\ zip # want
    /\ \E sent \in {want, "bad"} :
          IF sent = want THEN Go(p, "install") /\ UNCHANGED <<locks, local>>
                         ELSE Leave(p) /\ UNCHANGED lockAt
    /\ UNCHANGED <<want, files, counts>>

Install(p) ==
    /\ pc[p] = "install"
    /\ zip' = want /\ Go(p, "validate")
    /\ UNCHANGED <<want, output, tree, receipt, locks, local, counts>>

-----------------------------------------------------------------------------
(* extract-reviewed-chromium: the archive is validated, the lock is taken  *)

validate_archive(p) ==
    /\ pc[p] = "validate"
    /\ seen' = [seen EXCEPT ![p] = zip] /\ Go(p, "open")
    /\ UNCHANGED <<want, files, locks, fd, mine, counts>>

\* The lock file is opened, and made if it is not there.
OpenLock(p) ==
    /\ pc[p] = "open"
    /\ LET at == IF lockAt = 0 THEN removals + 1 ELSE lockAt
       IN  lockAt' = at /\ fd' = [fd EXCEPT ![p] = at]
    /\ Go(p, "flock")
    /\ UNCHANGED <<want, files, holder, seen, mine, counts>>

\* The lock is waited for; then the path must still name the locked file.
Flock(p) ==
    /\ pc[p] = "flock" /\ holder[fd[p]] = "none"
    /\ IF lockAt = fd[p]
       THEN holder' = [holder EXCEPT ![fd[p]] = p] /\ Go(p, "recover") /\ UNCHANGED local
       ELSE Leave(p)
    /\ UNCHANGED <<want, files, lockAt, counts>>

-----------------------------------------------------------------------------
(* recover_stale                                                           *)

Recorded(s) == receipt[s].kind = "full"
Described(s) == Recorded(s) /\ tree[s] \in {receipt[s].old, receipt[s].new}

\* A receipt whose tree is gone; a tree as its receipt describes it.
RecoverReceipt(p, s) ==
    /\ pc[p] = "recover" /\ Recorded(s) /\ tree[s] = "none"
    /\ receipt' = [receipt EXCEPT ![s] = NoReceipt]
    /\ UNCHANGED <<want, zip, output, tree, locks, local, pc, counts>>

RecoverTear(p, s) ==
    /\ pc[p] = "recover" /\ tree[s] # "none" /\ Described(s)
    /\ tree' = [tree EXCEPT ![s] = "torn"]
    /\ mine' = [mine EXCEPT ![p] = s] /\ Go(p, "removing")
    /\ UNCHANGED <<want, zip, output, receipt, locks, fd, seen, counts>>

RecoverTree(p) ==
    /\ pc[p] = "removing"
    /\ tree' = [tree EXCEPT ![mine[p]] = "none"]
    /\ mine' = [mine EXCEPT ![p] = 0] /\ Go(p, "recover")
    /\ UNCHANGED <<want, zip, output, receipt, locks, fd, seen, counts>>

-----------------------------------------------------------------------------
(* extract_atomically                                                      *)

StageBegin(p) ==
    /\ pc[p] = "recover" /\ stages < MaxStages
    /\ \A s \in Stages : ~(Recorded(s) /\ (tree[s] = "none" \/ Described(s)))
    /\ stages' = stages + 1
    /\ mine' = [mine EXCEPT ![p] = stages + 1]
    /\ tree' = [tree EXCEPT ![stages + 1] = "partial"]
    /\ Go(p, "stage")
    /\ UNCHANGED <<want, zip, output, receipt, locks, fd, seen, kills, removals>>

\* The archive is opened again, and read under the validated names.
Stage(p) ==
    /\ pc[p] = "stage"
    /\ tree' = [tree EXCEPT ![mine[p]] = IF seen[p] = zip THEN zip ELSE "mixed"]
    /\ Go(p, "receipt")
    /\ UNCHANGED <<want, zip, output, receipt, locks, local, counts>>

\* A failure while staging: the temporary directory removes itself.
StageFails(p) ==
    /\ pc[p] = "stage"
    /\ tree' = [tree EXCEPT ![mine[p]] = "none"]
    /\ Leave(p)
    /\ UNCHANGED <<want, zip, output, receipt, lockAt, counts>>

ReceiptCreate(p) ==
    /\ pc[p] = "receipt"
    /\ receipt' = [receipt EXCEPT ![mine[p]] = EmptyReceipt] /\ Go(p, "write")
    /\ UNCHANGED <<want, zip, output, tree, locks, local, counts>>

ReceiptWrite(p) ==
    /\ pc[p] = "write"
    /\ receipt' = [receipt EXCEPT ![mine[p]] = [kind |-> "full", old |-> output, new |-> tree[mine[p]]]]
    /\ Go(p, "exchange")
    /\ UNCHANGED <<want, zip, output, tree, locks, local, counts>>

\* One rename: an exchange when there is a tree to replace.
Exchange(p) ==
    /\ pc[p] = "exchange"
    /\ output' = tree[mine[p]] /\ tree' = [tree EXCEPT ![mine[p]] = output]
    /\ Go(p, IF output = "none" THEN "unreceipt" ELSE "tear")
    /\ UNCHANGED <<want, zip, receipt, locks, local, counts>>

\* The replaced tree is removed, then its receipt.
Tear(p) ==
    /\ pc[p] = "tear"
    /\ tree' = [tree EXCEPT ![mine[p]] = "torn"] /\ Go(p, "clean")
    /\ UNCHANGED <<want, zip, output, receipt, locks, local, counts>>

Clean(p) ==
    /\ pc[p] = "clean"
    /\ tree' = [tree EXCEPT ![mine[p]] = "none"] /\ Go(p, "unreceipt")
    /\ UNCHANGED <<want, zip, output, receipt, locks, local, counts>>

Unreceipt(p) ==
    /\ pc[p] = "unreceipt"
    /\ receipt' = [receipt EXCEPT ![mine[p]] = NoReceipt]
    /\ Leave(p)
    /\ UNCHANGED <<want, zip, output, tree, lockAt, counts>>

-----------------------------------------------------------------------------
(* The environment                                                         *)

Kill(p) ==
    /\ pc[p] # "idle" /\ kills < MaxKills
    /\ kills' = kills + 1 /\ Leave(p)
    /\ UNCHANGED <<want, files, lockAt, stages, removals>>

\* Somebody clears the lock file away while nobody holds it.
RemoveLock ==
    /\ lockAt # 0 /\ holder[lockAt] = "none" /\ removals < MaxRemovals
    /\ lockAt' = 0 /\ removals' = removals + 1
    /\ UNCHANGED <<want, files, holder, local, pc, stages, kills>>

UpdateLock ==
    /\ \A p \in Procs : pc[p] = "idle"
    /\ \E v \in Versions \ {want} : want' = v
    /\ UNCHANGED <<files, locks, local, pc, counts>>

Next ==
    \/ \E p \in Procs :
          \/ Start(p) \/ Cached(p) \/ Download(p) \/ Install(p)
          \/ validate_archive(p) \/ OpenLock(p) \/ Flock(p)
          \/ RecoverTree(p) \/ StageBegin(p) \/ Stage(p) \/ StageFails(p)
          \/ ReceiptCreate(p) \/ ReceiptWrite(p) \/ Exchange(p)
          \/ Tear(p) \/ Clean(p) \/ Unreceipt(p) \/ Kill(p)
          \/ \E s \in Stages : RecoverReceipt(p, s) \/ RecoverTear(p, s)
    \/ RemoveLock \/ UpdateLock

Spec == Init /\ [][Next]_vars

-----------------------------------------------------------------------------
(* Properties                                                              *)

Trees == {"none", "partial", "torn", "mixed"} \cup Versions

TypeOK ==
    /\ want \in Versions /\ zip \in {"none", "bad"} \cup Versions
    /\ output \in Trees /\ tree \in [Stages -> Trees]
    /\ \A s \in Stages : receipt[s].kind \in {"none", "empty", "full"}
    /\ lockAt \in 0..(MaxRemovals + 1) /\ holder \in [Inodes -> {"none"} \cup Procs]
    /\ \A p \in Procs : pc[p] = "idle" => mine[p] = 0 /\ fd[p] = 0

\* What is at the archive's place has been verified, whatever is served, how
\* many processes install it and wherever one of them is killed.
ArchiveIsVerified == zip # "none" => zip \in Versions

\* The tree the image is built from is absent or the whole of one archive.
OutputIsWhole == output # "none" => output \in Versions

\* Once there is a tree there always is one: a refresh never takes it away.
OutputStays == [][output # "none" => output' # "none"]_vars

\* Recovery leaves alone the staging tree of an extraction that is running:
\* what looks stale is only what the holder of the lock left when it died.
LiveTransactionIsKept ==
    [][\A q \in Procs : mine[q] # 0 =>
          LET s == mine[q]
          IN  (tree'[s] # tree[s] \/ receipt'[s] # receipt[s]) => pc'[q] # pc[q]]_vars

\* A process that ends in order leaves the version the image lock names.
EndsWithTheLockedVersion == [][\A p \in Procs : Unreceipt(p) => output = want]_vars

=============================================================================
