------------------------------ MODULE Context -------------------------------
(***************************************************************************)
(* prepare-workspace-context --mode connected --replace: assembling the    *)
(* build context of the workspace image beside the one in use, exchanging  *)
(* the two, and removing what an earlier, killed run left behind.  The     *)
(* repository may be edited and the workstation cache republished while    *)
(* files are copied, and two runs may meet: no lock is taken.              *)
(***************************************************************************)
EXTENDS Naturals, FiniteSets

CONSTANTS
    Procs,       \* runs of the tool that may be active at once
    None,        \* no tree, no receipt, no digest
    MaxRuns,     \* bound on the runs, and so on the random tokens
    MaxEdits,    \* bound on the edits of the repository
    MaxCrashes   \* bound on the kills

Files == {"lock", "dockerfile", "bin"}   \* what the source fingerprint covers
Copied == {"dockerfile", "bin"}          \* what is copied file by file
Tokens == 1..MaxRuns

VARIABLES
    repo,       \* the version of each file of images/workspace
    cache,      \* the version of the lock the workstation cache was made for
    dest,       \* the context in use: a tree, or None
    slot,       \* the replacement directory of each token
    receipt,    \* the receipt beside it
    pc, token,  \* each run: where it is, and its token
    staging,    \* the tree it assembles
    old, into,  \* the digest of the context it replaces, and where its tree goes
    todo,       \* the receipts recovery has not looked at, the files not copied
    victim,     \* the token recovery is removing
    printed,    \* the tree whose digest it printed
    failed,     \* it ended with an error
    disturbed,  \* an edit, a stale cache or another run met this one
    runs, edits, crashes

disk == <<dest, slot, receipt>>
bounds == <<runs, edits, crashes>>
plan == <<token, staging, old, into>>
result == <<printed, failed, disturbed>>
vars == <<repo, cache, disk, pc, plan, todo, victim, result, bounds>>

(* A tree: the sources in it, the fingerprint sealed in it, the lock its   *)
(* workstation payload was made for, and whether it is still read-only     *)
(* with every path of its manifest.                                        *)
Tree(files, fingerprint, payload) ==
    [files |-> files, fingerprint |-> fingerprint, payload |-> payload, whole |-> TRUE]
Fresh == Tree([f \in Files |-> 0], [f \in Files |-> 0], 0)
Broken(tree) == IF tree = None THEN None ELSE [tree EXCEPT !.whole = FALSE]
Whole(tree) == tree # None /\ tree.whole

(* verify_context returns the manifest of a tree that passes, else fails.  *)
Verified(tree) == IF Whole(tree) THEN tree ELSE None

Init ==
    /\ repo = [f \in Files |-> 1] /\ cache = 1
    /\ dest \in {None, Fresh, Broken(Fresh)}
    /\ slot = [t \in Tokens |-> None] /\ receipt = [t \in Tokens |-> None]
    /\ pc = [p \in Procs |-> "idle"] /\ token = [p \in Procs |-> 1]
    /\ staging = [p \in Procs |-> Fresh] /\ old = [p \in Procs |-> None]
    /\ into = [p \in Procs |-> "slot"]
    /\ todo = [p \in Procs |-> {}] /\ victim = [p \in Procs |-> 1]
    /\ printed = [p \in Procs |-> None] /\ failed = [p \in Procs |-> FALSE]
    /\ disturbed = [p \in Procs |-> FALSE]
    /\ runs = 0 /\ edits = 0 /\ crashes = 0

Goto(p, label) == pc' = [pc EXCEPT ![p] = label]
Running(p) == pc[p] # "idle"
Fail(p) == Goto(p, "idle") /\ failed' = [failed EXCEPT ![p] = TRUE]

(* Two runs disturb each other, and a cache that is not for this lock is   *)
(* refused: a failure of such a run needs no further explanation.          *)
Disturbance(p) ==
    IF \E q \in Procs \ {p} : Running(q)
    THEN [q \in Procs |-> q = p \/ Running(q) \/ disturbed[q]]
    ELSE [disturbed EXCEPT ![p] = cache # repo["lock"]]

(* random_token: never the same twice.                                     *)
RandomToken(p) == runs + 1

Begin(p) ==
    /\ pc[p] = "idle" /\ runs < MaxRuns
    /\ runs' = runs + 1
    /\ token' = [token EXCEPT ![p] = RandomToken(p)]
    /\ todo' = [todo EXCEPT ![p] = {t \in Tokens : receipt[t] # None}]
    /\ printed' = [printed EXCEPT ![p] = None] /\ failed' = [failed EXCEPT ![p] = FALSE]
    /\ disturbed' = Disturbance(p)
    /\ Goto(p, "recover")
    /\ UNCHANGED <<repo, cache, disk, staging, old, into, victim, edits, crashes>>

(* recover_owned_replacements removes a tree only when its manifest is the *)
(* one its receipt names; a receipt without a tree goes at once.           *)
Owned(t) == Whole(slot[t]) /\ Verified(slot[t]) \in {receipt[t].old, receipt[t].new}

Recover(p) ==
    /\ pc[p] = "recover"
    /\ \/ /\ todo[p] = {} /\ Goto(p, "look")
          /\ UNCHANGED <<slot, receipt, todo, victim>>
       \/ \E t \in todo[p] :
            /\ todo' = [todo EXCEPT ![p] = @ \ {t}]
            /\ \/ /\ receipt[t] = None \/ (slot[t] # None /\ ~Owned(t))
                  /\ UNCHANGED <<slot, receipt, pc, victim>>
               \/ /\ receipt[t] # None /\ slot[t] = None
                  /\ receipt' = [receipt EXCEPT ![t] = None]
                  /\ UNCHANGED <<slot, pc, victim>>
               \/ /\ receipt[t] # None /\ Owned(t)
                  /\ victim' = [victim EXCEPT ![p] = t]
                  /\ Goto(p, "unlock")
                  /\ UNCHANGED <<slot, receipt>>
    /\ UNCHANGED <<repo, cache, dest, plan, result, bounds>>

(* make_tree_owner_writable, remove_dir_all and the receipt, by path: the  *)
(* run that owns the tree may exchange it in between.                      *)
Unlock(p) ==
    /\ pc[p] = "unlock" /\ Goto(p, "unlink")
    /\ slot' = [slot EXCEPT ![victim[p]] = Broken(@)]
    /\ UNCHANGED <<repo, cache, dest, receipt, plan, todo, victim, result, bounds>>

Unlink(p) ==
    /\ pc[p] = "unlink" /\ Goto(p, "recover")
    /\ slot' = [slot EXCEPT ![victim[p]] = None]
    /\ receipt' = [receipt EXCEPT ![victim[p]] = None]
    /\ UNCHANGED <<repo, cache, dest, plan, todo, victim, result, bounds>>

\* Mistake: the context in use is replaced without a look.
LookUnverified(p) ==
    /\ pc[p] = "look" /\ Goto(p, "read")
    /\ into' = [into EXCEPT ![p] = IF dest = None THEN "dest" ELSE "slot"]
    /\ old' = [old EXCEPT ![p] = dest]
    /\ UNCHANGED <<repo, cache, disk, token, staging, todo, victim, result, bounds>>

(* replace_context_inner: without a context the tree goes to its place,    *)
(* else beside it; a context that does not verify is replaced all the same. *)
Look(p) ==
    /\ pc[p] = "look" /\ Goto(p, "read")
    /\ into' = [into EXCEPT ![p] = IF dest = None THEN "dest" ELSE "slot"]
    /\ old' = [old EXCEPT ![p] = Verified(dest)]
    /\ UNCHANGED <<repo, cache, disk, token, staging, todo, victim, result, bounds>>

(* assemble_connected reads the locks, then fingerprints the sources.      *)
Read(p) ==
    /\ pc[p] = "read" /\ Goto(p, "fingerprint")
    /\ staging' = [staging EXCEPT ![p].files["lock"] = repo["lock"]]
    /\ UNCHANGED <<repo, cache, disk, token, old, into, todo, victim, result, bounds>>

(* canonical_source_fingerprint, validate_workstation_cache, and the check *)
(* that nothing is at the place of the tree.                               *)
Place(p) == IF into[p] = "dest" THEN dest ELSE slot[token[p]]
Fingerprint(p) ==
    /\ pc[p] = "fingerprint"
    /\ IF cache # staging[p].files["lock"] \/ Place(p) # None
       THEN Fail(p) /\ UNCHANGED <<staging, todo>>
       ELSE /\ staging' = [staging EXCEPT ![p].fingerprint = repo]
            /\ todo' = [todo EXCEPT ![p] = Copied]
            /\ Goto(p, "copy") /\ UNCHANGED failed
    /\ UNCHANGED <<repo, cache, disk, token, old, into, victim, printed, disturbed, bounds>>

(* The sources are copied one by one, the workstation cache last.          *)
Copy(p) ==
    /\ pc[p] = "copy"
    /\ \/ \E f \in todo[p] :
            /\ staging' = [staging EXCEPT ![p].files[f] = repo[f]]
            /\ todo' = [todo EXCEPT ![p] = @ \ {f}]
            /\ UNCHANGED pc
       \/ /\ todo[p] = {}
          /\ staging' = [staging EXCEPT ![p].payload = cache]
          /\ Goto(p, "seal") /\ UNCHANGED todo
    /\ UNCHANGED <<repo, cache, disk, token, old, into, victim, result, bounds>>

(* The second fingerprint, the read-only modes, the manifest, the rename.  *)
SourceStays(p) == repo = staging[p].fingerprint
Seal(p) ==
    /\ pc[p] = "seal"
    /\ IF ~SourceStays(p) \/ Place(p) # None
       THEN Fail(p) /\ UNCHANGED <<dest, slot>>
       ELSE /\ IF into[p] = "dest"
               THEN dest' = staging[p] /\ Goto(p, "check") /\ UNCHANGED slot
               ELSE slot' = [slot EXCEPT ![token[p]] = staging[p]] /\ Goto(p, "receipt") /\ UNCHANGED dest
            /\ UNCHANGED failed
    /\ UNCHANGED <<repo, cache, receipt, plan, todo, victim, printed, disturbed, bounds>>

WriteReceipt(p) ==
    /\ pc[p] = "receipt"
    /\ IF Verified(slot[token[p]]) = None
       THEN Fail(p) /\ UNCHANGED receipt
       ELSE /\ receipt' = [receipt EXCEPT ![token[p]] = [old |-> old[p], new |-> slot[token[p]]]]
            /\ Goto(p, "exchange") /\ UNCHANGED failed
    /\ UNCHANGED <<repo, cache, dest, slot, plan, todo, victim, printed, disturbed, bounds>>

(* RENAME_EXCHANGE fails when one of the two is gone; both ways end with   *)
(* the removal of what is at the replacement's name.                       *)
Exchange(p) ==
    /\ pc[p] = "exchange"
    /\ IF dest = None \/ slot[token[p]] = None
       THEN /\ slot' = [slot EXCEPT ![token[p]] = None]
            /\ receipt' = [receipt EXCEPT ![token[p]] = None]
            /\ Fail(p) /\ UNCHANGED dest
       ELSE /\ dest' = slot[token[p]] /\ slot' = [slot EXCEPT ![token[p]] = dest]
            /\ Goto(p, "unlockold") /\ UNCHANGED <<receipt, failed>>
    /\ UNCHANGED <<repo, cache, plan, todo, victim, printed, disturbed, bounds>>

UnlockOld(p) ==
    /\ pc[p] = "unlockold" /\ Goto(p, "unlinkold")
    /\ slot' = [slot EXCEPT ![token[p]] = Broken(@)]
    /\ UNCHANGED <<repo, cache, dest, receipt, plan, todo, victim, result, bounds>>

UnlinkOld(p) ==
    /\ pc[p] = "unlinkold" /\ Goto(p, "check")
    /\ slot' = [slot EXCEPT ![token[p]] = None]
    /\ receipt' = [receipt EXCEPT ![token[p]] = None]
    /\ UNCHANGED <<repo, cache, dest, plan, todo, victim, result, bounds>>

(* verify_context, then validate_connected_context_inputs: fingerprint and *)
(* lock against the repository as it is now, the payload against the lock. *)
Check(p) ==
    /\ pc[p] = "check"
    /\ IF Whole(dest)
       THEN staging' = [staging EXCEPT ![p] = dest] /\ Goto(p, "validate") /\ UNCHANGED failed
       ELSE Fail(p) /\ UNCHANGED staging
    /\ UNCHANGED <<repo, cache, disk, token, old, into, todo, victim, printed, disturbed, bounds>>

InputsHold(tree) ==
    /\ tree.fingerprint = repo
    /\ tree.files["lock"] = repo["lock"]
    /\ tree.payload = repo["lock"]

Validate(p) ==
    /\ pc[p] = "validate"
    /\ IF dest # None /\ InputsHold(dest)
       THEN printed' = [printed EXCEPT ![p] = staging[p]] /\ Goto(p, "idle") /\ UNCHANGED failed
       ELSE Fail(p) /\ UNCHANGED printed
    /\ UNCHANGED <<repo, cache, disk, plan, todo, victim, disturbed, bounds>>

Crash(p) ==
    /\ Running(p) /\ crashes < MaxCrashes
    /\ crashes' = crashes + 1 /\ Goto(p, "idle")
    /\ UNCHANGED <<repo, cache, disk, plan, todo, victim, result, runs, edits>>

(* An edit brings new content: no earlier content comes back.              *)
Active == {p \in Procs : Running(p)}
Edit(f) ==
    /\ edits < MaxEdits /\ edits' = edits + 1
    /\ repo' = [repo EXCEPT ![f] = @ + 1]
    /\ disturbed' = [p \in Procs |-> disturbed[p] \/ p \in Active]
    /\ UNCHANGED <<cache, disk, pc, plan, todo, victim, printed, failed, runs, crashes>>

(* prefetch publishes the workstation cache for the lock as it is.         *)
Prefetch ==
    /\ cache # repo["lock"] /\ cache' = repo["lock"]
    /\ disturbed' = [p \in Procs |-> disturbed[p] \/ p \in Active]
    /\ UNCHANGED <<repo, disk, pc, plan, todo, victim, printed, failed, bounds>>

Step(p) ==
    \/ Begin(p) \/ Recover(p) \/ Unlock(p) \/ Unlink(p) \/ Look(p) \/ Read(p) \/ Fingerprint(p)
    \/ Copy(p) \/ Seal(p) \/ WriteReceipt(p) \/ Exchange(p) \/ UnlockOld(p) \/ UnlinkOld(p)
    \/ Check(p) \/ Validate(p) \/ Crash(p)

Next == Prefetch \/ (\E f \in Files : Edit(f)) \/ (\E p \in Procs : Step(p))
Spec == Init /\ [][Next]_vars

-----------------------------------------------------------------------------
(* Every tree on disk is a tree, and a receipt names verified trees only:  *)
(* recovery can tell them from anything else.                              *)
Versions == [Files -> 0..MaxEdits + 1]
Trees == [files : Versions, fingerprint : Versions, payload : 0..MaxEdits + 1, whole : BOOLEAN]
TypeOK ==
    /\ dest \in Trees \cup {None} /\ \A t \in Tokens : slot[t] \in Trees \cup {None}
    /\ \A t \in Tokens : receipt[t] # None =>
        /\ receipt[t].new \in Trees /\ receipt[t].new.whole
        /\ receipt[t].old = None \/ (receipt[t].old \in Trees /\ receipt[t].old.whole)

(* RENAME_EXCHANGE publishes: once a verified context is in use, there is  *)
(* a verified context in use after every step, a kill included.            *)
ContextIsAlwaysThere == [][Whole(dest) => Whole(dest')]_vars

(* The second fingerprint of assemble_connected: a context in use holds    *)
(* the very files its sealed fingerprint names, whatever was edited while  *)
(* they were copied.                                                       *)
SealedIsCopied == Whole(dest) => \A f \in Copied : dest.files[f] = dest.fingerprint[f]

(* What validate_connected_context_inputs adds: a digest is printed only   *)
(* for a context whose lock, sources and workstation payload all belong to *)
(* one state of the repository.                                            *)
PrintedIsOneSource ==
    \A p \in Procs : printed[p] # None =>
        /\ printed[p].files = printed[p].fingerprint
        /\ printed[p].payload = printed[p].files["lock"]

(* recover_owned_replacements runs before anything is assembled: no whole  *)
(* tree with a receipt is left by then, whether it was killed before the   *)
(* exchange or after it.                                                   *)
OwnedIsRecovered ==
    \A p \in Procs : pc[p] \in {"look", "read", "fingerprint", "copy", "seal"} =>
        \A t \in Tokens : receipt[t] # None => ~Whole(slot[t])

(* Nothing a killed run left stands in the way of the next one: a run      *)
(* fails only when the repository, the cache or another run changed        *)
(* something under it.                                                     *)
CrashBlocksNothing == \A p \in Procs : failed[p] => disturbed[p]
=============================================================================
