-------------------------- MODULE WorkstationCache --------------------------
(***************************************************************************)
(* prepare-workspace-context --publish-workstation-cache and               *)
(* --publish-target-workstation-cache-from-full: the workstation tools and *)
(* npm records that prefetch downloaded for one image lock are cut down to *)
(* the records of the target, indexed for npm, validated and exchanged     *)
(* with the cache in use.  The tool may be killed at every step and run    *)
(* again on what it left; the lock may be edited in the meantime.          *)
(***************************************************************************)
EXTENDS Naturals, FiniteSets

CONSTANTS
    Target, Excluded,  \* the npm records the target lock keeps and leaves out
    None,              \* no tree, no index
    MaxLock,           \* bound on the versions of the lock
    MaxFetches, MaxRuns, MaxCrashes

Full == Target \cup Excluded

VARIABLES
    lock,      \* the version of the reviewed lock files
    full,      \* an old full cache kept on disk, with the lock it is for
    staging,   \* the staged tree; a killed run leaves it as it is
    private,   \* the private copy of the full cache
    dest,      \* the cache in use
    pc, work,  \* the run: where it is, and which tree it works on
    inputs,    \* the version of the lock it read
    start,     \* the staged tree when the run began
    failed,    \* the last run ended with an error
    fetches, runs, crashes

trees == <<full, staging, private>>
bounds == <<fetches, runs, crashes>>
vars == <<lock, trees, dest, pc, work, inputs, start, failed, bounds>>

(* A tree: the version its receipt and its native artifacts are for, the   *)
(* npm records, and the index entries (None without index-v5).             *)
Cache(version, npm, index) == [version |-> version, npm |-> npm, index |-> index]
Cached == {Cache(v, Target, Target) : v \in 1..MaxLock}

(* validate_workstation_cache_with_inputs: receipt, natives, and exactly   *)
(* these records with exactly their index.                                 *)
Valid(tree, version, npm, index) ==
    tree # None /\ tree.version = version /\ tree.npm = npm /\ tree.index = index

Init ==
    /\ lock = 1 /\ full \in {None, Cache(1, Full, Full)}
    /\ staging = None /\ private = None /\ dest \in {None, Cache(1, Target, Target)}
    /\ pc = "idle" /\ work = "staging" /\ inputs = 1 /\ start = None /\ failed = FALSE
    /\ fetches = 0 /\ runs = 0 /\ crashes = 0

Tree == IF work = "staging" THEN staging ELSE private
Change(tree) ==
    IF work = "staging" THEN staging' = tree /\ UNCHANGED <<full, private>>
                        ELSE private' = tree /\ UNCHANGED <<full, staging>>
Fail == pc' = "idle" /\ failed' = TRUE

EditLock ==
    /\ lock < MaxLock /\ lock' = lock + 1
    /\ UNCHANGED <<trees, dest, pc, work, inputs, start, failed, bounds>>

(* prefetch downloads every record; a broken download misses one.          *)
Prefetch ==
    /\ pc = "idle" /\ fetches < MaxFetches /\ fetches' = fetches + 1
    /\ \E got \in {Full} \cup {Full \ {r} : r \in Full} : staging' = Cache(lock, got, None)
    /\ UNCHANGED <<lock, full, private, dest, pc, work, inputs, start, failed, runs, crashes>>

(* A staging with an index must be finished; one without is either full    *)
(* and still to be pruned, or pruned already.                              *)
Publish ==
    /\ pc = "idle" /\ staging # None /\ runs < MaxRuns /\ runs' = runs + 1
    /\ inputs' = lock /\ work' = "staging" /\ start' = staging
    /\ \/ /\ staging.index # None /\ Valid(staging, lock, Target, Target)
          /\ pc' = "validate" /\ failed' = FALSE
       \/ /\ staging.index = None /\ Valid(staging, lock, Full, None)
          /\ pc' = "prune" /\ failed' = FALSE
       \/ /\ staging.index = None /\ ~Valid(staging, lock, Full, None) /\ Valid(staging, lock, Target, None)
          /\ pc' = "index" /\ failed' = FALSE
       \/ /\ ~Valid(staging, lock, Target, Target) /\ ~Valid(staging, lock, Full, None)
          /\ ~Valid(staging, lock, Target, None)
          /\ Fail
    /\ UNCHANGED <<lock, trees, dest, fetches, crashes>>

(* derive_full_workstation_cache_copy: a private copy with a new receipt   *)
(* and without its index; the full cache itself is never written.          *)
PublishFromFull ==
    /\ pc = "idle" /\ full # None /\ runs < MaxRuns /\ runs' = runs + 1
    /\ inputs' = lock /\ work' = "private" /\ start' = full
    /\ IF Valid(full, lock, Full, Full)
       THEN private' = Cache(lock, Full, None) /\ pc' = "prune" /\ failed' = FALSE
       ELSE Fail /\ UNCHANGED private
    /\ UNCHANGED <<lock, full, staging, dest, fetches, crashes>>

(* prune_workstation_npm_cache removes the excluded records one by one.    *)
Prune ==
    /\ pc = "prune"
    /\ \/ \E r \in Tree.npm \cap Excluded :
            Change([Tree EXCEPT !.npm = @ \ {r}]) /\ UNCHANGED pc
       \/ /\ Tree.npm \cap Excluded = {}
          /\ pc' = "index" /\ UNCHANGED trees
    /\ UNCHANGED <<lock, dest, work, inputs, start, failed, bounds>>

(* prepare_workstation_npm_index writes one entry after another.           *)
Index ==
    /\ pc = "index"
    /\ IF Tree.index = None
       THEN IF Valid(Tree, inputs, Target, None)
            THEN (\E r \in Target : Change([Tree EXCEPT !.index = {r}])) /\ UNCHANGED <<pc, failed>>
            ELSE Fail /\ UNCHANGED trees
       ELSE \/ /\ \E r \in Target \ Tree.index : Change([Tree EXCEPT !.index = @ \cup {r}])
               /\ UNCHANGED <<pc, failed>>
            \/ /\ Tree.index = Target
               /\ pc' = "validate" /\ UNCHANGED <<trees, failed>>
    /\ UNCHANGED <<lock, dest, work, inputs, start, bounds>>

(* The last validation and run_publication_actions: a rename when there is *)
(* no cache yet, else an exchange, and the old tree removed after it.      *)
Exchange ==
    /\ pc = "validate"
    /\ IF ~Valid(Tree, inputs, Target, Target)
       THEN Fail /\ UNCHANGED <<trees, dest>>
       ELSE /\ dest' = Tree /\ Change(dest)
            /\ pc' = (IF dest = None THEN "idle" ELSE "remove") /\ UNCHANGED failed
    /\ UNCHANGED <<lock, work, inputs, start, bounds>>

RemoveOld ==
    /\ pc = "remove" /\ pc' = "idle" /\ Change(None)
    /\ UNCHANGED <<lock, dest, work, inputs, start, failed, bounds>>

Crash ==
    /\ pc # "idle" /\ crashes < MaxCrashes /\ crashes' = crashes + 1
    /\ pc' = "idle" /\ failed' = FALSE
    /\ UNCHANGED <<lock, trees, dest, work, inputs, start, fetches, runs>>

Next ==
    EditLock \/ Prefetch \/ Publish \/ PublishFromFull \/ Prune \/ Index \/ Exchange \/ RemoveOld \/ Crash
Spec == Init /\ [][Next]_vars

-----------------------------------------------------------------------------
(* Trees hold records of the full closure, and only a tree whose excluded  *)
(* records are all gone is ever indexed: the index names nothing that the  *)
(* target leaves out.                                                      *)
Indexed(tree) == tree # None /\ tree.index # None => tree.npm \subseteq Full /\ tree.index \subseteq tree.npm
TypeOK ==
    /\ \A tree \in {full, staging, private, dest} : Indexed(tree)
    /\ \A tree \in {staging, private} : tree # None /\ tree.index # None => tree.npm = Target

(* run_publication_actions: the cache in use is always a finished cache    *)
(* for some reviewed lock, never a tree that is being pruned or indexed.   *)
CacheInUseIsFinished == dest # None => dest \in Cached

(* The exchange: a cache in use is never missing afterwards, a kill        *)
(* between any two steps included.                                         *)
CacheIsAlwaysThere == [][dest # None => dest' # None]_vars

(* A run started again on a staging that an earlier one left between two   *)
(* phases (downloaded, pruned, or indexed) finishes it; refused is only a  *)
(* staging of another lock, a broken download, or one that was left in the *)
(* middle of pruning or indexing.                                          *)
PhasesResume ==
    failed /\ start # None /\ start.version = inputs /\ work = "staging" =>
        <<start.npm, start.index>> \notin {<<Full, None>>, <<Target, None>>, <<Target, Target>>}
=============================================================================
