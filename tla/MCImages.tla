------------------------------ MODULE MCImages ------------------------------
(***************************************************************************)
(* The programs that make the workspace image, for the model checker.      *)
(* They share files of the repository but no process, so a behaviour is    *)
(* one of `part`, and the other parts stay as they were.                   *)
(***************************************************************************)
EXTENDS Naturals, TLC

CONSTANTS Parts, None

VARIABLES
    part,       \* the part a behaviour is of
    \* ImageLock
    latest, replaced, closure, files, lockPc, made, backup, lockStart, index, reader, read,
    wholes, honest, lockRuns, faults, lockCrashes, drifts,
    \* NpmClosure
    packages, deps, size, npmTodo, total, verified, target, verdict,
    \* Context
    repo, cache, contextDest, slot, contextReceipt, contextPc, contextToken, contextStaging,
    old, into, contextTodo, victim, printed, contextFailed, disturbed, contextRuns, edits,
    contextCrashes,
    \* WorkstationCache
    lock, full, cacheStaging, private, cacheDest, cachePc, work, inputs, cacheStart,
    cacheFailed, fetches, cacheRuns, cacheCrashes,
    \* Snapshot
    source, claim, snap, marker, snapshotReceipt, handed, snapshotPc, snapshotToken,
    snapshotTodo, used, snapshotCrashes, changes,
    \* Prefetch
    want, zip, output, tree, fetchReceipt, lockAt, holder, fetchPc, fd, seen, mine, stages,
    kills, removals

lockVars == <<latest, replaced, closure, files, lockPc, made, backup, lockStart, index,
              reader, read, wholes, honest, lockRuns, faults, lockCrashes, drifts>>
npmVars == <<packages, deps, size, npmTodo, total, verified, target, verdict>>
contextVars == <<repo, cache, contextDest, slot, contextReceipt, contextPc, contextToken,
                 contextStaging, old, into, contextTodo, victim, printed, contextFailed,
                 disturbed, contextRuns, edits, contextCrashes>>
cacheVars == <<lock, full, cacheStaging, private, cacheDest, cachePc, work, inputs,
               cacheStart, cacheFailed, fetches, cacheRuns, cacheCrashes>>
snapshotVars == <<source, claim, snap, marker, snapshotReceipt, handed, snapshotPc,
                  snapshotToken, snapshotTodo, used, snapshotCrashes, changes>>
fetchVars == <<want, zip, output, tree, fetchReceipt, lockAt, holder, fetchPc, fd, seen,
               mine, stages, kills, removals>>
vars == <<part, lockVars, npmVars, contextVars, cacheVars, snapshotVars, fetchVars>>

Lock == INSTANCE ImageLock WITH
    NpmTools <- {"claude"}, OtherTools <- {"glab"}, MaxVersion <- 2, MaxRuns <- 2,
    MaxFaults <- 2, MaxCrashes <- 1, MaxDrifts <- 1,
    pc <- lockPc, start <- lockStart, runs <- lockRuns, crashes <- lockCrashes

Npm == INSTANCE NpmClosure WITH
    Paths <- {<<"a">>, <<"b">>, <<"a", "b">>}, Excluded <- {<<"b">>}, Names <- {"a", "b"},
    Sizes <- {1, 3}, PerTarball <- 3, ClosureMaximum <- 5,
    todo <- npmTodo

Ctx == INSTANCE Context WITH
    Procs <- {"p"}, MaxRuns <- 3, MaxEdits <- 2, MaxCrashes <- 1,
    dest <- contextDest, receipt <- contextReceipt, pc <- contextPc, token <- contextToken,
    staging <- contextStaging, todo <- contextTodo, failed <- contextFailed,
    runs <- contextRuns, crashes <- contextCrashes

Cache == INSTANCE WorkstationCache WITH
    Target <- {"t1", "t2"}, Excluded <- {"x1", "x2"}, MaxLock <- 2, MaxFetches <- 2,
    MaxRuns <- 3, MaxCrashes <- 2,
    staging <- cacheStaging, dest <- cacheDest, pc <- cachePc, start <- cacheStart,
    failed <- cacheFailed, runs <- cacheRuns, crashes <- cacheCrashes

Snap == INSTANCE Snapshot WITH
    Callers <- {"u", "v"}, Hands <- {1, 2}, Files <- {"f", "g"}, MaxTokens <- 2,
    MaxCrashes <- 1, MaxChanges <- 1,
    receipt <- snapshotReceipt, pc <- snapshotPc, token <- snapshotToken,
    todo <- snapshotTodo, crashes <- snapshotCrashes

Fetch == INSTANCE Prefetch WITH
    Procs <- {"p1", "p2"}, Versions <- {"v1", "v2"}, MaxStages <- 3, MaxKills <- 1,
    MaxRemovals <- 1,
    receipt <- fetchReceipt, pc <- fetchPc

-----------------------------------------------------------------------------

\* The parts that are not looked at start, and stay, in one initial state.
Init ==
    /\ part \in Parts
    /\ Lock!Init
    /\ IF part = "npm" THEN TRUE
       ELSE /\ packages = {<<>>} /\ deps = (<<>> :> {}) /\ size = <<>>
            /\ target = [included |-> 0, excluded |-> 0, bytes |-> 0]
    /\ Npm!Init
    /\ IF part = "context" THEN TRUE ELSE contextDest = None
    /\ Ctx!Init
    /\ IF part = "cache" THEN TRUE ELSE full = None /\ cacheDest = None
    /\ Cache!Init
    /\ Snap!Init
    /\ IF part = "fetch" THEN TRUE ELSE want = "v1"
    /\ Fetch!Init

\* A step of the part p leaves the others alone.
Only(p) ==
    /\ part = p /\ UNCHANGED part
    /\ IF p = "lock" THEN TRUE ELSE UNCHANGED lockVars
    /\ IF p = "npm" THEN TRUE ELSE UNCHANGED npmVars
    /\ IF p = "context" THEN TRUE ELSE UNCHANGED contextVars
    /\ IF p = "cache" THEN TRUE ELSE UNCHANGED cacheVars
    /\ IF p = "snapshot" THEN TRUE ELSE UNCHANGED snapshotVars
    /\ IF p = "fetch" THEN TRUE ELSE UNCHANGED fetchVars

Next ==
    \/ Only("lock") /\ Lock!Next
    \/ Only("npm") /\ Npm!Next
    \/ Only("context") /\ Ctx!Next
    \/ Only("cache") /\ Cache!Next
    \/ Only("snapshot") /\ Snap!Next
    \/ Only("fetch") /\ Fetch!Next

Spec == Init /\ [][Next]_vars

-----------------------------------------------------------------------------
\* update-image-lock and verify-image-lock: a bundle reported as published passes
\* every check of the build, an update that fails leaves the three files as it
\* found them, unless restoring them failed as well, what is accepted while they
\* are being replaced was on disk as a whole, and files mixed by a kill do not
\* block the next run.  An npm closure that is accepted is complete under the
\* resolution of the nearest owner and was downloaded to the last package, and one
\* within both bounds is never refused for its size.
LockIsWhole ==
    /\ part = "lock" =>
          /\ Lock!TypeOK /\ Lock!PublishedIsAccepted /\ Lock!FailureChangesNothing
          /\ Lock!VerifiedWasWhole /\ Lock!NextRunHeals
    /\ part = "npm" =>
          /\ Npm!TypeOK /\ Npm!ResolutionIsNearest /\ Npm!AcceptedIsComplete
          /\ Npm!WithinBoundsIsDownloaded

\* prepare-workspace-context and prepare-workstation-cache: what is in use is
\* finished, holds the files that its fingerprint names, and is followed by
\* another at every step, a kill included; a digest is printed for one state of
\* the repository; and nothing that a killed run left blocks or escapes the next.
InputsAreWhole ==
    /\ [](part = "context" =>
             /\ Ctx!TypeOK /\ Ctx!SealedIsCopied /\ Ctx!PrintedIsOneSource
             /\ Ctx!OwnedIsRecovered /\ Ctx!CrashBlocksNothing)
    /\ Ctx!ContextIsAlwaysThere
    /\ [](part = "cache" => Cache!TypeOK /\ Cache!CacheInUseIsFinished /\ Cache!PhasesResume)
    /\ Cache!CacheIsAlwaysThere

\* copy_verified_file and fetch-image-artifact: a receipt that was handed out
\* names the bytes that the caller reviewed, the archive in the cache has been
\* verified, the extracted tree is the whole of one archive and is never taken
\* away, and recovery takes what is stale and spares what is another caller's or
\* what another process is at work on.
CopiesAreWhole ==
    /\ [](part = "snapshot" => Snap!TypeOK /\ Snap!HandedIsReviewed /\ Snap!ActiveIsSpared)
    /\ Snap!StaleIsRecovered /\ Snap!ForeignIsSpared
    /\ [](part = "fetch" => Fetch!TypeOK /\ Fetch!ArchiveIsVerified /\ Fetch!OutputIsWhole)
    /\ Fetch!OutputStays /\ Fetch!LiveTransactionIsKept
    /\ Fetch!EndsWithTheLockedVersion

=============================================================================
