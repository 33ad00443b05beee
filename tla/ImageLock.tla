----------------------------- MODULE ImageLock ------------------------------
(***************************************************************************)
(* update-image-lock: the tool that resolves the workstation tools of the  *)
(* workspace image, keeps what was reviewed, regenerates the npm manifest  *)
(* and lock, and publishes three files as one bundle: manifest, npm lock   *)
(* and image lock, in this order.  The image lock holds the hashes of the  *)
(* other two.  Meanwhile the registries drift, a verifier                  *)
(* (--verify-existing-workstation-lock) reads the files one after another, *)
(* any step may fail and the tool may be killed.                           *)
(***************************************************************************)
EXTENDS Naturals, Sequences, FiniteSets

CONSTANTS
    NpmTools, OtherTools,  \* the reviewed tools, from npm and from releases
    MaxVersion,            \* bound on the versions upstream publishes
    MaxRuns,               \* bound on the updates
    MaxFaults, MaxCrashes, MaxDrifts

Legacy == NpmTools \cup OtherTools
Complete == Legacy \cup {"starship"}
Outputs == <<"manifest", "npm", "lock">>

VARIABLES
    latest,    \* the newest version of each tool upstream
    replaced,  \* tools whose published bytes changed under their version
    closure,   \* what npm resolves the transitive closure to
    files,     \* the three files on disk
    pc, made,  \* the updater: where it is, and what it has made
    backup,    \* the contents it saved before it published
    start,     \* the files when the run began
    index,     \* the output it is at
    reader, read,  \* the verifier: how many files it read, and what
    wholes,    \* every bundle that was whole on disk at some time
    honest,    \* a run whose failure upstream or a fault explains
    runs, faults, crashes, drifts

upstream == <<latest, replaced, closure>>
updater == <<pc, made, backup, start, index, honest>>
verifier == <<reader, read>>
bounds == <<runs, faults, crashes, drifts>>
vars == <<upstream, files, updater, verifier, wholes, bounds>>

Bytes(t, v) == [version |-> v, bytes |-> IF t \in replaced THEN "replaced" ELSE "good"]

(* Hashes are the contents they stand for.                                 *)
Manifest(artifacts) == [t \in NpmTools |-> artifacts[t].version]
Locked(manifest, c) == [top |-> manifest, closure |-> c]
Lock(artifacts, manifest, npm, other) ==
    [artifacts |-> artifacts, manifest |-> manifest, npm |-> npm, other |-> other]

(* reviewed_workstation_npm: the evidence compiled into the tool.          *)
Reviewed == Locked([t \in NpmTools |-> 1], 2)
Old == [t \in Legacy |-> [version |-> 1, bytes |-> "good"]]
OldBundle ==
    LET manifest == Manifest(Old)  npm == Locked(manifest, 1)
    IN  [manifest |-> manifest, npm |-> npm, lock |-> Lock(Old, manifest, npm, "reviewed")]
Nothing == [manifest |-> <<>>, npm |-> <<>>, lock |-> <<>>]

Init ==
    /\ latest = [t \in Complete |-> 1] /\ replaced = {} /\ closure = 2
    /\ files = OldBundle /\ wholes = {OldBundle}
    /\ pc = "idle" /\ made = Nothing /\ backup = Nothing /\ start = files /\ index = 1 /\ honest = TRUE
    /\ reader = 0 /\ read = Nothing
    /\ runs = 0 /\ faults = 0 /\ crashes = 0 /\ drifts = 0

(* validate_workstation_artifacts: every reviewed tool, exactly once, for  *)
(* an exact version.                                                       *)
ValidArtifacts(artifacts) == DOMAIN artifacts = Complete /\ artifacts["starship"].version = 1

(* validate_workstation_package_lock_files with the target lock, whose     *)
(* hash of the npm lock is the reviewed one.                               *)
Accepts(b) ==
    /\ b.manifest = b.lock.manifest /\ b.npm = b.lock.npm
    /\ ValidArtifacts(b.lock.artifacts)
    /\ b.npm.top = Manifest(b.lock.artifacts)
    /\ b.lock.npm = Reviewed

Fault == faults < MaxFaults /\ faults' = faults + 1 /\ UNCHANGED <<runs, crashes, drifts>>

End(outcome, explained) ==
    /\ pc' = outcome /\ honest' = explained
    /\ made' = Nothing /\ backup' = Nothing /\ index' = 1 /\ UNCHANGED start

Stop(outcome, explained) ==
    End(outcome, explained) /\ UNCHANGED <<upstream, files, verifier, wholes>>

Begin ==
    /\ pc \in {"idle", "published", "failed", "torn"} /\ runs < MaxRuns
    /\ runs' = runs + 1 /\ pc' = "resolve" /\ honest' = TRUE /\ start' = files
    /\ UNCHANGED <<upstream, files, made, backup, index, verifier, wholes, faults, crashes, drifts>>

(* preserve_reviewed_workstation_artifacts: reviewed tools stay, whatever  *)
(* the resolvers say; Starship is added once and may never change.         *)
Selected(existing) ==
    [t \in Complete |-> IF t \in Legacy THEN existing[t] ELSE Bytes(t, 1)]

Preserves(existing) ==
    /\ DOMAIN existing \in {Legacy, Complete}
    /\ "starship" \in DOMAIN existing => existing["starship"] = Selected(existing)["starship"]
    /\ ValidArtifacts(Selected(existing))

Upstream == closure = Reviewed.closure /\ replaced = {}

(* Resolving: the reviewed part of the lock is kept, the npm files are     *)
(* generated from it, and the evidence must be the reviewed one.           *)
Resolve ==
    /\ pc = "resolve"
    /\ LET existing == files.lock.artifacts
           artifacts == Selected(existing)
           manifest == Manifest(artifacts)
           npm == Locked(manifest, closure)
       IN  IF Preserves(existing) /\ npm = Reviewed
           THEN /\ made' = [manifest |-> manifest, npm |-> npm,
                            lock |-> Lock(artifacts, manifest, npm, files.lock.other)]
                /\ pc' = "fetch" /\ UNCHANGED <<honest, backup, start, index, upstream, files, verifier, wholes>>
           ELSE Stop("failed", ~Upstream)
    /\ UNCHANGED bounds

NoAnswer == pc = "resolve" /\ Fault /\ Stop("failed", TRUE)

(* verify_existing_workstation_artifacts: what the locked URLs serve now.  *)
Served(artifacts) == \A t \in Complete : artifacts[t] = Bytes(t, artifacts[t].version)

Fetch ==
    /\ pc = "fetch"
    /\ \/ /\ IF Served(made.lock.artifacts)
             THEN pc' = "stage" /\ UNCHANGED <<made, honest, backup, start, index, upstream, files, verifier, wholes>>
             ELSE Stop("failed", ~Upstream)
          /\ UNCHANGED bounds
       \/ Fault /\ Stop("failed", TRUE)

(* Staging writes, syncs and validates all three before any is published.  *)
Stage ==
    /\ pc = "stage"
    /\ \/ /\ IF Accepts(made)
             THEN pc' = "backup" /\ UNCHANGED <<made, honest, backup, start, index, upstream, files, verifier, wholes>>
             ELSE Stop("failed", FALSE)
          /\ UNCHANGED bounds
       \/ Fault /\ Stop("failed", TRUE)

\* Mistake: nothing is kept to restore.
BackupNothing ==
    /\ pc = "backup" /\ pc' = "publish"
    /\ UNCHANGED <<upstream, files, made, backup, start, index, honest, verifier, wholes, bounds>>

Backup ==
    /\ pc = "backup"
    /\ \/ /\ backup' = files /\ pc' = "publish"
          /\ UNCHANGED <<upstream, files, made, start, index, honest, verifier, wholes, bounds>>
       \/ Fault /\ Stop("failed", TRUE)

Put(name, bundle) ==
    /\ files' = [files EXCEPT ![name] = bundle[name]]
    /\ index' = index + 1

(* The renames; an error takes back all of them, then syncs the directory. *)
Publish ==
    /\ pc = "publish"
    /\ \/ /\ index <= 3 /\ Put(Outputs[index], made)
          /\ wholes' = IF index = 3 THEN wholes \cup {files'} ELSE wholes
          /\ UNCHANGED <<upstream, pc, made, backup, start, honest, verifier, bounds>>
       \/ /\ index = 4 /\ Stop("published", TRUE) /\ UNCHANGED bounds
       \/ /\ Fault /\ pc' = "restore" /\ index' = 1
          /\ UNCHANGED <<upstream, files, made, backup, start, honest, verifier, wholes>>

(* restore_generated_bundle; when it fails in turn the files stay mixed.   *)
Restore ==
    /\ pc = "restore"
    /\ \/ /\ index <= 3 /\ Put(Outputs[index], backup)
          /\ UNCHANGED <<upstream, pc, made, backup, start, honest, verifier, wholes, bounds>>
       \/ index = 4 /\ Stop("failed", TRUE) /\ UNCHANGED bounds
       \/ Fault /\ Stop("torn", TRUE)

Crash ==
    /\ crashes < MaxCrashes /\ pc \notin {"idle", "published", "failed", "torn"}
    /\ crashes' = crashes + 1
    /\ Stop("torn", TRUE)
    /\ UNCHANGED <<runs, faults, drifts>>

(* Upstream publishes a version, changes published bytes, or the           *)
(* transitive closure moves.                                               *)
Drift ==
    /\ drifts < MaxDrifts /\ drifts' = drifts + 1
    /\ \/ \E t \in Complete : latest[t] < MaxVersion
          /\ latest' = [latest EXCEPT ![t] = @ + 1] /\ UNCHANGED <<replaced, closure>>
       \/ \E t \in Complete \ replaced : replaced' = replaced \cup {t} /\ UNCHANGED <<latest, closure>>
       \/ closure < 3 /\ closure' = closure + 1 /\ UNCHANGED <<latest, replaced>>
    /\ UNCHANGED <<files, updater, verifier, wholes, runs, faults, crashes>>

(* read_existing_bundle_without_writes: one file after another.            *)
Read ==
    /\ reader < 3
    /\ reader' = reader + 1
    /\ read' = [read EXCEPT ![Outputs[reader + 1]] = files[Outputs[reader + 1]]]
    /\ UNCHANGED <<upstream, files, updater, wholes, bounds>>

Verify ==
    /\ reader = 3
    /\ reader' = IF Accepts(read) /\ Served(read.lock.artifacts) THEN 4 ELSE 5
    /\ UNCHANGED <<upstream, files, updater, read, wholes, bounds>>

Again == reader > 3 /\ reader' = 0 /\ read' = Nothing /\ UNCHANGED <<upstream, files, updater, wholes, bounds>>

Next ==
    \/ Begin \/ Resolve \/ NoAnswer \/ Fetch \/ Stage \/ Backup \/ Publish \/ Restore \/ Crash
    \/ Drift \/ Read \/ Verify \/ Again

Spec == Init /\ [][Next]_vars

-----------------------------------------------------------------------------
(* The variables have their types, and outputs are replaced only while all *)
(* of the old contents are backed up.                                      *)
TypeOK ==
    /\ latest \in [Complete -> 1..MaxVersion] /\ replaced \subseteq Complete /\ closure \in 2..3
    /\ pc \in {"idle", "resolve", "fetch", "stage", "backup", "publish", "restore", "published", "failed", "torn"}
    /\ index \in 1..4 /\ reader \in 0..5 /\ honest \in BOOLEAN
    /\ backup # Nothing <=> pc \in {"publish", "restore"}
    /\ made # Nothing <=> pc \in {"fetch", "stage", "backup", "publish", "restore"}

(* A bundle the updater reports as published passes every check that the   *)
(* build runs on it (validate_workstation_package_lock_files).             *)
PublishedIsAccepted == pc = "published" => Accepts(files)

(* An update that fails, at whatever step, leaves the files as they were   *)
(* when it began; only a restoration that fails too may mix them           *)
(* (publish_generated_bundle_with, restore_generated_bundle).              *)
FailureChangesNothing == pc = "failed" => files = start

(* The verifier reads the three files while they are replaced one by one;  *)
(* what it accepts was on disk as a whole at some time.                    *)
VerifiedWasWhole == reader = 4 => read \in wholes

(* A tool that was killed or whose restoration failed leaves mixed files,  *)
(* and the next run is not blocked by them: it fails only for a fault of   *)
(* its own or for what upstream serves.                                    *)
NextRunHeals == pc = "failed" => honest

=============================================================================
