----------------------------- MODULE Controller -----------------------------
(***************************************************************************)
(* The migration of the controller's SQLite database from the runtime      *)
(* directory to its durable place (gascand/src/controller_state.rs), which *)
(* runs at every daemon start.  Every change of a directory another start  *)
(* can find after a crash is an action.  A database is a family of files:  *)
(* committed rows may be in the -wal only, so the database file without    *)
(* its -wal is an older state of it.  What the file checks guard against   *)
(* beyond that, files substituted while the daemon looks at them, has no   *)
(* actor here.  The lifecycle supervisor keeps an older daemon from        *)
(* running during a start.                                                 *)
(***************************************************************************)
EXTENDS Naturals, Sequences, SequencesExt, FiniteSets

CONSTANTS
    MaxVersion,  \* bound on the states the two databases go through
    MaxStarts,   \* bound on the daemon starts
    MaxFaults    \* bound on the failing calls

Sidecars == <<"-shm", "-wal">>
Names == <<"db">> \o Sidecars
Files == ToSet(Names)
NoFile == [id |-> 0, v |-> 0]
Empty == [n \in Files |-> NoFile]
Present(family) == {n \in Files : family[n] # NoFile}

VARIABLES
    durable,     \* what the durable database holds, 0 when there is none
    active,      \* the family in the runtime directory: [Files -> [id, v]]
    walled,      \* versions whose last rows are only in the -wal
    quarantines, \* archive quarantines: [phase, ids, files]
    backups,     \* the legacy backups in the controller directory, in order
    temps,       \* migration temporaries in the controller directory
    pc,          \* where the start is
    legacy,      \* the family open_legacy_state opened
    snap,        \* what the legacy snapshot holds
    todo,        \* the files still to copy, move or put back
    outcome,     \* how the last start ended
    version, starts, faults,
    old,         \* the last state an older daemon left in the legacy database
    absorbed,    \* states the durable database holds or grew from
    foreign      \* the two databases differ by more than this daemon's work

disk == <<durable, active, walled, quarantines, backups, temps>>
local == <<legacy, snap, todo>>
bounds == <<version, starts, faults>>
history == <<old, absorbed, foreign>>
vars == <<disk, pc, local, outcome, bounds, history>>

(* What opening the family shows: an older state without its -wal.         *)
Outdated == MaxVersion + 1

Content(family) ==
    LET v == family["db"].v
    IN IF v \in walled /\ family["-wal"].v # v THEN Outdated ELSE v

Written(v, sides, family) ==
    [n \in Files |->
        IF n = "db" \/ n \in sides
        THEN [id |-> IF family[n] = NoFile THEN v ELSE family[n].id, v |-> v]
        ELSE NoFile]

Shapes == {{}, {"-wal", "-shm"}}

Init ==
    /\ \E sides \in Shapes :
          /\ active \in {Empty, Written(1, sides, Empty), [Written(1, sides, Empty) EXCEPT !["db"] = NoFile]}
          /\ walled = IF sides = {} THEN {} ELSE {1}
    /\ durable \in {0, 1, 2}
    /\ quarantines = {} /\ backups = <<>> /\ temps = {}
    /\ pc = "idle" /\ outcome = "none"
    /\ legacy = Empty /\ snap = 0 /\ todo = <<>>
    /\ version = 2 /\ starts = 0 /\ faults = 0
    /\ old = active["db"].v /\ absorbed = {durable}
    /\ foreign = (old # 0 /\ durable \notin {0, old})

Refuse(why) == pc' = "idle" /\ outcome' = why /\ legacy' = Empty /\ snap' = 0 /\ todo' = <<>>
Goto(label) == pc' = label /\ UNCHANGED outcome

Start ==
    /\ pc = "idle" /\ starts < MaxStarts
    /\ starts' = starts + 1
    /\ Goto("recover")
    /\ UNCHANGED <<disk, local, version, faults, history>>

-----------------------------------------------------------------------------
(* recover_legacy_archive_transactions *)

Ids(family) == [n \in Files |-> family[n].id]

(* Each file the marker lists is at exactly one of its two places.         *)
PreparedLayout(q) ==
    \A n \in Files :
        IF q.ids[n] # 0
        THEN /\ (active[n] = NoFile) # (q.files[n] = NoFile)
             /\ q.ids[n] \in {active[n].id, q.files[n].id}
        ELSE n # "db" => active[n] = NoFile

WellFormed(q) ==
    \/ q.phase = "committed" /\ Ids(q.files) = q.ids
    \/ q.phase = "restored" /\ q.files = Empty
    \/ q.phase = "prepared" /\ PreparedLayout(q)

Prepared == {q \in quarantines : q.phase = "prepared"}

Order(names) == SelectSeq(Names, LAMBDA n : n \in names)

(* The order of a restoration: the sidecars in reverse, the database last. *)
BackOrder(names) == SelectSeq(Reverse(Sidecars) \o <<"db">>, LAMBDA n : n \in names)

Recover ==
    /\ pc = "recover"
    /\ IF (\A q \in quarantines : WellFormed(q)) /\ Cardinality(Prepared) <= 1
       THEN IF Prepared = {}
            THEN Goto("cleanup") /\ UNCHANGED local
            ELSE /\ Goto("recoverFiles")
                 /\ \E q \in Prepared : todo' = BackOrder(Present(q.files))
                 /\ UNCHANGED <<legacy, snap>>
       ELSE Refuse("unsafe")
    /\ UNCHANGED <<disk, bounds, history>>

Replaced(q, r) == quarantines' = (quarantines \ {q}) \cup {r}

(* One rename out of the quarantine, for the start after a crash, for a    *)
(* transaction that is given up, and for a move that failed half-way.      *)
PutBack ==
    /\ pc \in {"recoverFiles", "restore", "unmove"}
    /\ todo # <<>>
    /\ \E q \in Prepared :
          /\ active' = [active EXCEPT ![Head(todo)] = q.files[Head(todo)]]
          /\ Replaced(q, [q EXCEPT !.files[Head(todo)] = NoFile])
    /\ todo' = Tail(todo)
    /\ UNCHANGED <<durable, walled, backups, temps, pc, legacy, snap, outcome, bounds, history>>

(* transition_archive_marker, prepared to restored.                        *)
MarkRestored ==
    /\ pc \in {"recoverFiles", "restore"} /\ todo = <<>>
    /\ \E q \in Prepared : Replaced(q, [q EXCEPT !.phase = "restored"])
    /\ IF pc = "recoverFiles" THEN Goto("cleanup") /\ UNCHANGED local ELSE Refuse("failed")
    /\ UNCHANGED <<durable, active, walled, backups, temps, bounds, history>>

(* The error of a failed move is returned with the marker still prepared.  *)
Unmoved ==
    /\ pc = "unmove" /\ todo = <<>>
    /\ Refuse("failed")
    /\ UNCHANGED <<disk, bounds, history>>

-----------------------------------------------------------------------------
(* open_controller_store *)

CleanupTemp ==
    /\ pc \in {"cleanup", "compared", "archived"}
    /\ \E t \in temps : temps' = temps \ {t}
    /\ UNCHANGED <<durable, active, walled, quarantines, backups, pc, local, outcome, bounds, history>>

LegacyState == IF active["db"] = NoFile THEN Empty ELSE active
LegacyOrphans == IF active["db"] = NoFile THEN Present(active) ELSE {}

Decide ==
    /\ pc = "cleanup" /\ temps = {}
    /\ IF durable = 0 /\ LegacyOrphans # {}
       THEN Refuse("unsafe")
       ELSE /\ legacy' = active
            /\ Goto(CASE LegacyState # Empty -> "stage"
                      [] LegacyState = Empty /\ LegacyOrphans # {} -> "backup"
                      [] OTHER -> IF durable # 0 THEN "open" ELSE "create")
            /\ todo' = Order(LegacyOrphans)
            /\ UNCHANGED snap
    /\ UNCHANGED <<disk, bounds, history>>

(* A fresh durable database.                                               *)
Create ==
    /\ pc = "create" /\ version < MaxVersion
    /\ version' = version + 1
    /\ durable' = version + 1
    /\ absorbed' = {version + 1}
    /\ Goto("open")
    /\ UNCHANGED <<active, walled, quarantines, backups, temps, local, starts, faults, old, foreign>>

(* make_snapshot: private copies of the family are staged, then read       *)
(* through SQLite's backup into the snapshot; the durable database is      *)
(* staged and read the same way when there is one.                         *)
Stage ==
    /\ pc = "stage"
    /\ temps' = temps \cup {"source"}
    /\ Goto("snapshot")
    /\ UNCHANGED <<durable, active, walled, quarantines, backups, local, bounds, history>>

Snapshot ==
    /\ pc = "snapshot"
    /\ temps' = temps \cup {"snapshot"}
    /\ snap' = Content(legacy)
    /\ Goto(IF durable = 0 THEN "publish" ELSE "compare")
    /\ UNCHANGED <<durable, active, walled, quarantines, backups, legacy, todo, bounds, history>>

(* Neither database is merged into the other: unequal ones are a conflict. *)
Compare ==
    /\ pc = "compare"
    /\ Goto("compared")
    /\ UNCHANGED <<disk, local, bounds, history>>

Compared ==
    /\ pc = "compared" /\ temps = {}
    /\ IF snap = durable
       THEN Goto("backup") /\ todo' = Order(Present(legacy)) /\ UNCHANGED <<legacy, snap>>
       ELSE Refuse("conflict")
    /\ absorbed' = absorbed \cup ({snap} \cap {durable})
    /\ UNCHANGED <<disk, bounds, old, foreign>>

\* Mistake: the archival is left to the next start.
PublishOnly ==
    /\ pc = "publish"
    /\ durable' = snap
    /\ temps' = temps \ {"snapshot"}
    /\ absorbed' = {snap}
    /\ Goto("open")
    /\ UNCHANGED <<active, walled, quarantines, backups, local, bounds, old, foreign>>

(* The snapshot is renamed to the durable name.                            *)
Publish ==
    /\ pc = "publish"
    /\ IF durable # 0
       THEN Refuse("conflict") /\ UNCHANGED <<durable, temps, absorbed>>
       ELSE /\ durable' = snap /\ absorbed' = {snap}
            /\ temps' = temps \ {"snapshot"}
            /\ Goto("backup") /\ todo' = Order(Present(legacy))
            /\ UNCHANGED <<legacy, snap>>
    /\ UNCHANGED <<active, walled, quarantines, backups, bounds, old, foreign>>

-----------------------------------------------------------------------------
(* archive_legacy_state and archive_legacy_orphans *)

(* The files of a backup share one name, which no earlier backup has.      *)
BackupOf(copied) ==
    IF copied = {} THEN Append(backups, Empty) ELSE backups

CopyBackup ==
    /\ pc = "backup" /\ todo # <<>>
    /\ LET named == BackupOf(Present(legacy) \ ToSet(todo))
       IN backups' = [named EXCEPT ![Len(named)][Head(todo)] = legacy[Head(todo)]]
    /\ todo' = Tail(todo)
    /\ UNCHANGED <<durable, active, walled, quarantines, temps, pc, legacy, snap, outcome, bounds, history>>

(* mkdir: from here to the end of WriteMarker the quarantine has no marker *)
(* that recovery accepts.                                                  *)
MakeQuarantine ==
    /\ pc = "backup" /\ todo = <<>> /\ legacy["db"] # NoFile
    /\ quarantines' = quarantines \cup {[phase |-> "unmarked", ids |-> Ids(legacy), files |-> Empty]}
    /\ Goto("mark")
    /\ UNCHANGED <<durable, active, walled, backups, temps, local, bounds, history>>

WriteMarker ==
    /\ pc = "mark"
    /\ \E q \in quarantines : q.phase = "unmarked" /\ Replaced(q, [q EXCEPT !.phase = "prepared"])
    /\ Goto("move")
    /\ todo' = Order(Present(legacy))
    /\ UNCHANGED <<durable, active, walled, backups, temps, legacy, snap, bounds, history>>

Move ==
    /\ pc = "move" /\ todo # <<>>
    /\ \E q \in Prepared : Replaced(q, [q EXCEPT !.files[Head(todo)] = active[Head(todo)]])
    /\ active' = [active EXCEPT ![Head(todo)] = NoFile]
    /\ todo' = Tail(todo)
    /\ UNCHANGED <<durable, walled, backups, temps, pc, legacy, snap, outcome, bounds, history>>

Moved ==
    /\ pc = "move" /\ todo = <<>>
    /\ Goto("archived")
    /\ UNCHANGED <<disk, local, bounds, history>>

(* A rename that fails puts the files moved so far back.                   *)
MoveFails ==
    /\ pc = "move" /\ todo # <<>> /\ faults < MaxFaults
    /\ faults' = faults + 1
    /\ Goto("unmove")
    /\ \E q \in Prepared : todo' = BackOrder(Present(q.files))
    /\ UNCHANGED <<disk, legacy, snap, version, starts, history>>

(* The orphans go to a quarantine of their own, which recovery ignores.    *)
MoveOrphan ==
    /\ pc = "backup" /\ todo = <<>> /\ legacy["db"] = NoFile
    /\ \E n \in Present(active) : active' = [active EXCEPT ![n] = NoFile]
    /\ UNCHANGED <<durable, walled, quarantines, backups, temps, pc, local, outcome, bounds, history>>

OrphansMoved ==
    /\ pc = "backup" /\ todo = <<>> /\ legacy["db"] = NoFile /\ active = Empty
    /\ Goto("open")
    /\ UNCHANGED <<disk, local, bounds, history>>

(* open_existing_controller_store, after the temporaries are cleaned; a    *)
(* failing validation, clean-up or open takes the archival back.           *)
OpenArchived ==
    /\ pc = "archived" /\ temps = {}
    /\ Goto("commit")
    /\ UNCHANGED <<disk, local, bounds, history>>

OpenFails ==
    /\ pc \in {"archived", "open"} /\ faults < MaxFaults
    /\ faults' = faults + 1
    /\ IF pc = "open"
       THEN Refuse("failed")
       ELSE /\ Goto("restore")
            /\ \E q \in Prepared : todo' = BackOrder(Present(q.files))
            /\ UNCHANGED <<legacy, snap>>
    /\ UNCHANGED <<disk, version, starts, history>>

Serving == pc' = "serving" /\ outcome' = "open" /\ legacy' = Empty /\ snap' = 0 /\ todo' = <<>>

(* The marker goes from prepared to committed before the store is used.    *)
Commit ==
    /\ pc = "commit"
    /\ \E q \in Prepared : Replaced(q, [q EXCEPT !.phase = "committed"])
    /\ Serving
    /\ foreign' = FALSE
    /\ UNCHANGED <<durable, active, walled, backups, temps, bounds, old, absorbed>>

OpenStore ==
    /\ pc = "open"
    /\ Serving
    /\ foreign' = FALSE
    /\ UNCHANGED <<disk, bounds, old, absorbed>>

-----------------------------------------------------------------------------
(* What happens around the starts.                                         *)

ServiceWrites ==
    /\ pc = "serving" /\ version < MaxVersion
    /\ version' = version + 1
    /\ durable' = version + 1
    /\ absorbed' = absorbed \cup {version + 1}
    /\ UNCHANGED <<active, walled, quarantines, backups, temps, pc, local, outcome, starts, faults, old, foreign>>

(* An older release runs once more on the runtime directory; it closes its *)
(* database (no sidecars) or dies (rows in the -wal).                      *)
OldDaemonWrites ==
    /\ pc = "idle" /\ version < MaxVersion
    /\ version' = version + 1
    /\ \E sides \in Shapes :
          /\ active' = Written(version + 1, sides, active)
          /\ walled' = IF sides = {} THEN walled ELSE walled \cup {version + 1}
    /\ old' = version + 1
    /\ foreign' = TRUE
    /\ UNCHANGED <<durable, quarantines, backups, temps, pc, local, outcome, starts, faults, absorbed>>

Crash ==
    /\ pc # "idle"
    /\ Refuse("crashed")
    /\ UNCHANGED <<disk, bounds, history>>

StartStep ==
    \/ Start \/ Recover \/ PutBack \/ MarkRestored \/ Unmoved \/ CleanupTemp \/ Decide \/ Create
    \/ Stage \/ Snapshot \/ Compare \/ Compared \/ Publish \/ CopyBackup \/ MakeQuarantine
    \/ WriteMarker \/ Move \/ Moved \/ MoveFails \/ MoveOrphan \/ OrphansMoved \/ OpenArchived
    \/ OpenFails \/ Commit \/ OpenStore

Next == StartStep \/ ServiceWrites \/ OldDaemonWrites \/ Crash

Spec == Init /\ [][Next]_vars

-----------------------------------------------------------------------------
Versions == 0..MaxVersion
Phases == {"unmarked", "prepared", "committed", "restored"}
Families == [Files -> [id : Versions, v : Versions]]
Labels == {"idle", "recover", "recoverFiles", "cleanup", "create", "stage", "snapshot", "compare",
           "compared", "publish", "backup", "mark", "move", "unmove", "archived", "restore",
           "commit", "open", "serving"}

(* A start that ended keeps nothing, and one that opened the store has     *)
(* left no temporary.                                                      *)
TypeOK ==
    /\ durable \in Versions \cup {Outdated} /\ active \in Families /\ legacy \in Families
    /\ \A q \in quarantines : q.phase \in Phases /\ q.files \in Families /\ q.ids \in [Files -> Versions]
    /\ \A b \in ToSet(backups) : b \in Families
    /\ temps \subseteq {"source", "snapshot"}
    /\ pc \in Labels /\ ToSet(todo) \subseteq Files
    /\ pc \in {"idle", "serving"} => legacy = Empty /\ todo = <<>>
    /\ pc = "serving" => temps = {}

(* The family a restoration of the quarantine would leave active.          *)
Joined(q) == [n \in Files |-> IF q.files[n] # NoFile THEN q.files[n] ELSE active[n]]

(* Wherever a start is cut off, the last rows an older daemon committed,   *)
(* those in the -wal included, are in the durable database or in the       *)
(* legacy family that the next start finds or puts back together.  An      *)
(* older daemon that runs on a half-archived family leaves them in the     *)
(* backup.                                                                 *)
NothingLost ==
    \/ old = 0 \/ old \in absorbed \/ Content(active) = old
    \/ \E q \in Prepared : Content(Joined(q)) = old
    \/ foreign /\ \E b \in ToSet(backups) : Content(b) = old

(* A start never reports a conflict that its own interrupted work made:    *)
(* only an older daemon's writes make the two databases differ.            *)
ConflictsAreForeign ==
    [][outcome' = "conflict" /\ pc # "idle" => foreign]_vars

(* A daemon that serves has settled the migration: no legacy file is       *)
(* active and no transaction is left for the next start to take back.      *)
ServingIsSettled == pc = "serving" => active = Empty /\ Prepared = {}

(* A legacy file leaves its active name only when the whole family it      *)
(* belongs to has been copied under one backup name, and backups are kept. *)
BackedUp ==
    \A q \in quarantines : \E b \in {Empty} \cup ToSet(backups) :
        \A n \in Present(q.files) : b[n] = q.files[n]

Unmarked == \E q \in quarantines : q.phase = "unmarked"
Orphaned == durable = 0 /\ old = 0 /\ Present(active) # {}

(* A start refuses the directories as unsafe only for what it cannot have  *)
(* left itself, or for a quarantine whose marker was never completed.      *)
RefusalsAreEarned ==
    [][outcome' = "unsafe" /\ pc # "idle" => Unmarked \/ Orphaned \/ foreign]_vars

(* Crash Consistency: an interrupted archival is completed by a later      *)
(* start, at whatever step it was interrupted.                             *)
InterruptedArchivalCompletes ==
    [][outcome' = "unsafe" /\ pc # "idle" => Orphaned \/ foreign]_vars
=============================================================================
