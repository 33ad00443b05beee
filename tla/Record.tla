------------------------------- MODULE Record -------------------------------
(***************************************************************************)
(* The daemon's instance record, `daemon-instance.json`, and everybody who *)
(* touches it: daemons that publish and retire it (gascand/src/socket.rs), *)
(* the CLI that reclaims the record of a dead daemon, and the CLI that     *)
(* reads it while it moves (gascan/src/daemon.rs).  One action is one      *)
(* system call that another process can see, so every interleaving of the  *)
(* renames, chmods, truncations, stats and reads is explored, the two      *)
(* halves of an `lstat` (resolve the name, then copy the attributes)       *)
(* included.                                                               *)
(***************************************************************************)
EXTENDS Naturals, FiniteSets

CONSTANTS
    Daemons,    \* daemon processes, each started once
    Exclusive   \* only the holder of the socket starts, as prepare_socket has it

Old == "old"        \* a daemon of an earlier life, dead before we look
Cli == "cli"        \* the process that reclaims under the lifecycle lock
None == <<"none", "none">>

\* The inodes: each writer creates at most one of each kind.
Files == (Daemons \X {"record", "inert"}) \cup {<<Old, "record">>, <<Old, "inert">>, <<Cli, "inert">>}

VARIABLES
    file,    \* [Files -> [mode, full, at]]: permission, has content, where it is linked
    pc,      \* [Daemons -> where the daemon is]
    seen,    \* [Daemons -> the inode its clear_inert_destination judged inert]
    aside,   \* [Daemons -> the inode it holds in quarantine]
    cli,     \* the reclaiming CLI: where it is and the record it holds open
    rd       \* the reading CLI: [pc, bind, node, want, fd, data, out]

vars == <<file, pc, seen, aside, cli, rd>>

Nowhere == [mode |-> "inert", full |-> FALSE, at |-> "none"]
At(place) == {f \in Files : file[f].at = place}
Name == IF At("name") = {} THEN None ELSE CHOOSE f \in At("name") : TRUE
Linked(f) == file[f].at # "none"
IsInert(f) == Linked(f) /\ file[f].mode = "inert" /\ ~file[f].full

\* Mistake: what was at the name keeps it.
RenamedBeside(f, place) == [file EXCEPT ![f].at = place]

\* rename(2) of f to `place`, replacing whatever is linked there.
Renamed(f, place) ==
    [g \in Files |->
        IF g = f THEN [file[g] EXCEPT !.at = place]
        ELSE IF place = "name" /\ file[g].at = "name" THEN [file[g] EXCEPT !.at = "none"]
        ELSE file[g]]
Unlinked(S) == [g \in Files |-> IF g \in S THEN [file[g] EXCEPT !.at = "none"] ELSE file[g]]

(* The path before the first step: no record, a tombstone, or the record   *)
(* of a daemon that was killed.                                            *)
Init ==
    /\ \E first \in {None, <<Old, "inert">>, <<Old, "record">>} :
          file = [f \in Files |->
                    IF f # first THEN Nowhere
                    ELSE IF f[2] = "inert" THEN [Nowhere EXCEPT !.at = "name"]
                    ELSE [mode |-> "private", full |-> TRUE, at |-> "name"]]
    /\ pc = [d \in Daemons |-> "new"]
    /\ seen = [d \in Daemons |-> None]
    /\ aside = [d \in Daemons |-> None]
    /\ cli = [pc |-> "idle", held |-> None]
    /\ rd = [pc |-> "idle", bind |-> FALSE, node |-> None, want |-> None, fd |-> None,
             data |-> FALSE, out |-> "none"]

Goto(d, label) == pc' = [pc EXCEPT ![d] = label]

-----------------------------------------------------------------------------
(* Publication: write_instance_record.                                     *)

\* The daemon has bound its socket (the daemon before it has dropped its own).
HoldsSocket(d) == pc[d] \notin {"new", "gone", "retire", "rstage", "rcommit", "rtrunc", "rchmod", "echmod", "etrunc"}

Bind(d) ==
    /\ pc[d] = "new"
    /\ Exclusive => \A e \in Daemons : ~HoldsSocket(e)
    /\ Goto(d, "sweep")
    /\ UNCHANGED <<file, seen, aside, cli, rd>>

(* sweep_abandoned_staging: staged files of anyone go, live or not.  Each  *)
(* removal may lose its race and is then skipped, so any subset goes.      *)
Sweep(d) ==
    /\ pc[d] = "sweep"
    /\ \E S \in SUBSET At("staging") : file' = Unlinked(S)
    /\ Goto(d, "stage")
    /\ UNCHANGED <<seen, aside, cli, rd>>

StageRecord(d) ==
    /\ pc[d] = "stage"
    /\ file' = [file EXCEPT ![<<d, "record">>] = [Nowhere EXCEPT !.at = "staging"]]
    /\ Goto(d, "write")
    /\ UNCHANGED <<seen, aside, cli, rd>>

WriteRecord(d) ==
    /\ pc[d] = "write"
    /\ file' = [file EXCEPT ![<<d, "record">>].full = TRUE]
    /\ Goto(d, "chmod")
    /\ UNCHANGED <<seen, aside, cli, rd>>

ChmodRecord(d) ==
    /\ pc[d] = "chmod"
    /\ file' = [file EXCEPT ![<<d, "record">>].mode = "private"]
    /\ Goto(d, "commit")
    /\ UNCHANGED <<seen, aside, cli, rd>>

(* renameat2(NOREPLACE): a staging name that was swept, or a name that is  *)
(* taken after the destination was cleared, fails the publication.  The    *)
(* guard then removes what is left under the staging name.                 *)
Commit(d) ==
    /\ pc[d] \in {"commit", "recommit"}
    /\ LET mine == <<d, "record">> IN
       IF file[mine].at = "staging" /\ Name = None
       THEN /\ file' = Renamed(mine, "name")
            /\ Goto(d, "serving")
       ELSE IF file[mine].at = "staging" /\ pc[d] = "commit"
       THEN /\ Goto(d, "clear")
            /\ UNCHANGED file
       ELSE /\ file' = Unlinked({mine})
            /\ Goto(d, "gone")
    /\ UNCHANGED <<seen, aside, cli, rd>>

(* clear_inert_destination: only an inert file may be cleared.             *)
JudgeDestination(d) ==
    /\ pc[d] = "clear"
    /\ IF Name = None
       THEN Goto(d, "recommit") /\ UNCHANGED <<file, seen>>
       ELSE IF IsInert(Name)
       THEN Goto(d, "quarantine") /\ seen' = [seen EXCEPT ![d] = Name] /\ UNCHANGED file
       ELSE Goto(d, "gone") /\ file' = Unlinked({<<d, "record">>}) /\ UNCHANGED seen
    /\ UNCHANGED <<aside, cli, rd>>

(* remove_named_identity: move aside first, then look at what was moved.   *)
Quarantine(d) ==
    /\ pc[d] = "quarantine"
    /\ IF Name = None
       THEN Goto(d, "gone") /\ file' = Unlinked({<<d, "record">>}) /\ UNCHANGED aside
       ELSE Goto(d, "moved") /\ file' = Renamed(Name, "aside") /\ aside' = [aside EXCEPT ![d] = Name]
    /\ UNCHANGED <<seen, cli, rd>>

JudgeMoved(d) ==
    /\ pc[d] = "moved"
    /\ IF aside[d] = seen[d]
       THEN /\ file' = Unlinked({aside[d]})
            /\ aside' = [aside EXCEPT ![d] = None]
            /\ Goto(d, "recommit")
       ELSE /\ Goto(d, IF Name = None THEN "restore" ELSE "gone")
            /\ file' = IF Name = None THEN file ELSE Unlinked({<<d, "record">>})
            /\ UNCHANGED aside
    /\ UNCHANGED <<seen, cli, rd>>

Restore(d) ==
    /\ pc[d] = "restore"
    /\ file' = [Renamed(aside[d], "name") EXCEPT ![<<d, "record">>].at = "none"]
    /\ aside' = [aside EXCEPT ![d] = None]
    /\ Goto(d, "gone")
    /\ UNCHANGED <<seen, cli, rd>>

-----------------------------------------------------------------------------
(* Retirement: the socket is dropped first, then the record                *)
(* (retire_instance_record_with_hook).  Leaving serve_bound by an error    *)
(* drops them in the other order, with no step of anyone else ruled out by *)
(* holding the socket a little longer.                                     *)

DropSocket(d) ==
    /\ pc[d] = "serving"
    /\ Goto(d, "retire")
    /\ UNCHANGED <<file, seen, aside, cli, rd>>

(* Whose file is at the name?  Its own: stage a tombstone.  Another's:     *)
(* empty the descriptor only.  A record unlinked meanwhile is left alone.  *)
Retire(d) ==
    /\ pc[d] = "retire"
    /\ Goto(d, IF ~Linked(<<d, "record">>) THEN "gone"
               ELSE IF Name = <<d, "record">> THEN "rstage" ELSE "echmod")
    /\ UNCHANGED <<file, seen, aside, cli, rd>>

StageTombstone(d) ==
    /\ pc[d] = "rstage"
    /\ file' = [file EXCEPT ![<<d, "inert">>] = [Nowhere EXCEPT !.at = "staging"]]
    /\ Goto(d, "rcommit")
    /\ UNCHANGED <<seen, aside, cli, rd>>

(* A plain rename over the name.  A swept tombstone fails it, and the      *)
(* record of the departing daemon stays where it is.                       *)
CommitTombstone(d) ==
    /\ pc[d] = "rcommit"
    /\ IF file[<<d, "inert">>].at = "staging"
       THEN file' = Renamed(<<d, "inert">>, "name") /\ Goto(d, "rtrunc")
       ELSE Goto(d, "gone") /\ UNCHANGED file
    /\ UNCHANGED <<seen, aside, cli, rd>>

TruncateRetired(d) ==
    /\ \/ pc[d] = "rtrunc" /\ Goto(d, "rchmod")
       \/ pc[d] = "etrunc" /\ Goto(d, "gone")
    /\ file' = [file EXCEPT ![<<d, "record">>].full = FALSE]
    /\ UNCHANGED <<seen, aside, cli, rd>>

ChmodRetired(d) ==
    /\ \/ pc[d] = "rchmod" /\ Goto(d, "gone")
       \/ pc[d] = "echmod" /\ Goto(d, "etrunc")
    /\ file' = [file EXCEPT ![<<d, "record">>].mode = "inert"]
    /\ UNCHANGED <<seen, aside, cli, rd>>

\* SIGKILL, or any failure between two of the steps above.
Crash(d) ==
    /\ pc[d] \notin {"new", "gone"}
    /\ Goto(d, "gone")
    /\ UNCHANGED <<file, seen, aside, cli, rd>>

-----------------------------------------------------------------------------
(* Reclaim: recover_stale_published_record and retire_held_record, under   *)
(* the lifecycle lock.  The record, the death of its process and the       *)
(* absence of an endpoint are validated twice; the second time decides.    *)

CliTo(label) == cli' = [cli EXCEPT !.pc = label]
Dead(o) == IF o \in Daemons THEN pc[o] = "gone" ELSE TRUE

ProveStale ==
    /\ cli.pc = "idle"
    /\ file[<<Cli, "inert">>] = Nowhere
    /\ Name # None
    /\ file[Name].mode = "private" /\ file[Name].full
    /\ Dead(Name[1])
    /\ \A d \in Daemons : ~HoldsSocket(d)
    /\ cli' = [pc |-> "recheck", held |-> Name]
    /\ file' = [file EXCEPT ![<<Cli, "inert">>].at = "staging"]
    /\ UNCHANGED <<pc, seen, aside, rd>>

(* The last look at the name before the rename.                            *)
RecheckStale ==
    /\ cli.pc = "recheck"
    /\ IF Name = cli.held
       THEN CliTo("commit") /\ UNCHANGED file
       ELSE CliTo("done") /\ file' = Unlinked({<<Cli, "inert">>})
    /\ UNCHANGED <<pc, seen, aside, rd>>

CommitReclaim ==
    /\ cli.pc = "commit"
    /\ IF file[<<Cli, "inert">>].at = "staging"
       THEN file' = Renamed(<<Cli, "inert">>, "name") /\ CliTo("empty")
       ELSE CliTo("done") /\ UNCHANGED file
    /\ UNCHANGED <<pc, seen, aside, rd>>

(* empty_unlinked_inode refuses a file that a name still reaches.          *)
EmptyReclaimed ==
    /\ cli.pc = "empty"
    /\ file' = IF Linked(cli.held) THEN file ELSE [file EXCEPT ![cli.held].full = FALSE]
    /\ CliTo("done")
    /\ UNCHANGED <<pc, seen, aside, rd>>

-----------------------------------------------------------------------------
(* The reader: read_instance_record_for_inspection, then, with a record in *)
(* hand, open_published_record (rd.bind).  validate_file_stat's verdict:   *)
ValidateStat(f) ==
    IF ~Linked(f) THEN "raced"
    ELSE IF file[f].mode = "private" THEN "ok"
    ELSE IF file[f].full THEN "terminal" ELSE "raced"

ReadTo(label) == rd' = [rd EXCEPT !.pc = label]
Verdict(v) == rd' = [rd EXCEPT !.pc = "end", !.out = v]
Others == <<file, pc, seen, aside, cli>>

(* A look at the name: resolve it now, see its attributes a step later.    *)
Look(from, to, gone) ==
    /\ rd.pc = from
    /\ IF Name = None THEN Verdict(gone) ELSE rd' = [rd EXCEPT !.pc = to, !.node = Name]
    /\ UNCHANGED Others

\* The first look: absent and a validated tombstone both mean "no daemon".
StatFirst ==
    /\ rd.pc = "first"
    /\ IF IsInert(rd.node) THEN rd' = [rd EXCEPT !.pc = "topen", !.want = rd.node]
                           ELSE ReadTo("identify")
    /\ UNCHANGED Others

(* validate_instance_tombstone: open it, compare, look again, compare.     *)
OpenTombstone ==
    /\ rd.pc = "topen"
    /\ IF Name = None THEN Verdict("raced") ELSE rd' = [rd EXCEPT !.pc = "tfstat", !.fd = Name]
    /\ UNCHANGED Others

FstatTombstone ==
    /\ rd.pc = "tfstat"
    /\ IF IsInert(rd.fd) /\ rd.fd = rd.want THEN ReadTo("tlook") ELSE Verdict("raced")
    /\ UNCHANGED Others

RecheckTombstone ==
    /\ rd.pc = "tattr"
    /\ Verdict(IF IsInert(rd.node) /\ rd.node = rd.want THEN "stopped" ELSE "raced")
    /\ UNCHANGED Others

(* file_identity_at: which inode is the record?                            *)
StatIdentity ==
    /\ rd.pc = "iattr"
    /\ IF ValidateStat(rd.node) = "ok" THEN rd' = [rd EXCEPT !.pc = "open", !.want = rd.node]
                                       ELSE Verdict(ValidateStat(rd.node))
    /\ UNCHANGED Others

(* openat: the kernel refuses to read a 0200 file, and the refusal is      *)
(* classified by another look (classify_unreadable_instance_record).       *)
OpenRecord ==
    /\ rd.pc = "open"
    /\ IF Name = None THEN Verdict("raced")
       ELSE IF file[Name].mode = "inert" THEN ReadTo("elook")
       ELSE rd' = [rd EXCEPT !.pc = "fstat", !.fd = Name]
    /\ UNCHANGED Others

ClassifyUnreadable ==
    /\ rd.pc = "eattr"
    /\ Verdict(IF ValidateStat(rd.node) = "terminal" THEN "terminal" ELSE "raced")
    /\ UNCHANGED Others

(* validate_open_file: fstat the descriptor, then the name must agree.     *)
FstatRecord ==
    /\ rd.pc = "fstat"
    /\ IF ValidateStat(rd.fd) = "ok" THEN ReadTo("vlook") ELSE Verdict(ValidateStat(rd.fd))
    /\ UNCHANGED Others

AgreeOpened ==
    /\ rd.pc = "vattr"
    /\ IF ValidateStat(rd.node) # "ok" THEN Verdict(ValidateStat(rd.node))
       ELSE IF rd.node # rd.fd \/ (~rd.bind /\ rd.fd # rd.want) THEN Verdict("raced")
       ELSE ReadTo(IF rd.bind THEN "size" ELSE "read")
    /\ UNCHANGED Others

(* The record read: the bytes are parsed after the recheck of the name.    *)
ReadBytes ==
    /\ rd.pc = "read"
    /\ rd' = [rd EXCEPT !.pc = "rlook", !.data = file[rd.fd].full]
    /\ UNCHANGED Others

RecheckRead ==
    /\ rd.pc = "rattr" /\ ~rd.bind
    /\ IF ValidateStat(rd.node) # "ok" THEN Verdict(ValidateStat(rd.node))
       ELSE IF rd.node # rd.want THEN Verdict("raced")
       ELSE IF ~rd.data THEN Verdict("terminal")
       ELSE rd' = [rd EXCEPT !.pc = "open", !.bind = TRUE]
    /\ UNCHANGED Others

(* open_published_record: size, read and parse come before the recheck.    *)
SizeBound ==
    /\ rd.pc = "size"
    /\ rd' = [rd EXCEPT !.pc = "bread", !.data = file[rd.fd].full]
    /\ UNCHANGED Others

ReadBound ==
    /\ rd.pc = "bread"
    /\ IF ~rd.data \/ ~file[rd.fd].full THEN Verdict("terminal")
       ELSE IF rd.fd # rd.want THEN Verdict("raced")
       ELSE ReadTo("rlook")
    /\ UNCHANGED Others

RecheckBound ==
    /\ rd.pc = "rattr" /\ rd.bind
    /\ Verdict(IF ValidateStat(rd.node) # "ok" THEN ValidateStat(rd.node)
               ELSE IF rd.node # rd.fd \/ ~file[rd.node].full THEN "raced" ELSE "bound")
    /\ UNCHANGED Others

\* The next inspection starts over.
ReadAgain ==
    /\ rd.pc = "end"
    /\ rd' = [rd EXCEPT !.pc = "idle", !.bind = FALSE, !.node = None, !.want = None, !.fd = None,
                        !.data = FALSE, !.out = "none"]
    /\ UNCHANGED Others

Reader ==
    \/ Look("idle", "first", "stopped") \/ StatFirst
    \/ OpenTombstone \/ FstatTombstone \/ Look("tlook", "tattr", "raced") \/ RecheckTombstone
    \/ Look("identify", "iattr", "raced") \/ StatIdentity
    \/ OpenRecord \/ Look("elook", "eattr", "raced") \/ ClassifyUnreadable
    \/ FstatRecord \/ Look("vlook", "vattr", "raced") \/ AgreeOpened
    \/ ReadBytes \/ Look("rlook", "rattr", "raced") \/ RecheckRead
    \/ SizeBound \/ ReadBound \/ RecheckBound \/ ReadAgain

Publish(d) ==
    \/ Bind(d) \/ Sweep(d) \/ StageRecord(d) \/ WriteRecord(d) \/ ChmodRecord(d) \/ Commit(d)
    \/ JudgeDestination(d) \/ Quarantine(d) \/ JudgeMoved(d) \/ Restore(d)

Withdraw(d) ==
    \/ DropSocket(d) \/ Retire(d) \/ StageTombstone(d) \/ CommitTombstone(d)
    \/ TruncateRetired(d) \/ ChmodRetired(d)

Reclaim == ProveStale \/ RecheckStale \/ CommitReclaim \/ EmptyReclaimed

Next == (\E d \in Daemons : Publish(d) \/ Withdraw(d) \/ Crash(d)) \/ Reclaim \/ Reader

Spec == Init /\ [][Next]_vars

-----------------------------------------------------------------------------
Labels == {"new", "sweep", "stage", "write", "chmod", "commit", "recommit", "clear", "quarantine",
           "moved", "restore", "serving", "retire", "rstage", "rcommit", "rtrunc", "rchmod",
           "echmod", "etrunc", "gone"}

(* Every inode has a mode, a content flag and one place; at most one is at *)
(* the name.                                                               *)
TypeOK ==
    /\ file \in [Files -> [mode : {"inert", "private"}, full : BOOLEAN,
                           at : {"none", "staging", "name", "aside"}]]
    /\ pc \in [Daemons -> Labels]
    /\ seen \in [Daemons -> Files \cup {None}] /\ aside \in [Daemons -> Files \cup {None}]
    /\ Cardinality(At("name")) <= 1

(* The path shows three faces and no other: absent, an empty 0200 file, a  *)
(* complete 0600 file (gascan-core daemon_protocol.rs).  Every writer      *)
(* builds the next state under a staging name and renames it into place.   *)
ThreeFaces == \A f \in At("name") : file[f].full = (file[f].mode = "private")

(* A reader that resolved the name before a rename and copies the          *)
(* attributes after it never sees 0200 with content, whatever has happened *)
(* to that inode since: outgoing records are truncated before the chmod.   *)
TornLooksAreLegal ==
    rd.pc \in {"first", "tattr", "iattr", "eattr", "vattr", "rattr"} =>
        ~(file[rd.node].mode = "inert" /\ file[rd.node].full)

(* A reader that crosses a publication, a retirement or a reclaim is told  *)
(* to look again, or is told the truth; reading the record never ends in a *)
(* terminal verdict.                                                       *)
ReadsAreRetried == rd.out = "terminal" => rd.bind

(* While a daemon serves, the complete record at the name is its own: no   *)
(* other daemon clears it and no CLI reclaims it.                          *)
ServingIsNamed ==
    \A d \in Daemons : pc[d] = "serving" =>
        /\ Name = <<d, "record">>
        /\ file[Name].full /\ file[Name].mode = "private"

(* Binding a descriptor to a record that was just read is retried, never   *)
(* refused for good, when the daemon is merely stopping.                   *)
BindsAreRetried == rd.out # "terminal"
=============================================================================
