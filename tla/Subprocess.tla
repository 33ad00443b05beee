----------------------------- MODULE Subprocess -----------------------------
(***************************************************************************)
(* Running a program and reading what it prints, in the four ways Gas Can  *)
(* does it:                                                                *)
(*   process    writes the input, then reads both streams and waits, with  *)
(*              no deadline (gascan-apple/src/command.rs);                 *)
(*   bounded    one reader thread per stream, then wait and join           *)
(*   sensitive  (gascan/src/configure/host.rs); the second for tokens;     *)
(*   keygen     wait and two bounded reads joined, under a deadline        *)
(*              (gascand/src/ssh/identity.rs);                             *)
(*   ps, lsof, start, mise    poll for the exit until a deadline and read  *)
(*              afterwards (gascan/src/daemon.rs, gascand/src/api.rs,      *)
(*              scripts/src/bin/update-image-lock.rs).                     *)
(* A pipe holds Capacity units; a writer waits for room.  A program that   *)
(* still runs may be waiting for its reader, and the reader for it.        *)
(***************************************************************************)
EXTENDS Integers

CONSTANTS
    Runners,         \* which of the runners are considered
    Capacity,        \* units a pipe holds
    MaxKept,         \* units a bounded reader keeps
    MaxWritten,      \* bound: units the program writes to a stream
    Sent             \* bound: units of input the process runner is given

Streams == {"out", "err"}
Polling == {"ps", "lsof", "start", "mise"}
Timed == Polling \cup {"keygen"}

VARIABLES
    runner,          \* who runs the program
    pc,              \* where the runner is
    child,           \* "running", "exited", "failed" or "reaped"
    ended,           \* how it ended, once it has
    writes,          \* units the program has yet to write, by stream
    total,           \* units it was going to write
    input,           \* units not yet written to it, and units in its input pipe
    pipe,            \* units in each output pipe
    open,            \* whether the reading end of each is open
    kept,            \* units each reader kept
    exceeded,        \* whether each reader met more than it keeps
    read,            \* whether each reader has finished
    result           \* what the caller gets

vars == <<runner, pc, child, ended, writes, total, input, pipe, open, kept, exceeded, read, result>>

Init ==
    /\ runner \in Runners
    /\ pc = "spawned" /\ child = "running" /\ ended = "none" /\ result = "none"
    /\ total \in [Streams -> 0..MaxWritten]
    /\ runner \in {"ps", "lsof", "start"} => total["err"] = 0    \* stderr is not piped
    /\ writes = total
    /\ input = [left |-> IF runner = "process" THEN Sent ELSE 0, held |-> 0]
    /\ pipe = [s \in Streams |-> 0] /\ open = [s \in Streams |-> TRUE]
    /\ kept = [s \in Streams |-> 0]
    /\ exceeded = [s \in Streams |-> FALSE] /\ read = [s \in Streams |-> FALSE]

Gone == child # "running"

-----------------------------------------------------------------------------
(* The program: writes to its streams and reads its input in any order     *)

ProgramWrite(s) ==
    /\ child = "running" /\ writes[s] > 0
    /\ \/ open[s] /\ pipe[s] < Capacity
          /\ pipe' = [pipe EXCEPT ![s] = @ + 1] /\ writes' = [writes EXCEPT ![s] = @ - 1]
          /\ UNCHANGED <<child, ended>>
       \/ ~open[s] /\ child' = "failed" /\ ended' = "signal"      \* broken pipe
          /\ UNCHANGED <<pipe, writes>>
    /\ UNCHANGED <<runner, pc, total, input, open, kept, exceeded, read, result>>

ProgramRead ==
    /\ child = "running" /\ input.held > 0
    /\ input' = [input EXCEPT !.held = @ - 1]
    /\ UNCHANGED <<runner, pc, child, ended, writes, total, pipe, open, kept, exceeded, read, result>>

ProgramExit ==
    /\ child = "running" /\ \A s \in Streams : writes[s] = 0
    /\ \E e \in {"success", "failure"} : ended' = e
    /\ child' = "exited"
    /\ UNCHANGED <<runner, pc, writes, total, input, pipe, open, kept, exceeded, read, result>>

-----------------------------------------------------------------------------
(* The readers                                                             *)

\* Reading starts with the threads, with the join, or when the runner drains.
Reading ==
    \/ runner \in {"bounded", "sensitive", "keygen"}
    \/ pc = "drain"

Unlimited == runner = "process" \/ runner \in Polling

\* Keep up to the limit, remember that there was more, go on reading.
capture_bounded(s) ==
    /\ kept' = [kept EXCEPT ![s] = IF @ < MaxKept THEN @ + 1 ELSE @]
    /\ exceeded' = [exceeded EXCEPT ![s] = @ \/ kept[s] = MaxKept]
    /\ UNCHANGED <<open, read>>

capture_sensitive(s) ==
    /\ kept' = [kept EXCEPT ![s] = IF @ < MaxKept THEN @ + 1 ELSE @]
    /\ exceeded' = [exceeded EXCEPT ![s] = @ \/ kept[s] = MaxKept]
    /\ UNCHANGED <<open, read>>

\* Mistake: the limit is looked at when everything has been read.
read_unbounded(s) ==
    /\ kept' = [kept EXCEPT ![s] = @ + 1]
    /\ exceeded' = [exceeded EXCEPT ![s] = @ \/ kept[s] = MaxKept]
    /\ UNCHANGED <<open, read>>

\* One unit past the limit ends the read and closes the pipe.
read_bounded(s) ==
    /\ kept' = [kept EXCEPT ![s] = @ + 1]
    /\ IF kept[s] = MaxKept
       THEN /\ exceeded' = [exceeded EXCEPT ![s] = TRUE]
            /\ read' = [read EXCEPT ![s] = TRUE] /\ open' = [open EXCEPT ![s] = FALSE]
       ELSE UNCHANGED <<exceeded, read, open>>

wait_with_output(s) ==
    /\ kept' = [kept EXCEPT ![s] = @ + 1]
    /\ UNCHANGED <<exceeded, open, read>>

ReadUnit(s) ==
    /\ Reading /\ ~read[s] /\ open[s] /\ pipe[s] > 0 /\ pc # "done"
    /\ pipe' = [pipe EXCEPT ![s] = @ - 1]
    /\ CASE Unlimited -> wait_with_output(s)
         [] runner = "bounded" -> capture_bounded(s)
         [] runner = "sensitive" -> capture_sensitive(s)
         [] runner = "keygen" -> read_bounded(s)
    /\ UNCHANGED <<runner, pc, child, ended, writes, total, input, result>>

ReadEnd(s) ==
    /\ Reading /\ ~read[s] /\ open[s] /\ pipe[s] = 0 /\ Gone /\ pc # "done"
    /\ read' = [read EXCEPT ![s] = TRUE]
    /\ UNCHANGED <<runner, pc, child, ended, writes, total, input, pipe, open, kept, exceeded, result>>

-----------------------------------------------------------------------------
(* What each runner makes of an ended program                              *)

TooMuch == exceeded["out"] \/ exceeded["err"]
Blank == total["out"] = 0

\* ProcessRunner: an exit code other than zero, or none, is an error.
ProcessResult == IF ended = "success" THEN "ok" ELSE "failed"

\* run_bounded() and run_sensitive_bounded(): too much output is an error.
BoundedResult == IF TooMuch THEN "invalid" ELSE "ok"
SensitiveResult == IF TooMuch THEN "invalid" ELSE "ok"

KeygenResult == IF TooMuch THEN "invalid" ELSE IF ended = "success" THEN "ok" ELSE "failed"

\* A process that ps or lsof does not find is absent, and an empty answer too.
PsResult == IF ended = "success" /\ ~Blank THEN "ok" ELSE "absent"
LsofResult == IF ended = "success" /\ ~Blank THEN "ok" ELSE "absent"
StartResult == IF ended = "success" /\ ~Blank THEN "ok" ELSE "failed"
MiseResult == IF ended = "success" THEN "ok" ELSE "failed"

Result ==
    CASE runner = "process" -> ProcessResult
      [] runner = "bounded" -> BoundedResult
      [] runner = "sensitive" -> SensitiveResult
      [] runner = "keygen" -> KeygenResult
      [] runner = "ps" -> PsResult
      [] runner = "lsof" -> LsofResult
      [] runner = "start" -> StartResult
      [] runner = "mise" -> MiseResult

-----------------------------------------------------------------------------
(* The runners                                                             *)

\* write_all() of the input, then the handle is dropped.
WriteInput ==
    /\ runner = "process" /\ pc = "spawned" /\ input.left > 0 /\ input.held < Capacity
    /\ child = "running"
    /\ input' = [left |-> input.left - 1, held |-> input.held + 1]
    /\ UNCHANGED <<runner, pc, child, ended, writes, total, pipe, open, kept, exceeded, read, result>>

\* The program is gone before it read its input: the call fails, and the
\* handles are dropped with the program.
WriteBroken ==
    /\ runner = "process" /\ pc = "spawned" /\ input.left > 0 /\ Gone
    /\ pc' = "done" /\ child' = "reaped" /\ result' = "failed"
    /\ read' = [s \in Streams |-> TRUE]
    /\ UNCHANGED <<runner, ended, writes, total, input, pipe, open, kept, exceeded>>

Drain ==
    /\ runner = "process" /\ pc = "spawned" /\ input.left = 0
    /\ pc' = "drain"
    /\ UNCHANGED <<runner, child, ended, writes, total, input, pipe, open, kept, exceeded, read, result>>

\* try_wait() finds the program ended.
PollExit ==
    /\ runner \in Polling /\ pc = "spawned" /\ Gone
    /\ pc' = "drain"
    /\ UNCHANGED <<runner, child, ended, writes, total, input, pipe, open, kept, exceeded, read, result>>

\* The program is waited for and both readers have finished.
Conclude ==
    /\ pc # "done" /\ Gone /\ \A s \in Streams : read[s]
    /\ pc' = "done" /\ child' = "reaped" /\ result' = Result
    /\ UNCHANGED <<runner, ended, writes, total, input, pipe, open, kept, exceeded, read>>

\* A read that is possible takes less than any of the deadlines.
Overdue ==
    /\ runner \in Timed /\ pc = "spawned"
    /\ \A s \in Streams : ~(Reading /\ ~read[s] /\ open[s] /\ pipe[s] > 0)
    /\ child = "running"

\* Killed, waited for, reported; the readers of the join are dropped with it.
Deadline ==
    /\ Overdue
    /\ child' = "reaped" /\ ended' = "killed" /\ pc' = "done" /\ result' = "timeout"
    /\ UNCHANGED <<runner, writes, total, input, pipe, open, kept, exceeded, read>>

Next ==
    \/ \E s \in Streams : ProgramWrite(s) \/ ReadUnit(s) \/ ReadEnd(s)
    \/ ProgramRead \/ ProgramExit
    \/ WriteInput \/ Drain \/ PollExit \/ Conclude \/ Deadline
    \/ WriteBroken

Spec == Init /\ [][Next]_vars

\* The runner's own steps are always taken; the program's only where nothing
\* bounds the wait for it (the process, bounded and sensitive runners).
Must(who) ==
    \/ \E s \in Streams : who = s /\ (ReadUnit(s) \/ ReadEnd(s))
    \/ who = "writer" /\ (WriteInput \/ WriteBroken)
    \/ who = "runner" /\ (Drain \/ PollExit \/ Conclude \/ Deadline)
    \/ /\ who = "program" /\ runner \notin Timed
       /\ (\E s \in Streams : ProgramWrite(s)) \/ ProgramRead \/ ProgramExit

Promised == Streams \cup {"writer", "runner", "program"}

FairSpec == Spec /\ \A who \in Promised : WF_vars(Must(who))

-----------------------------------------------------------------------------
(* Properties                                                              *)

TypeOK ==
    /\ runner \in Runners /\ pc \in {"spawned", "drain", "done"}
    /\ child \in {"running", "exited", "failed", "reaped"}
    /\ pipe \in [Streams -> 0..Capacity]
    /\ kept \in [Streams -> 0..(IF Unlimited THEN MaxWritten ELSE MaxKept + 1)]
    /\ result \in {"none", "ok", "failed", "invalid", "absent", "timeout"}

\* A call that succeeds has all the program wrote: nothing is dropped at the
\* readers' limit, and nothing is left in a pipe.
OutputIsWhole ==
    result = "ok" => \A s \in Streams :
        /\ kept[s] = total[s]
        /\ runner \notin Polling \cup {"process"} => kept[s] <= MaxKept

\* A deadline passes only when the program itself does not get on: never
\* because it waits for room in a pipe that nobody reads.  The runners that
\* poll read only afterwards, and give no such promise.
DeadlineIsTheProgramsFault ==
    [][pc # "done" /\ result' = "timeout" /\ runner \notin Polling =>
          \A s \in Streams : writes[s] > 0 => pipe[s] < Capacity]_vars

\* A program that was killed for its deadline is reported so: never as a
\* process that is not there, which the daemon controller acts upon.
AbsenceIsAnswered == result = "absent" => ended \in {"success", "failure"}

\* No program and no reader outlives the call that started it.
NothingOutlivesTheCall ==
    pc = "done" =>
        /\ child = "reaped"
        /\ result # "timeout" => \A s \in Streams : read[s]

\* Every call returns, although writer and reader wait for each other.
CallsReturn == <>(pc = "done")

=============================================================================
