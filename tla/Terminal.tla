------------------------------ MODULE Terminal ------------------------------
(*****************************************************************************)
(* The terminal under `gascan`: line prompts, hidden prompts and attached    *)
(* sessions of one process, and the signals that may arrive between any two  *)
(* of their steps.                                                           *)
(*                                                                           *)
(* A prompt makes the input non-blocking, and hides the echo for a token.  A *)
(* session makes the terminal raw.  SIGINT is shared by the prompts, which   *)
(* want a flag, by the time between them, which wants the default action,    *)
(* and by sessions, which forward it.  A keyboard interrupt is a SIGINT only *)
(* while the terminal is not raw.                                            *)
(*****************************************************************************)
EXTENDS Integers, Sequences

CONSTANTS
    Stages,     \* how many prompts and sessions the process goes through
    Signals,    \* how many signals arrive
    Frames,     \* frames typed in a session, and the capacity of its channel
    External,   \* may signals also be sent by other processes?
    Failures    \* may system calls fail?

VARIABLES
    pc,         \* where the process is
    kind,       \* the prompt or session it is in
    tty,        \* the terminal's modes and the input's flags
    armed,      \* default_when_inactive
    triggered,  \* the prompt's interrupt flag
    hooked,     \* are the prompt's handlers registered?
    taken,      \* signals the asynchronous runtime has taken over for good
    heard,      \* signals a session's producer listens to
    pending,    \* of those, the ones that have arrived
    channel,    \* frames on their way to the daemon
    guest,      \* the attached program
    result,     \* what the current prompt or session has come to
    missed,     \* an interrupt arrived in a prompt that returned an answer
    stages, signals, typed    \* what is left of the bounds

flags == <<armed, triggered, hooked>>
session == <<taken, heard, pending, channel, guest, typed>>
vars == <<pc, kind, tty, flags, session, result, missed, stages, signals>>

Found == [echo |-> TRUE, raw |-> FALSE, nonblock |-> FALSE]

Init ==
    /\ pc = "between" /\ kind = "none" /\ tty = Found
    /\ armed = TRUE /\ triggered = FALSE /\ hooked = FALSE
    /\ taken = {} /\ heard = {} /\ pending = {} /\ channel = <<>> /\ guest = "none"
    /\ result = "none" /\ missed = FALSE
    /\ stages = Stages /\ signals = Signals /\ typed = 0

Alive == pc \notin {"killed", "exited"}

Go(from, to) == pc = from /\ pc' = to

----------------------------------------------------------------------------
(* A signal.  The prompt's conditional default comes first: when it is armed *)
(* the process dies, whoever else listens.  A signal the runtime has taken   *)
(* over never has its default action again, listened to or not.              *)
Deliver(sig) ==
    LET hook == sig = "int" /\ hooked IN
    /\ Alive /\ signals > 0
    /\ External \/ (sig = "int" /\ ~tty.raw)
    /\ signals' = signals - 1
    /\ IF (hook /\ armed) \/ (~hook /\ sig \notin taken)
       THEN pc' = "killed" /\ UNCHANGED <<triggered, pending>>
       ELSE /\ triggered' = (triggered \/ hook)
            /\ pending' = IF sig \in heard THEN pending \cup {sig} ELSE pending
            /\ UNCHANGED pc
    /\ UNCHANGED <<kind, tty, armed, hooked, taken, heard, channel, guest, result, missed,
                   stages, typed>>

----------------------------------------------------------------------------
(* Prompts.                                                                  *)

StartPrompt ==
    /\ Go("between", "begin") /\ stages > 0
    /\ stages' = stages - 1
    /\ kind' \in {"line", "secret"}
    /\ hooked' = TRUE
    /\ result' = "none"
    /\ UNCHANGED <<tty, armed, triggered, session, missed, signals>>

(* `begin` clears the flag and then takes the default action away.           *)
Begin ==
    \/ /\ Go("begin", "disarm") /\ triggered' = FALSE
       /\ UNCHANGED <<kind, tty, armed, hooked, session, result, missed, stages, signals>>
    \/ /\ Go("disarm", IF kind = "secret" THEN "hide" ELSE "unblock") /\ armed' = FALSE
       /\ UNCHANGED <<kind, tty, triggered, hooked, session, result, missed, stages, signals>>

(* Both guards are built before the first change, so that a failing call     *)
(* runs their drop.                                                          *)
Change(from, to, modes) ==
    /\ UNCHANGED <<kind, flags, session, missed, stages, signals>>
    /\ \/ Go(from, to) /\ tty' = modes /\ UNCHANGED result
       \/ Failures /\ Go(from, "reflag") /\ result' = "error" /\ UNCHANGED tty

Hidden == Change("hide", "unblock", [tty EXCEPT !.echo = FALSE])

Nonblocking == Change("unblock", "poll", [tty EXCEPT !.nonblock = TRUE])

Poll ==
    /\ pc = "poll"
    /\ IF triggered THEN pc' = "reflag" /\ result' = "cancelled"
                    ELSE pc' = "read" /\ UNCHANGED result
    /\ UNCHANGED <<kind, tty, flags, session, missed, stages, signals>>

(* Nothing to read yet, or one more byte; the end of the line; the end of    *)
(* the input or an interrupt byte; too long a line or a failing read.        *)
ReadByte ==
    /\ pc = "read"
    /\ \/ pc' = "poll" /\ UNCHANGED result
       \/ pc' = "reflag" /\ result' \in {"answer", "cancelled"}
       \/ Failures /\ pc' = "reflag" /\ result' = "error"
    /\ UNCHANGED <<kind, tty, flags, session, missed, stages, signals>>

(* The guards are dropped: flags, then modes, and only then the interrupt.   *)
DropInput ==
    \/ /\ Go("reflag", IF kind = "secret" THEN "unhide" ELSE "rearm")
       /\ tty' = [tty EXCEPT !.nonblock = FALSE]
       /\ UNCHANGED <<kind, flags, session, result, missed, stages, signals>>
    \/ /\ Go("unhide", "rearm")
       /\ tty' = Found
       /\ UNCHANGED <<kind, flags, session, result, missed, stages, signals>>

DropInterrupt ==
    \/ /\ Go("rearm", "clear") /\ armed' = TRUE
       /\ UNCHANGED <<kind, tty, triggered, hooked, session, result, missed, stages, signals>>
    \/ /\ Go("clear", IF result = "answer" THEN "between" ELSE "exited")
       /\ triggered' = FALSE
       /\ missed' = (missed \/ (triggered /\ result = "answer"))
       /\ kind' = "none"
       /\ UNCHANGED <<tty, armed, hooked, session, result, stages, signals>>

----------------------------------------------------------------------------
(* Sessions.                                                                 *)

StartSession ==
    /\ Go("between", "raw") /\ stages > 0
    /\ stages' = stages - 1
    /\ kind' = "session" /\ result' = "none"
    /\ channel' = <<>> /\ guest' = "running" /\ typed' = 0
    /\ UNCHANGED <<tty, flags, taken, heard, pending, missed, signals>>

AcquireRaw ==
    /\ UNCHANGED <<kind, flags, session, missed, stages, signals>>
    /\ \/ Go("raw", "open") /\ tty' = [tty EXCEPT !.raw = TRUE, !.echo = FALSE] /\ UNCHANGED result
       \/ Failures /\ Go("raw", "over") /\ result' = "error" /\ UNCHANGED tty

OpenTerminal ==
    /\ \/ Go("open", "listen") /\ UNCHANGED result
       \/ Failures /\ Go("open", "over") /\ result' = "error"
    /\ UNCHANGED <<kind, tty, flags, session, missed, stages, signals>>

(* The producer registers for one signal after the other.  When it cannot,   *)
(* it returns and the session goes on without input.                         *)
Listen ==
    LET sig == IF "int" \in heard THEN "term" ELSE "int" IN
    /\ pc = "listen"
    /\ \/ /\ taken' = taken \cup {sig}
          /\ heard' = heard \cup {sig}
          /\ pc' = IF sig = "term" THEN "forward" ELSE "listen"
          /\ UNCHANGED pending
       \/ /\ Failures /\ pc' = "await" /\ heard' = {} /\ pending' = {} /\ UNCHANGED taken
    /\ UNCHANGED <<kind, tty, flags, channel, guest, typed, result, missed, stages, signals>>

\* Mistake: the channel has no bound.
SendUnbounded(frame) == channel' = Append(channel, frame)

(* `sender.send(...).await`: the producer waits for room.                    *)
Send(frame) ==
    /\ Len(channel) < Frames
    /\ channel' = Append(channel, frame)

(* The producer takes what is ready: input, its end, or a signal, for which  *)
(* it first puts the terminal back.                                          *)
Forward ==
    /\ pc = "forward"
    /\ \/ typed < Frames /\ typed' = typed + 1 /\ pc' = "stdin"
       \/ pc' = "eof" /\ UNCHANGED typed
    /\ UNCHANGED <<kind, tty, flags, taken, heard, pending, channel, guest, result, missed,
                   stages, signals>>

HearSignal ==
    /\ Go("forward", "signal")
    /\ \E sig \in pending : pending' = pending \ {sig}
    /\ tty' = Found
    /\ UNCHANGED <<kind, flags, taken, heard, channel, guest, typed, result, missed, stages, signals>>

(* While a frame waits for room nothing else is taken.                       *)
ForwardFrame ==
    /\ pc \in {"stdin", "eof", "signal"}
    /\ pc' = IF pc = "stdin" THEN "forward" ELSE "close"
    /\ Send(IF pc = "eof" THEN "close" ELSE pc)
    /\ UNCHANGED <<kind, tty, flags, taken, heard, pending, guest, typed, result, missed, stages, signals>>

(* The last frame, and the producer is gone with its listeners.              *)
ForwardClose ==
    /\ Go("close", "await")
    /\ Send("close")
    /\ heard' = {} /\ pending' = {}
    /\ UNCHANGED <<kind, tty, flags, taken, guest, typed, result, missed, stages, signals>>

(* The daemon takes a frame (external).  A signal reaches the program.       *)
Consume ==
    /\ Alive /\ kind = "session" /\ channel # <<>>
    /\ channel' = Tail(channel)
    /\ guest' = IF Head(channel) = "signal" /\ guest = "running" THEN "signalled" ELSE guest
    /\ UNCHANGED <<pc, kind, tty, flags, taken, heard, pending, typed, result, missed, stages, signals>>

(* The exit frame, an error frame or the end of the stream.  It ends the     *)
(* session wherever the producer is.                                         *)
Over(cause) ==
    /\ pc \in {"listen", "forward", "stdin", "eof", "signal", "close", "await"}
    /\ cause
    /\ pc' = "over" /\ result' \in {"answer", "error"}
    /\ heard' = {} /\ pending' = {} /\ guest' = "gone"
    /\ UNCHANGED <<kind, tty, flags, taken, channel, typed, missed, stages, signals>>

GuestEnds == Over(guest = "running")
GuestObeys == Over(guest = "signalled")

(* The guard restores what it saved, unless a signal already did.            *)
DropRaw ==
    /\ Go("over", IF result = "answer" THEN "between" ELSE "exited")
    /\ tty' = Found
    /\ kind' = "none"
    /\ UNCHANGED <<flags, session, result, missed, stages, signals>>

Finish ==
    /\ Go("between", "exited")
    /\ UNCHANGED <<kind, tty, flags, session, result, missed, stages, signals>>

----------------------------------------------------------------------------
Producer == Listen \/ Forward \/ HearSignal \/ ForwardFrame \/ ForwardClose

Next ==
    \/ \E sig \in {"int", "term"} : Deliver(sig)
    \/ StartPrompt \/ Begin \/ Hidden \/ Nonblocking \/ Poll \/ ReadByte
    \/ DropInput \/ DropInterrupt
    \/ StartSession \/ AcquireRaw \/ OpenTerminal \/ Producer \/ Consume
    \/ GuestEnds \/ GuestObeys \/ DropRaw \/ Finish

Spec == Init /\ [][Next]_vars

(* The process runs, its select is fair to every branch, the daemon takes    *)
(* the frames it is sent, and a program that got the signal ends.  Nobody    *)
(* has to type, and no program has to end by itself.                          *)
Must(what) ==
    \/ what = "hear" /\ HearSignal
    \/ what = "forward" /\ (ForwardFrame \/ ForwardClose)
    \/ what = "consume" /\ Consume
    \/ what = "obey" /\ GuestObeys
    \/ what = "drop" /\ DropRaw

Promised == {"hear", "forward", "consume", "obey", "drop"}

FairSpec == Spec /\ \A what \in Promised : WF_vars(Must(what))

----------------------------------------------------------------------------
(* The types of the process, the terminal and the session.                   *)
TypeOK ==
    /\ tty \in [echo: BOOLEAN, raw: BOOLEAN, nonblock: BOOLEAN]
    /\ kind \in {"none", "line", "secret", "session"}
    /\ result \in {"none", "answer", "cancelled", "error"}
    /\ pending \subseteq heard /\ heard \subseteq taken
    /\ Len(channel) <= Frames

(* However the process ends by itself, after an answer, a cancellation, a    *)
(* failing call or a lost session, the terminal is as it was found.          *)
ExitRestores == pc = "exited" => tty = Found

(* A process killed by a signal leaves the terminal as it was found.         *)
KillRestores == pc = "killed" => tty = Found

(* Between prompts and sessions the terminal is as found, no interrupt is    *)
(* withheld from its default action and none is left over for the next       *)
(* prompt to take for its own.                                               *)
NothingCarriesOver == pc = "between" => tty = Found /\ armed /\ ~triggered /\ heard = {}

(* An interrupt during a prompt cancels it: no prompt returns an answer with *)
(* an interrupt pending, which is then forgotten.                            *)
InterruptCancels == ~missed

(* A signal the producer hears ends the session, however full the channel    *)
(* is, once the program obeys it, unless the input ended first.              *)
SignalEndsSession ==
    (pc = "forward" /\ pending # {}) ~> (kind = "none" \/ ~Alive \/ pc = "eof")
=============================================================================
