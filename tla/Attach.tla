------------------------------- MODULE Attach -------------------------------
(***************************************************************************)
(* One attached process, from the client to the guest and back:            *)
(*                                                                         *)
(*   client -> request -> bridge -> input -> pump -> helperIn -> guest     *)
(*   client <- stream  <- data   <- bridge <- output <- pump <- helperOut  *)
(*                                                                         *)
(* The bridge is run_attach_bridge (crates/gascand/src/api.rs), the pump   *)
(* the task of AppleBackend::exec (crates/gascan-apple/src/backend.rs; the *)
(* one of the Arca backend has the same shape), the stream AttachStream.   *)
(* helperIn and helperOut stand for the channels of AttachSession, the     *)
(* pipes and the Swift helper between the pump and the guest: FIFO buffers *)
(* one behind the other are one FIFO buffer.  Every channel is bounded and *)
(* a send to a full one waits.                                             *)
(***************************************************************************)
EXTENDS Integers, Sequences

CONSTANTS
    Cap,         \* capacity of every channel
    Frames,      \* what the client may send
    MaxInput,    \* frames the client sends at most
    MaxOutput,   \* frames the guest writes at most
    Echo,        \* the guest writes a frame for every one it reads, as cat does
    Quits,       \* the guest may exit on its own
    Leaves,      \* the client may go away
    Stops        \* the daemon may shut down

VARIABLES
    client,      \* "there", "half" (has half-closed) or "gone"
    sent,        \* frames the client has sent
    request,     \* client frames the bridge has not read
    stopping,    \* shutting_down
    bridge,      \* where run_attach_bridge is
    holding,     \* the frame the bridge is about to pass on
    inputClosed, \* input_closed
    forward,     \* the terminal frame finish_attach_session would forward
    input, output,               \* the channels of the ExecSession
    cancelled,   \* ExecCancellation
    pump,        \* where the pump is
    carrying,    \* the frame the pump is about to pass on
    helperIn, helperOut,
    writable,    \* write_inputs still takes frames
    guest,       \* "run", "owes" (a write), "exiting", "exited" or "killed"
    wrote,       \* frames the guest has written
    data,        \* the data channel of AttachStream
    terminal,    \* the oneshot of AttachStream
    stream,      \* where poll_next is
    peeked,      \* pending_terminal
    received     \* what the client has got

clientVars == <<client, sent, request, stopping>>
bridgeVars == <<bridge, holding, inputClosed, forward>>
pumpVars == <<pump, carrying>>
guestVars == <<guest, wrote>>
streamVars == <<stream, peeked, received>>
sessionVars == <<input, output, cancelled>>
helperVars == <<helperIn, helperOut, writable>>
vars == <<clientVars, bridgeVars, pumpVars, guestVars, streamVars, sessionVars,
          helperVars, data, terminal>>

\* The frames on the way to the client: output is numbered, and
Exit == 0      \* is the exit of the process,
Failed == -1   \* an error;
None == -2     \* there is no terminal frame yet,
Dropped == -3  \* or there will be none

\* The frames on the way to the guest: input, the end of it, and the two that
\* Environment explains.
Stdin == -4
Close == -5
Bad == -6
Odd == -7
Code == [stdin |-> Stdin, close |-> Close, bad |-> Bad, odd |-> Odd]

Init ==
    /\ client = "there" /\ sent = 0 /\ request = <<>> /\ stopping = FALSE
    /\ bridge = "first" /\ holding = Stdin /\ inputClosed = FALSE /\ forward = "discard"
    /\ input = <<>> /\ output = <<>> /\ cancelled = FALSE
    /\ pump = "loop" /\ carrying = Stdin
    /\ helperIn = <<>> /\ helperOut = <<>> /\ writable = TRUE
    /\ guest = "run" /\ wrote = 0
    /\ data = <<>> /\ terminal = None
    /\ stream = "poll" /\ peeked = None /\ received = <<>>

Room(channel) == Len(channel) < Cap

-----------------------------------------------------------------------------
(* The client and the daemon around the session *)

ClientSends(frame) ==
    /\ client = "there" /\ sent < MaxInput /\ Room(request)
    /\ sent' = sent + 1
    /\ request' = Append(request, frame)
    /\ UNCHANGED <<client, stopping>>

ClientHalfCloses == client = "there" /\ client' = "half" /\ UNCHANGED <<sent, request, stopping>>

ClientLeaves ==
    /\ Leaves /\ client # "gone" /\ stream # "ended"
    /\ client' = "gone"
    /\ UNCHANGED <<sent, request, stopping>>

DaemonStops == Stops /\ ~stopping /\ stopping' = TRUE /\ UNCHANGED <<client, sent, request>>

\* Among the frames, "bad" is one without content or with the token of another
\* session, "odd" a size or signal that the backend does not support.
Environment ==
    /\ \/ \E frame \in Frames : ClientSends(Code[frame])
       \/ ClientHalfCloses \/ ClientLeaves \/ DaemonStops
    /\ UNCHANGED <<bridgeVars, pumpVars, guestVars, streamVars, sessionVars, helperVars,
                   data, terminal>>

-----------------------------------------------------------------------------
(* run_attach_bridge *)

\* The receiving half of the input channel lives as long as the pump, the
\* sending half of the output channel as well.
PumpIsGone == pump = "ended"

BridgeGoto(pc) == bridge' = pc /\ UNCHANGED <<holding, inputClosed, forward>>

\* Into finish_attach_session; f says what is sent when it is over.
Finish(f) ==
    /\ bridge' = "closing" /\ forward' = f
    /\ UNCHANGED <<holding, inputClosed>>

\* send_terminal, and out of the loop.
Terminate(frame) ==
    /\ terminal' = frame
    /\ BridgeGoto("return")

\* What every select of the bridge waits for besides: the client is gone, or
\* the daemon shuts down.
Interrupted ==
    /\ \/ client = "gone" /\ Finish("discard")
       \/ stopping /\ Finish(IF client = "gone" THEN "discard" ELSE "forward")
    /\ UNCHANGED <<clientVars, pumpVars, guestVars, streamVars, sessionVars, helperVars,
                   data, terminal>>

BridgeFirst ==
    /\ bridge = "first"
    /\ \/ Interrupted
       \/ /\ ~PumpIsGone /\ Room(input)
          /\ input' = Append(input, holding)
          /\ BridgeGoto("loop")
          /\ UNCHANGED <<clientVars, pumpVars, guestVars, streamVars, output, cancelled,
                         helperVars, data, terminal>>
       \/ /\ PumpIsGone /\ Terminate(Failed)
          /\ UNCHANGED <<clientVars, pumpVars, guestVars, streamVars, sessionVars,
                         helperVars, data>>

\* session.next()
BridgeOutput ==
    /\ bridge = "loop"
    /\ \/ /\ output # <<>> /\ output' = Tail(output)
          /\ \/ /\ Head(output) \in {Exit, Failed}
                /\ Terminate(Head(output))
             \/ /\ Head(output) \notin {Exit, Failed}
                /\ bridge' = "send" /\ holding' = Head(output)
                /\ UNCHANGED <<inputClosed, forward, terminal>>
       \/ /\ output = <<>> /\ PumpIsGone
          /\ Terminate(Failed) /\ UNCHANGED output
    /\ UNCHANGED <<clientVars, pumpVars, guestVars, streamVars, input, cancelled,
                   helperVars, data>>

\* send_attach_frame
BridgeSend ==
    /\ bridge = "send"
    /\ \/ Interrupted
       \/ /\ client # "gone" /\ Room(data)
          /\ data' = Append(data, holding)
          /\ BridgeGoto("loop")
          /\ UNCHANGED <<clientVars, pumpVars, guestVars, streamVars, sessionVars,
                         helperVars, terminal>>

\* input.next(), if !input_closed.  A frame that is refused ends the session
\* with an error, a half-close ends it with what the guest says.
BridgeInput ==
    /\ bridge = "loop" /\ ~inputClosed
    /\ \/ /\ request # <<>> /\ request' = Tail(request)
          /\ UNCHANGED <<client, sent, stopping>>
          /\ \/ Head(request) = Bad /\ Finish("rejected")
             \/ /\ Head(request) # Bad
                /\ bridge' = "input" /\ holding' = Head(request)
                /\ inputClosed' = (Head(request) = Close)
                /\ UNCHANGED forward
       \/ /\ request = <<>> /\ client # "there"
          /\ Finish(IF client = "gone" THEN "discard" ELSE "forward")
          /\ UNCHANGED clientVars
    /\ UNCHANGED <<pumpVars, guestVars, streamVars, sessionVars, helperVars, data, terminal>>

\* The request breaks off with an error.
BridgeBroken ==
    /\ bridge = "loop" /\ ~inputClosed
    /\ client = "gone" /\ Terminate(Failed)
    /\ UNCHANGED <<clientVars, pumpVars, guestVars, streamVars, sessionVars, helperVars, data>>

\* session.send(frame).await: nothing else is looked at meanwhile.
BridgePass ==
    /\ bridge = "input"
    /\ \/ /\ ~PumpIsGone /\ Room(input)
          /\ input' = Append(input, holding)
          /\ BridgeGoto("loop") /\ UNCHANGED terminal
       \/ /\ PumpIsGone /\ Terminate(Failed) /\ UNCHANGED input
    /\ UNCHANGED <<clientVars, pumpVars, guestVars, streamVars, output, cancelled,
                   helperVars, data>>

\* The end of finish_attach_session with the frame it has come to, and the
\* rejection its caller sends after it.
Finished(frame) ==
    /\ BridgeGoto("return")
    /\ terminal' = CASE forward = "forward" -> frame
                     [] forward = "rejected" -> Failed
                     [] OTHER -> terminal

\* finish_attach_session: Close, then the remaining output, within 250 ms.
BridgeClose ==
    /\ bridge = "closing"
    /\ \/ /\ ~PumpIsGone /\ Room(input)
          /\ input' = Append(input, Close)
          /\ BridgeGoto("draining") /\ UNCHANGED terminal
       \/ PumpIsGone /\ Finished(Failed) /\ UNCHANGED input
    /\ UNCHANGED <<clientVars, pumpVars, guestVars, streamVars, output, cancelled,
                   helperVars, data>>

BridgeDrain ==
    /\ bridge = "draining"
    /\ \/ /\ output # <<>> /\ output' = Tail(output)
          /\ \/ Head(output) \in {Exit, Failed} /\ Finished(Head(output))
             \/ /\ Head(output) \notin {Exit, Failed}
                /\ bridge' = "forwarding" /\ holding' = Head(output)
                /\ UNCHANGED <<inputClosed, forward, terminal>>
       \/ output = <<>> /\ PumpIsGone /\ Finished(Failed) /\ UNCHANGED output
    /\ UNCHANGED <<clientVars, pumpVars, guestVars, streamVars, input, cancelled,
                   helperVars, data>>

BridgeForward ==
    /\ bridge = "forwarding"
    /\ \/ /\ client # "gone" /\ Room(data)
          /\ data' = Append(data, holding)
          /\ BridgeGoto("draining") /\ UNCHANGED terminal
       \/ client = "gone" /\ Finished(Failed) /\ UNCHANGED data
    /\ UNCHANGED <<clientVars, pumpVars, guestVars, streamVars, sessionVars, helperVars>>

GraceExpires ==
    /\ bridge \in {"closing", "draining", "forwarding"}
    /\ cancelled' = TRUE
    /\ Finished(Failed)
    /\ UNCHANGED <<clientVars, pumpVars, guestVars, streamVars, input, output,
                   helperVars, data>>

\* The task ends: the oneshot, the data channel and the session are dropped.
BridgeReturn ==
    /\ bridge = "return"
    /\ BridgeGoto("ended")
    /\ terminal' = IF terminal = None THEN Dropped ELSE terminal
    /\ cancelled' = TRUE
    /\ UNCHANGED <<clientVars, pumpVars, guestVars, streamVars, input, output,
                   helperVars, data>>

BridgeStep ==
    \/ BridgeFirst \/ BridgeOutput \/ BridgeSend \/ BridgeInput \/ BridgeBroken \/ BridgePass
    \/ (bridge = "loop" /\ Interrupted)
    \/ BridgeClose \/ BridgeDrain \/ BridgeForward \/ GraceExpires \/ BridgeReturn

-----------------------------------------------------------------------------
(* The pump: the task of AppleBackend::exec, with AttachInputHandle::send *)

\* Dropping the AttachSession kills the helper, and with it the process.
PumpEnds ==
    /\ pump' = "ended"
    /\ guest' = IF guest = "exited" THEN guest ELSE "killed"
    /\ UNCHANGED <<carrying, wrote>>

PumpSelect ==
    /\ pump = "loop"
    /\ \/ cancelled /\ PumpEnds /\ UNCHANGED <<input, helperOut>>
       \/ input = <<>> /\ bridge = "ended" /\ PumpEnds /\ UNCHANGED <<input, helperOut>>
       \/ /\ input # <<>> /\ input' = Tail(input)
          /\ carrying' = Head(input)
          /\ pump' = IF Head(input) = Odd THEN "failing" ELSE "writing"
          /\ UNCHANGED <<guestVars, helperOut>>
       \/ /\ helperOut # <<>> /\ helperOut' = Tail(helperOut)
          /\ carrying' = Head(helperOut) /\ pump' = "delivering"
          /\ UNCHANGED <<guestVars, input>>
    /\ UNCHANGED <<clientVars, bridgeVars, streamVars, output, cancelled, helperIn, writable,
                   data, terminal>>

\* Mistake: a write that hangs is not interrupted by the cancellation.
PumpWriteDeaf ==
    /\ pump = "writing"
    /\ \/ /\ writable /\ Room(helperIn)
          /\ helperIn' = Append(helperIn, carrying)
          /\ writable' = (carrying # Close)
          /\ pump' = "loop" /\ UNCHANGED <<carrying, guestVars>>
       \/ /\ ~writable \/ guest = "exited"
          /\ writable' = FALSE
          /\ pump' = "failing" /\ UNCHANGED <<carrying, guestVars, helperIn>>
    /\ UNCHANGED <<clientVars, bridgeVars, streamVars, sessionVars, helperOut, data, terminal>>

\* writer.send: write_inputs acknowledges a frame once it is written; it stops
\* after a close or a failure.  A write to a helper that has reported the exit
\* fails once the helper is gone; until then the pipe takes it.
PumpWrite ==
    /\ pump = "writing"
    /\ \/ /\ writable /\ Room(helperIn)
          /\ helperIn' = Append(helperIn, carrying)
          /\ writable' = (carrying # Close)
          /\ pump' = "loop" /\ UNCHANGED <<carrying, guestVars>>
       \/ /\ ~writable \/ guest = "exited"
          /\ writable' = FALSE
          /\ pump' = "failing" /\ UNCHANGED <<carrying, guestVars, helperIn>>
       \/ cancelled /\ PumpEnds /\ UNCHANGED <<helperIn, writable>>
    /\ UNCHANGED <<clientVars, bridgeVars, streamVars, sessionVars, helperOut, data, terminal>>

\* outputs.send(Err(error)), then out of the loop.
PumpFail ==
    /\ pump = "failing"
    /\ \/ bridge # "ended" /\ Room(output) /\ output' = Append(output, Failed)
       \/ bridge = "ended" /\ UNCHANGED output
    /\ PumpEnds
    /\ UNCHANGED <<clientVars, bridgeVars, streamVars, input, cancelled, helperVars,
                   data, terminal>>

PumpDeliver ==
    /\ pump = "delivering"
    /\ \/ /\ bridge # "ended" /\ Room(output)
          /\ output' = Append(output, carrying)
          /\ \/ carrying \in {Exit, Failed} /\ PumpEnds
             \/ carrying \notin {Exit, Failed} /\ pump' = "loop" /\ UNCHANGED <<carrying, guestVars>>
       \/ (cancelled \/ bridge = "ended") /\ PumpEnds /\ UNCHANGED output
    /\ UNCHANGED <<clientVars, bridgeVars, streamVars, input, cancelled, helperVars,
                   data, terminal>>

PumpStep == PumpSelect \/ PumpWrite \/ PumpFail \/ PumpDeliver

-----------------------------------------------------------------------------
(* The guest behind the helper *)

GuestReads ==
    /\ guest = "run" /\ helperIn # <<>>
    /\ helperIn' = Tail(helperIn)
    /\ guest' = IF Head(helperIn) = Close THEN "exiting" ELSE IF Echo THEN "owes" ELSE "run"
    /\ UNCHANGED <<wrote, helperOut>>

GuestWrites ==
    /\ guest = "owes" \/ (guest = "run" /\ ~Echo /\ wrote < MaxOutput)
    /\ Room(helperOut)
    /\ helperOut' = Append(helperOut, wrote + 1)
    /\ wrote' = wrote + 1 /\ guest' = "run"
    /\ UNCHANGED helperIn

GuestQuits == Quits /\ guest = "run" /\ guest' = "exiting" /\ UNCHANGED <<wrote, helperIn, helperOut>>

\* The helper reports the exit behind all output and ends.
HelperExits ==
    /\ guest = "exiting" /\ Room(helperOut)
    /\ helperOut' = Append(helperOut, Exit) /\ guest' = "exited"
    /\ UNCHANGED <<wrote, helperIn>>

\* superviseSession: input for a process that is gone but not yet waited for
\* cannot be written; the helper reports that and not the exit.
HelperFails ==
    /\ guest = "exiting" /\ helperIn # <<>> /\ Head(helperIn) = Stdin
    /\ Room(helperOut)
    /\ helperIn' = Tail(helperIn)
    /\ helperOut' = Append(helperOut, Failed) /\ guest' = "exited"
    /\ UNCHANGED wrote

GuestStep ==
    /\ GuestReads \/ GuestWrites \/ GuestQuits \/ HelperExits \/ HelperFails
    /\ UNCHANGED <<clientVars, bridgeVars, pumpVars, streamVars, sessionVars, writable,
                   data, terminal>>

-----------------------------------------------------------------------------
(* AttachStream::poll_next *)

\* The terminal is polled first ...
PollTerminal ==
    /\ stream = "poll"
    /\ \/ /\ peeked = None /\ terminal = Dropped
          /\ stream' = "ended" /\ UNCHANGED peeked
       \/ /\ ~(peeked = None /\ terminal = Dropped)
          /\ peeked' = IF peeked = None THEN terminal ELSE peeked
          /\ stream' = "polled"
    /\ UNCHANGED <<data, received>>

\* Mistake: a terminal frame is handed out ahead of the data.
PollDataLate ==
    /\ stream = "polled"
    /\ \/ /\ peeked # None
          /\ received' = Append(received, peeked) /\ stream' = "ended" /\ UNCHANGED data
       \/ /\ peeked = None /\ data # <<>>
          /\ received' = Append(received, Head(data))
          /\ data' = Tail(data) /\ stream' = "poll"
       \/ /\ peeked = None /\ data = <<>> /\ bridge = "ended"
          /\ stream' = "ended" /\ UNCHANGED <<received, data>>
       \/ /\ peeked = None /\ data = <<>> /\ bridge # "ended"
          /\ stream' = "parked" /\ UNCHANGED <<received, data>>
    /\ UNCHANGED peeked

\* ... and handed out when the data channel is empty and closed.
PollData ==
    /\ stream = "polled"
    /\ \/ /\ data # <<>>
          /\ received' = Append(received, Head(data))
          /\ data' = Tail(data) /\ stream' = "poll"
       \/ /\ data = <<>> /\ bridge = "ended"
          /\ received' = IF peeked = None THEN received ELSE Append(received, peeked)
          /\ stream' = "ended" /\ UNCHANGED data
       \/ /\ data = <<>> /\ bridge # "ended"
          /\ stream' = "parked" /\ UNCHANGED <<received, data>>
    /\ UNCHANGED peeked

StreamWakes ==
    /\ stream = "parked"
    /\ data # <<>> \/ bridge = "ended" \/ (peeked = None /\ terminal # None)
    /\ stream' = "poll" /\ UNCHANGED <<peeked, received, data>>

StreamStep ==
    /\ client # "gone"
    /\ PollTerminal \/ PollData \/ StreamWakes
    /\ UNCHANGED <<clientVars, bridgeVars, pumpVars, guestVars, sessionVars, helperVars,
                   terminal>>

-----------------------------------------------------------------------------
Next == Environment \/ BridgeStep \/ PumpStep \/ GuestStep \/ StreamStep

Spec == Init /\ [][Next]_vars

\* The runtime polls the tasks that are ready, select! picks any ready branch,
\* the grace period ends, and the guest does not stop reading for ever unless
\* nobody takes what it writes.
Must(task) ==
    \/ task = "bridge" /\ BridgeStep
    \/ task = "pump" /\ PumpStep
    \/ task = "guest" /\ GuestStep
    \/ task = "stream" /\ StreamStep

Promised == {"bridge", "pump", "guest", "stream"}

FairSpec == Spec /\ \A task \in Promised : WF_vars(Must(task))

-----------------------------------------------------------------------------
(* Properties *)

Outputs(s) == SelectSeq(s, LAMBDA x : x \notin {Exit, Failed})

\* Whoever has got the exit code has got everything the process wrote before,
\* in its order: output passes four channels and the exit code overtakes none.
ExitFollowsOutput ==
    /\ Outputs(received) = [i \in 1..Len(Outputs(received)) |-> i]
    /\ \A i \in 1..Len(received) : received[i] = Exit =>
          i = Len(received) /\ Len(Outputs(received)) = wrote

\* The process does not outlive its session: once the bridge has ended the
\* guest exits or is killed.
GuestIsReleased == bridge = "ended" ~> guest \in {"exited", "killed"}

\* A client that goes away or a daemon that shuts down ends the bridge, which
\* holds an ActivityLease.
BridgeEnds == (client = "gone" \/ stopping) ~> bridge = "ended"

\* A client that stays gets a terminal frame at the end of its stream.
StreamEndsWithTerminal ==
    stream = "ended" /\ client = "there" =>
        received # <<>> /\ received[Len(received)] \in {Exit, Failed}

\* A client that stays and sends only stdin gets the exit code of a process
\* that has exited, not an error in its place.
ExitCodeIsExact ==
    stream = "ended" /\ client = "there" /\ guest = "exited" /\ peeked # None =>
        received[Len(received)] = Exit

=============================================================================
