------------------------------ MODULE Activity ------------------------------
(***************************************************************************)
(* Who keeps the daemon alive and how it ends (crates/gascand/src/api.rs): *)
(* the ActivityTracker with its atomics and notifications, the request     *)
(* handlers that count themselves in it, the idle watcher, and serve_bound *)
(* with its graceful shutdown.                                             *)
(*                                                                         *)
(* Every access to one atomic is a step.  A counter is the set of those    *)
(* who have counted themselves, as every one of them does so once.  A      *)
(* Notified future is a flag that is lowered when the future is created    *)
(* and raised by notify_waiters; the generation, which is only compared    *)
(* with an earlier reading, is the flag `moved`.  touch() bumps the        *)
(* generation and then notifies: one step here, as the only thing that     *)
(* fits in between is a wake-up that finds nothing new.                    *)
(***************************************************************************)
EXTENDS Naturals

CONSTANTS
    Calls,         \* requests clients make
    Kind,          \* Calls -> what is asked for
    Disconnects,   \* clients may go away before their call has ended
    Signals,       \* somebody may send SIGTERM
    Impatient      \* shutdown_timeout may run out

VARIABLES
    accepting, operations, leases, requested, shuttingDown,  \* ActivityInner
    moved,         \* generation differs from the one the idle watcher loaded
    changed,       \* waiter -> its Notified on `changed` is ready
    cancelled,     \* call -> the Notified of its stream on `shutdown` is ready
    handler,       \* call -> the handler, then the task that feeds its stream
    worker,        \* call -> the detached task of the call
    gone,          \* the calls whose client went away
    idle,          \* wait_for_idle
    server         \* serve_bound

trackerVars == <<accepting, operations, leases, requested, shuttingDown>>
noteVars == <<moved, changed, cancelled>>
vars == <<trackerVars, noteVars, handler, worker, gone, idle, server>>

HandlerPc ==
    {"none", "arrived", "count", "counted", "recheck", "admitted", "waiting",
     "undo", "undone", "check", "lease", "leased", "work", "unlease",
     "unleased", "feed", "fed", "register", "flag", "parked", "sendRegister",
     "sendFlag", "sending", "close", "request", "ended"}

WorkerPc ==
    {"none", "run", "finish", "finished", "lease", "leased", "first", "parked",
     "reading", "unlease", "unleased", "ended"}

IdlePc ==
    {"register", "leases", "operations", "park", "generation", "arm", "armed",
     "leasesAgain", "operationsAgain", "generationAgain", "expired"}

ServerPc ==
    {"serving", "began", "finished", "drain", "drainCheck", "drainPark",
     "cancel", "notify", "closing", "ended", "timedOut"}

Over == {"ended", "timedOut"}

Init ==
    /\ accepting = TRUE /\ operations = {} /\ leases = {}
    /\ requested = FALSE /\ shuttingDown = FALSE
    /\ moved = FALSE /\ changed = [w \in {"idle", "drain"} |-> FALSE]
    /\ cancelled = [c \in Calls |-> FALSE]
    /\ handler = [c \in Calls |-> "none"]
    /\ worker = [c \in Calls |-> "none"]
    /\ gone = {} /\ idle = "register" /\ server = "serving"

Goto(c, from, to) == handler[c] = from /\ handler' = [handler EXCEPT ![c] = to]

WorkerGoto(c, from, to) == worker[c] = from /\ worker' = [worker EXCEPT ![c] = to]

\* touch()
Touch ==
    /\ moved' = TRUE
    /\ changed' = [w \in {"idle", "drain"} |-> TRUE]
    /\ UNCHANGED cancelled

-----------------------------------------------------------------------------
(* Requests.  A connection is open as long as a call on it has not ended;  *)
(* calls that reach a server that is shutting down are still answered.     *)

Following(c) == Kind[c] = "follow" /\ worker[c] \notin {"none", "ended"}

Open(c) == c \notin gone /\ (handler[c] \notin {"none", "ended"} \/ Following(c))

Arrive(c) ==
    /\ server \notin Over \cup {"finished"}
    /\ Goto(c, "none", CASE Kind[c] = "durable" -> "arrived"
                         [] Kind[c] = "shutdown" -> "close"
                         [] OTHER -> "check")
    /\ UNCHANGED <<trackerVars, noteVars, worker, gone, idle, server>>

\* The first half of admit_operation: ensure_accepting, then operation_started.
Admit(c) ==
    \/ /\ Goto(c, "arrived", IF accepting THEN "count" ELSE "ended")
       /\ UNCHANGED <<trackerVars, noteVars, worker, gone, idle, server>>
    \/ /\ Goto(c, "count", "counted")
       /\ operations' = operations \cup {c}
       /\ UNCHANGED <<accepting, leases, requested, shuttingDown>>
       /\ UNCHANGED <<noteVars, worker, gone, idle, server>>
    \/ /\ Goto(c, "counted", "recheck")
       /\ Touch /\ UNCHANGED <<trackerVars, worker, gone, idle, server>>

\* Mistake: an operation that was counted is admitted without another look.
ReadmitAlways(c) ==
    /\ Goto(c, "recheck", "admitted")
    /\ UNCHANGED <<trackerVars, noteVars, worker, gone, idle, server>>

\* The second half: an operation counted too late is taken back.
Readmit(c) ==
    /\ Goto(c, "recheck", IF accepting THEN "admitted" ELSE "undo")
    /\ UNCHANGED <<trackerVars, noteVars, worker, gone, idle, server>>

\* require_runtime_ready and spec_for_root may refuse; otherwise the operation
\* moves into a detached task and the handler waits until it has started.
Spawn(c) ==
    \/ /\ Goto(c, "admitted", "undo")
       /\ UNCHANGED <<trackerVars, noteVars, worker, gone, idle, server>>
    \/ /\ Goto(c, "admitted", "waiting")
       /\ worker' = [worker EXCEPT ![c] = "run"]
       /\ UNCHANGED <<trackerVars, noteVars, gone, idle, server>>

\* Dropping the OperationLease of a handler.
Undo(c) ==
    \/ /\ Goto(c, "undo", "undone")
       /\ operations' = operations \ {c}
       /\ UNCHANGED <<accepting, leases, requested, shuttingDown>>
       /\ UNCHANGED <<noteVars, worker, gone, idle, server>>
    \/ /\ Goto(c, "undone", "ended")
       /\ Touch /\ UNCHANGED <<trackerVars, worker, gone, idle, server>>

\* The detached task: the operation runs to its end, then its lease is
\* dropped.
Operate(c) ==
    \/ /\ WorkerGoto(c, "run", "finish")
       /\ UNCHANGED <<trackerVars, noteVars, handler, gone, idle, server>>
    \/ /\ WorkerGoto(c, "finish", "finished")
       /\ operations' = operations \ {c}
       /\ UNCHANGED <<accepting, leases, requested, shuttingDown>>
       /\ UNCHANGED <<noteVars, handler, gone, idle, server>>
    \/ /\ WorkerGoto(c, "finished", "ended")
       /\ Touch /\ UNCHANGED <<trackerVars, handler, gone, idle, server>>

\* The operation has started, or has failed before it did.
Started(c) ==
    /\ \/ Goto(c, "waiting", "feed")
       \/ worker[c] # "run" /\ Goto(c, "waiting", "ended")
    /\ UNCHANGED <<trackerVars, noteVars, worker, gone, idle, server>>

\* Calls that only hold a lease: ensure_accepting, then lease().  shutdown_daemon
\* does not ask: it stops admission and then requests the termination.
Short(c) ==
    \/ /\ Goto(c, "check", IF accepting THEN "lease" ELSE "ended")
       /\ UNCHANGED <<trackerVars, noteVars, worker, gone, idle, server>>
    \/ /\ Goto(c, "lease", "leased")
       /\ leases' = leases \cup {<<c, "call">>}
       /\ UNCHANGED <<accepting, operations, requested, shuttingDown>>
       /\ UNCHANGED <<noteVars, worker, gone, idle, server>>
    \/ /\ Goto(c, "leased", "work")
       /\ Touch /\ UNCHANGED <<trackerVars, worker, gone, idle, server>>

RequestTermination(c) ==
    \/ /\ Goto(c, "close", "request")
       /\ accepting' = FALSE
       /\ UNCHANGED <<operations, leases, requested, shuttingDown>>
       /\ UNCHANGED <<noteVars, worker, gone, idle, server>>
    \/ /\ Goto(c, "request", "ended")
       /\ requested' = TRUE
       /\ UNCHANGED <<accepting, operations, leases, shuttingDown>>
       /\ UNCHANGED <<noteVars, worker, gone, idle, server>>

\* The answer is ready; a follow leaves a task behind.
Answer(c) ==
    /\ Goto(c, "work", "unlease")
    /\ worker' = IF Kind[c] = "follow" THEN [worker EXCEPT ![c] = "lease"] ELSE worker
    /\ UNCHANGED <<trackerVars, noteVars, gone, idle, server>>

\* Dropping the ActivityLease of a handler or of the task that feeds a stream.
Unlease(c) ==
    \/ /\ Goto(c, "unlease", "unleased")
       /\ leases' = leases \ {<<c, "call">>}
       /\ UNCHANGED <<accepting, operations, requested, shuttingDown>>
       /\ UNCHANGED <<noteVars, worker, gone, idle, server>>
    \/ /\ Goto(c, "unleased", "ended")
       /\ Touch /\ UNCHANGED <<trackerVars, worker, gone, idle, server>>

\* A client that goes away drops the handler where it awaits, or the stream.
Disconnect(c) ==
    /\ Disconnects /\ Open(c)
    /\ gone' = gone \cup {c}
    /\ \/ Goto(c, "admitted", "undo")
       \/ Goto(c, "waiting", "ended")
       \/ Goto(c, "work", "unlease")
       \/ handler[c] \in {"parked", "sending", "ended"} /\ UNCHANGED handler
    /\ UNCHANGED <<trackerVars, noteVars, worker, idle, server>>

-----------------------------------------------------------------------------
(* Streams *)

\* The task of ApiEventStream takes a lease and forwards events until they
\* end, the client is gone or the streams are cancelled.  It creates its
\* Notified before it looks at the flag.
Feed(c) ==
    \/ /\ Goto(c, "feed", "fed")
       /\ leases' = leases \cup {<<c, "call">>}
       /\ UNCHANGED <<accepting, operations, requested, shuttingDown>>
       /\ UNCHANGED <<noteVars, worker, gone, idle, server>>
    \/ /\ Goto(c, "fed", "register")
       /\ Touch /\ UNCHANGED <<trackerVars, worker, gone, idle, server>>

\* Mistake: the flag is read before the Notified exists.
RegisterLate(c) ==
    \/ /\ Goto(c, "register", IF shuttingDown THEN "unlease" ELSE "flag")
       /\ UNCHANGED <<trackerVars, noteVars, worker, gone, idle, server>>
    \/ /\ Goto(c, "flag", "parked")
       /\ cancelled' = [cancelled EXCEPT ![c] = FALSE]
       /\ UNCHANGED <<trackerVars, moved, changed, worker, gone, idle, server>>

Register(c) ==
    \/ /\ Goto(c, "register", "flag")
       /\ cancelled' = [cancelled EXCEPT ![c] = FALSE]
       /\ UNCHANGED <<trackerVars, moved, changed, worker, gone, idle, server>>
    \/ /\ Goto(c, "flag", IF shuttingDown THEN "unlease" ELSE "parked")
       /\ UNCHANGED <<trackerVars, noteVars, worker, gone, idle, server>>

\* An event arrives, or the events end with the operation, or the streams are
\* cancelled.
Receive(c) ==
    /\ \/ worker[c] = "run" /\ Goto(c, "parked", "sendRegister")
       \/ worker[c] # "run" /\ Goto(c, "parked", "unlease")
       \/ cancelled[c] /\ Goto(c, "parked", "unlease")
    /\ UNCHANGED <<trackerVars, noteVars, worker, gone, idle, server>>

\* An event waits for room in the channel to the client.
Send(c) ==
    \/ /\ Goto(c, "sendRegister", "sendFlag")
       /\ cancelled' = [cancelled EXCEPT ![c] = FALSE]
       /\ UNCHANGED <<trackerVars, moved, changed, worker, gone, idle, server>>
    \/ /\ Goto(c, "sendFlag", IF shuttingDown THEN "unlease" ELSE "sending")
       /\ UNCHANGED <<trackerVars, noteVars, worker, gone, idle, server>>
    \/ /\ \/ c \notin gone /\ Goto(c, "sending", "register")
          \/ c \in gone /\ Goto(c, "sending", "unlease")
          \/ cancelled[c] /\ Goto(c, "sending", "unlease")
       /\ UNCHANGED <<trackerVars, noteVars, worker, gone, idle, server>>

\* The task of a logs request with follow.  Each turn of its loop creates the
\* Notified anew; nothing looks at the flag.
Follow(c) ==
    \/ /\ WorkerGoto(c, "lease", "leased")
       /\ Kind[c] = "follow"
       /\ leases' = leases \cup {<<c, "work">>}
       /\ UNCHANGED <<accepting, operations, requested, shuttingDown>>
       /\ UNCHANGED <<noteVars, handler, gone, idle, server>>
    \/ /\ WorkerGoto(c, "leased", "first")
       /\ Touch /\ UNCHANGED <<trackerVars, handler, gone, idle, server>>
    \/ /\ \/ c \notin gone /\ WorkerGoto(c, "first", "parked")
             /\ cancelled' = [cancelled EXCEPT ![c] = FALSE]
          \/ c \in gone /\ WorkerGoto(c, "first", "unlease") /\ UNCHANGED cancelled
          \/ cancelled[c] /\ WorkerGoto(c, "parked", "unlease") /\ UNCHANGED cancelled
          \/ c \in gone /\ WorkerGoto(c, "parked", "unlease") /\ UNCHANGED cancelled
          \/ WorkerGoto(c, "parked", "reading") /\ UNCHANGED cancelled
          \/ WorkerGoto(c, "reading", "unlease") /\ UNCHANGED cancelled
          \/ WorkerGoto(c, "reading", "parked")
             /\ cancelled' = [cancelled EXCEPT ![c] = FALSE]
       /\ UNCHANGED <<trackerVars, moved, changed, handler, gone, idle, server>>
    \/ /\ WorkerGoto(c, "unlease", "unleased")
       /\ leases' = leases \ {<<c, "work">>}
       /\ UNCHANGED <<accepting, operations, requested, shuttingDown>>
       /\ UNCHANGED <<noteVars, handler, gone, idle, server>>
    \/ /\ WorkerGoto(c, "unleased", "ended")
       /\ Touch /\ UNCHANGED <<trackerVars, handler, gone, idle, server>>

-----------------------------------------------------------------------------
(* wait_for_idle *)

IdleGoto(from, to) ==
    /\ idle = from /\ idle' = to
    /\ UNCHANGED <<trackerVars, cancelled, handler, worker, gone, server>>

\* Waits until nothing is counted.
WatchActivity ==
    \/ /\ IdleGoto("register", "leases")
       /\ changed' = [changed EXCEPT !["idle"] = FALSE] /\ UNCHANGED moved
    \/ /\ IdleGoto("leases", IF leases = {} THEN "operations" ELSE "park")
       /\ UNCHANGED <<changed, moved>>
    \/ /\ IdleGoto("operations", IF operations = {} THEN "generation" ELSE "park")
       /\ UNCHANGED <<changed, moved>>
    \/ /\ changed["idle"] /\ IdleGoto("park", "register")
       /\ UNCHANGED <<changed, moved>>

\* Loads the generation and starts the timer; activity starts over.
ArmTimer ==
    \/ /\ IdleGoto("generation", "arm")
       /\ moved' = FALSE /\ UNCHANGED changed
    \/ /\ IdleGoto("arm", "armed")
       /\ changed' = [changed EXCEPT !["idle"] = FALSE] /\ UNCHANGED moved
    \/ /\ changed["idle"] /\ IdleGoto("armed", "register")
       /\ UNCHANGED <<changed, moved>>

\* Mistake: the generation is not compared.
ExpireBlindly ==
    /\ \/ IdleGoto("armed", "leasesAgain")
       \/ IdleGoto("leasesAgain", IF leases = {} THEN "operationsAgain" ELSE "register")
       \/ IdleGoto("operationsAgain", IF operations = {} THEN "expired" ELSE "register")
    /\ UNCHANGED <<changed, moved>>

\* The timer runs out: nothing is counted and nothing was in the meantime.
Expire ==
    /\ \/ IdleGoto("armed", "leasesAgain")
       \/ IdleGoto("leasesAgain", IF leases = {} THEN "operationsAgain" ELSE "register")
       \/ IdleGoto("operationsAgain", IF operations = {} THEN "generationAgain" ELSE "register")
       \/ IdleGoto("generationAgain", IF moved THEN "register" ELSE "expired")
    /\ UNCHANGED <<changed, moved>>

-----------------------------------------------------------------------------
(* serve_bound *)

ServerGoto(from, to) == server = from /\ server' = to

NoConnection == \A c \in Calls : ~Open(c)

\* The shutdown future: it was idle, a signal came, or a client asked.  Without
\* connections the server ends in the same poll, before anybody looks at
\* began_rx; a connection without a call still counts as one.
BeginShutdown ==
    /\ idle = "expired" \/ requested \/ Signals
    /\ \/ ServerGoto("serving", "began")
       \/ NoConnection /\ ServerGoto("serving", "finished")
    /\ accepting' = FALSE
    /\ UNCHANGED <<operations, leases, requested, shuttingDown>>
    /\ UNCHANGED <<noteVars, handler, worker, gone, idle>>

\* The select: the server has ended, or the shutdown has begun.
Choose ==
    /\ \/ ServerGoto("finished", "ended")
       \/ NoConnection /\ ServerGoto("began", "ended")
       \/ ServerGoto("began", "drain")
    /\ UNCHANGED <<trackerVars, noteVars, handler, worker, gone, idle>>

\* Mistake: the count is read before the Notified exists.
DrainLate ==
    /\ UNCHANGED <<trackerVars, moved, cancelled, handler, worker, gone, idle>>
    /\ \/ /\ ServerGoto("drain", IF operations = {} THEN "cancel" ELSE "drainCheck")
          /\ UNCHANGED changed
       \/ /\ ServerGoto("drainCheck", "drainPark")
          /\ changed' = [changed EXCEPT !["drain"] = FALSE]
       \/ /\ changed["drain"] /\ ServerGoto("drainPark", "drain")
          /\ UNCHANGED changed

\* wait_for_operations
Drain ==
    /\ UNCHANGED <<trackerVars, moved, cancelled, handler, worker, gone, idle>>
    /\ \/ /\ ServerGoto("drain", "drainCheck")
          /\ changed' = [changed EXCEPT !["drain"] = FALSE]
       \/ /\ ServerGoto("drainCheck", IF operations = {} THEN "cancel" ELSE "drainPark")
          /\ UNCHANGED changed
       \/ /\ changed["drain"] /\ ServerGoto("drainPark", "drain")
          /\ UNCHANGED changed

\* cancel_streams
CancelStreams ==
    /\ UNCHANGED <<accepting, operations, leases, requested, handler, worker, gone, idle>>
    /\ \/ /\ ServerGoto("cancel", "notify")
          /\ shuttingDown' = TRUE /\ UNCHANGED noteVars
       \/ /\ ServerGoto("notify", "closing")
          /\ cancelled' = [c \in Calls |-> TRUE]
          /\ UNCHANGED <<shuttingDown, moved, changed>>

\* The server ends with its last connection, or the timeout comes first.
Close ==
    /\ \/ NoConnection /\ ServerGoto("closing", "ended")
       \/ Impatient /\ ServerGoto("closing", "timedOut")
    /\ UNCHANGED <<trackerVars, noteVars, handler, worker, gone, idle>>

-----------------------------------------------------------------------------
HandlerStep(c) ==
    \/ Admit(c) \/ Readmit(c) \/ Spawn(c) \/ Undo(c) \/ Started(c)
    \/ Short(c) \/ RequestTermination(c) \/ Answer(c) \/ Unlease(c)
    \/ Feed(c) \/ Register(c) \/ Receive(c) \/ Send(c)

WorkerStep(c) == Operate(c) \/ Follow(c)

IdleStep == WatchActivity \/ ArmTimer \/ Expire

ServerStep == BeginShutdown \/ Choose \/ Drain \/ CancelStreams \/ Close

\* The process ends with serve_bound.
Exited == server \in Over /\ UNCHANGED vars

Next ==
    \/ /\ server \notin Over
       /\ \/ \E c \in Calls : Arrive(c) \/ Disconnect(c) \/ HandlerStep(c) \/ WorkerStep(c)
          \/ IdleStep
          \/ ServerStep
    \/ Exited

\* The runtime polls every ready task again and again, operations end, and the
\* idle timer runs out unless activity resets it.  Clients and signals are not
\* under any obligation.
Must(task) ==
    \/ \E c \in Calls :
          /\ server \notin Over
          /\ \/ task = <<"handler", c>> /\ HandlerStep(c)
             \/ task = <<"worker", c>> /\ WorkerStep(c)
    \/ task = <<"idle">> /\ server \notin Over /\ IdleStep
    \/ /\ task = <<"server">>
       /\ \/ server \notin Over /\ (idle = "expired" \/ requested) /\ BeginShutdown
          \/ Choose \/ Drain \/ CancelStreams \/ Close

Promised == ({"handler", "worker"} \X Calls) \cup {<<"idle">>, <<"server">>}

Spec == Init /\ [][Next]_vars

FairSpec == Spec /\ \A task \in Promised : WF_vars(Must(task))

-----------------------------------------------------------------------------
(* Properties *)

TypeOK ==
    /\ accepting \in BOOLEAN /\ requested \in BOOLEAN /\ shuttingDown \in BOOLEAN
    /\ operations \subseteq Calls
    /\ leases \subseteq Calls \X {"call", "work"}
    /\ moved \in BOOLEAN /\ changed \in [{"idle", "drain"} -> BOOLEAN]
    /\ cancelled \in [Calls -> BOOLEAN]
    /\ handler \in [Calls -> HandlerPc] /\ worker \in [Calls -> WorkerPc]
    /\ gone \subseteq Calls /\ idle \in IdlePc /\ server \in ServerPc

\* The calls whose durable operation has been admitted and has not ended.
Working(c) == handler[c] = "admitted" \/ worker[c] = "run"

Drained == server \in {"cancel", "notify", "closing", "ended", "timedOut"}

\* The tracker keeps the promise of a gate: nobody enters once it is shut, and
\* serve_bound goes past it only when everybody has left.  Holds while clients
\* stay until their answer is complete.
AdmissionGate == INSTANCE Gate WITH
    open <- accepting, inside <- {c \in Calls : Working(c)}, done <- Drained

GateIsKept == AdmissionGate!GateSpec

\* serve_bound stops waiting for durable operations (wait_for_operations, then
\* cancel_streams and the end of the process) only when none is admitted or
\* running.
DrainedIsQuiet == Drained => \A c \in Calls : ~Working(c)

\* No event stream misses its cancellation: once cancel_streams has notified,
\* a stream that waits for an event or for room holds a Notified that is ready.
CancellationIsNeverLost ==
    server \in {"closing", "timedOut"} =>
        \A c \in Calls : handler[c] \in {"parked", "sending"} => cancelled[c]

\* wait_for_idle returns only when nobody has work under way: whoever counted
\* itself since the timer started has not come as far as touch().
Engaged(c) ==
    \/ handler[c] \in {"recheck", "admitted", "work", "register", "flag", "parked",
                       "sendRegister", "sendFlag", "sending"}
    \/ worker[c] \in {"run", "first", "parked", "reading"}

ExpiryIsIdle ==
    [][idle # "expired" /\ idle' = "expired" => \A c \in Calls : ~Engaged(c)]_vars

\* A shutdown that has begun comes to its end: durable operations drain, the
\* streams see their cancellation and the connections close, without the help
\* of shutdown_timeout.
ShutdownEnds == server # "serving" ~> server = "ended"

\* A daemon that nobody uses any more ends by itself: no notification that
\* wait_for_idle needs is lost.
Unused == \A c \in Calls : handler[c] \in {"none", "ended"} /\ worker[c] \in {"none", "ended"}

IdleDaemonExits == <>[]Unused => <>(server \in Over)

=============================================================================
