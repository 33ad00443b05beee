--------------------------- MODULE ActivityProofs ---------------------------
(***************************************************************************)
(* Proofs about the activity tracker of the daemon, for any set of calls.  *)
(*                                                                         *)
(* The counters of ActivityTracker are read and written one atomic access  *)
(* at a time, so nothing holds because two of them change together.  What  *)
(* holds it together is Bookkeeping: which step of a handler or a detached *)
(* task goes with which count, and which steps of serve_bound go with      *)
(* which flag.  From it follow what a stream and the idle watcher rely on, *)
(* and, while no client goes away, that the tracker implements Gate.       *)
(***************************************************************************)
EXTENDS Activity, TLAPS

-----------------------------------------------------------------------------
(* The inductive invariant *)

\* The steps at which the detached task of a call has not been spawned yet.
BeforeWorker ==
    {"none", "arrived", "count", "counted", "recheck", "admitted", "undo", "undone",
     "check", "lease", "leased", "work", "close", "request"}

\* The steps at which a stream of events is fed under a lease.
Feeding ==
    {"fed", "register", "flag", "parked", "sendRegister", "sendFlag", "sending"}

\* The steps of the task of a logs request that follows.
FollowPc ==
    {"lease", "leased", "first", "parked", "reading", "unlease", "unleased"}

\* The detached task of a call exists only after its handler has spawned it,
\* and the task of a follow only beside a handler that has answered.
WorkersComeLater ==
    \A c \in Calls :
        /\ handler[c] \in BeforeWorker => worker[c] = "none"
        /\ worker[c] \in FollowPc => handler[c] \in {"unlease", "unleased", "ended"}

\* A call is counted from operation_started to the drop of its OperationLease,
\* which the handler hands on to the detached task.
OperationsAreCounted ==
    \A c \in Calls :
        /\ handler[c] \in {"counted", "recheck", "admitted", "undo"} => c \in operations
        /\ worker[c] \in {"run", "finish"} => c \in operations

\* A call is leased from lease() to the drop of the ActivityLease.
LeasesAreHeld ==
    \A c \in Calls :
        /\ handler[c] \in {"leased", "work"} \cup Feeding => <<c, "call">> \in leases
        /\ worker[c] \in {"leased", "first", "parked", "reading"} => <<c, "work">> \in leases

\* The flags of the tracker go with the step that serve_bound has reached.
FlagsAreKept ==
    /\ server # "serving" => ~accepting
    /\ shuttingDown => server \in {"notify", "closing", "ended", "timedOut"}
    /\ server \in {"notify", "closing", "timedOut"} => shuttingDown
    /\ \A c \in Calls : cancelled[c] => server \in {"closing", "ended", "timedOut"}

\* The steps at which a call holds the lease of a request or of a stream, and
\* those at which it holds the lease of an operation, and has touched.
LeaseEngaged(c) ==
    \/ handler[c] \in {"work"} \cup (Feeding \ {"fed"})
    \/ worker[c] \in {"first", "parked", "reading"}

OperationEngaged(c) == handler[c] \in {"recheck", "admitted"} \/ worker[c] = "run"

\* What the idle watcher has seen stays true until the generation moves.
WatcherSaw ==
    ~moved =>
        /\ idle \in {"operationsAgain", "generationAgain"} =>
               \A c \in Calls : ~LeaseEngaged(c)
        /\ idle = "generationAgain" => \A c \in Calls : ~OperationEngaged(c)

\* What the step of a call may be, and for whom a Notified is kept.
Shape ==
    /\ handler \in [Calls -> HandlerPc]
    /\ worker \in [Calls -> WorkerPc]
    /\ cancelled \in [Calls -> BOOLEAN]

Bookkeeping ==
    /\ Shape /\ WorkersComeLater /\ OperationsAreCounted /\ LeasesAreHeld
    /\ FlagsAreKept /\ WatcherSaw /\ CancellationIsNeverLost

\* The steps of a handler or a stream while its operation runs.
Attending == {"waiting", "feed"} \cup Feeding

\* While no client goes away: an operation that runs has a client waiting, and
\* the server has no connection left, or has drained, only without operations.
OperationsAreAttended ==
    /\ gone = {}
    /\ \A c \in Calls : worker[c] = "run" => handler[c] \in Attending
    /\ server = "finished" => \A c \in Calls : handler[c] \in {"none", "ended"}
    /\ DrainedIsQuiet
-----------------------------------------------------------------------------
(* Every step keeps the invariant *)

\* A handler, a task and a stream stay within their steps.
LEMMA StepKeepsShape ==
    ASSUME Bookkeeping, [Next]_vars
    PROVE  Shape'
<1> USE DEF Bookkeeping, Shape, HandlerPc, WorkerPc, vars, trackerVars, noteVars
<1>1. ASSUME NEW c \in Calls, Arrive(c) \/ Disconnect(c) \/ HandlerStep(c) \/ WorkerStep(c)
      PROVE  Shape'
  <2>1. CASE Arrive(c) \/ Disconnect(c)
    BY <2>1 DEF Arrive, Disconnect, Goto, Touch
  <2>2. CASE Admit(c) \/ Readmit(c) \/ Spawn(c) \/ Undo(c) \/ Started(c)
    BY <2>2 DEF Admit, Readmit, Spawn, Undo, Started, Goto, Touch
  <2>3. CASE Short(c) \/ RequestTermination(c) \/ Answer(c) \/ Unlease(c)
    BY <2>3 DEF Short, RequestTermination, Answer, Unlease, Goto, Touch
  <2>4. CASE Feed(c) \/ Register(c) \/ Receive(c) \/ Send(c)
    BY <2>4 DEF Feed, Register, Receive, Send, Goto, Touch
  <2>5. CASE Operate(c) \/ Follow(c)
    BY <2>5 DEF Operate, Follow, WorkerGoto, Touch
  <2> QED
    BY <1>1, <2>1, <2>2, <2>3, <2>4, <2>5 DEF HandlerStep, WorkerStep
<1>2. CASE IdleStep
  BY <1>2 DEF IdleStep, WatchActivity, ArmTimer, Expire, IdleGoto
<1>3. CASE ServerStep
  BY <1>3 DEF ServerStep, BeginShutdown, Choose, Drain, CancelStreams, Close, ServerGoto
<1>4. CASE UNCHANGED vars
  BY <1>4
<1> QED
  BY <1>1, <1>2, <1>3, <1>4 DEF Next, Exited

\* admit_operation is over before the task is spawned, and a follow is answered
\* before its task runs.
LEMMA StepKeepsWorkersComeLater ==
    ASSUME Bookkeeping, [Next]_vars
    PROVE  WorkersComeLater'
<1> USE DEF Bookkeeping, Shape, WorkersComeLater, BeforeWorker, FollowPc, vars,
           trackerVars, noteVars
<1>1. ASSUME NEW c \in Calls, Arrive(c) \/ Disconnect(c) \/ HandlerStep(c) \/ WorkerStep(c)
      PROVE  WorkersComeLater'
  <2>1. CASE Arrive(c) \/ Disconnect(c)
    BY <2>1 DEF Arrive, Disconnect, Goto, Touch
  <2>2. CASE Admit(c) \/ Readmit(c) \/ Undo(c) \/ Started(c)
    BY <2>2 DEF Admit, Readmit, Undo, Started, Goto, Touch
  <2>3. CASE Spawn(c)
    BY <2>3 DEF Spawn, Goto, Touch
  <2>4. CASE Short(c) \/ RequestTermination(c) \/ Unlease(c)
    BY <2>4 DEF Short, RequestTermination, Unlease, Goto, Touch
  <2>5. CASE Answer(c)
    BY <2>5 DEF Answer, Goto, Touch
  <2>6. CASE Feed(c) \/ Register(c) \/ Receive(c) \/ Send(c)
    BY <2>6 DEF Feed, Register, Receive, Send, Goto, Touch
  <2>7. CASE Operate(c)
    BY <2>7 DEF Operate, WorkerGoto, Touch
  <2>8. CASE Follow(c)
    BY <2>8 DEF Follow, WorkerGoto, Touch
  <2> QED
    BY <1>1, <2>1, <2>2, <2>3, <2>4, <2>5, <2>6, <2>7, <2>8 DEF HandlerStep, WorkerStep
<1>2. CASE IdleStep
  BY <1>2 DEF IdleStep, WatchActivity, ArmTimer, Expire, IdleGoto
<1>3. CASE ServerStep
  BY <1>3 DEF ServerStep, BeginShutdown, Choose, Drain, CancelStreams, Close, ServerGoto
<1>4. CASE UNCHANGED vars
  BY <1>4
<1> QED
  BY <1>1, <1>2, <1>3, <1>4 DEF Next, Exited

\* Nobody but the owner of an OperationLease takes its count back.
LEMMA StepKeepsOperationsAreCounted ==
    ASSUME Bookkeeping, [Next]_vars
    PROVE  OperationsAreCounted'
<1> USE DEF Bookkeeping, Shape, OperationsAreCounted, vars, trackerVars, noteVars
<1>1. ASSUME NEW c \in Calls, Arrive(c) \/ Disconnect(c) \/ HandlerStep(c) \/ WorkerStep(c)
      PROVE  OperationsAreCounted'
  <2>1. CASE Admit(c)
    BY <2>1 DEF Admit, Goto, Touch, WorkersComeLater, BeforeWorker
  <2>2. CASE Readmit(c) \/ Started(c)
    BY <2>2 DEF Readmit, Started, Goto, Touch, WorkersComeLater, BeforeWorker
  <2>3. CASE Spawn(c)
    BY <2>3 DEF Spawn, Goto, Touch, WorkersComeLater, BeforeWorker
  <2>4. CASE Undo(c)
    BY <2>4 DEF Undo, Goto, Touch, WorkersComeLater, BeforeWorker
  <2>5. CASE Operate(c)
    BY <2>5 DEF Operate, WorkerGoto, Touch, WorkersComeLater, BeforeWorker
  <2>6. CASE Follow(c)
    BY <2>6 DEF Follow, WorkerGoto, Touch
  <2>7. CASE Arrive(c) \/ Disconnect(c) \/ Short(c) \/ RequestTermination(c) \/ Answer(c)
            \/ Unlease(c) \/ Feed(c) \/ Register(c) \/ Receive(c) \/ Send(c)
    BY <2>7 DEF Arrive, Disconnect, Short, RequestTermination, Answer, Unlease, Feed,
       Register, Receive, Send, Goto, Touch
  <2> QED
    BY <1>1, <2>1, <2>2, <2>3, <2>4, <2>5, <2>6, <2>7 DEF HandlerStep, WorkerStep
<1>2. CASE IdleStep
  BY <1>2 DEF IdleStep, WatchActivity, ArmTimer, Expire, IdleGoto
<1>3. CASE ServerStep
  BY <1>3 DEF ServerStep, BeginShutdown, Choose, Drain, CancelStreams, Close, ServerGoto
<1>4. CASE UNCHANGED vars
  BY <1>4
<1> QED
  BY <1>1, <1>2, <1>3, <1>4 DEF Next, Exited

\* Nobody but the owner of an ActivityLease takes it back.
LEMMA StepKeepsLeasesAreHeld ==
    ASSUME Bookkeeping, [Next]_vars
    PROVE  LeasesAreHeld'
<1> USE DEF Bookkeeping, Shape, LeasesAreHeld, Feeding, vars, trackerVars, noteVars
<1>1. ASSUME NEW c \in Calls, Arrive(c) \/ Disconnect(c) \/ HandlerStep(c) \/ WorkerStep(c)
      PROVE  LeasesAreHeld'
  <2>1. CASE Short(c)
    BY <2>1 DEF Short, Goto, Touch
  <2>2. CASE Answer(c) \/ Unlease(c)
    BY <2>2 DEF Answer, Unlease, Goto, Touch
  <2>3. CASE Feed(c)
    BY <2>3 DEF Feed, Goto, Touch
  <2>4. CASE Register(c) \/ Receive(c)
    BY <2>4 DEF Register, Receive, Goto, Touch
  <2>5. CASE Send(c)
    BY <2>5 DEF Send, Goto, Touch
  <2>6. CASE Operate(c)
    BY <2>6 DEF Operate, WorkerGoto, Touch
  <2>7. CASE Follow(c)
    BY <2>7 DEF Follow, WorkerGoto, Touch
  <2>8. CASE Arrive(c) \/ Disconnect(c)
    BY <2>8 DEF Arrive, Disconnect, Goto, Touch
  <2>9. CASE Admit(c) \/ Readmit(c) \/ Spawn(c) \/ Undo(c) \/ Started(c)
    BY <2>9 DEF Admit, Readmit, Spawn, Undo, Started, Goto, Touch
  <2>10. CASE RequestTermination(c)
    BY <2>10 DEF RequestTermination, Goto, Touch
  <2> QED
    BY <1>1, <2>1, <2>2, <2>3, <2>4, <2>5, <2>6, <2>7, <2>8, <2>9, <2>10 DEF
       HandlerStep, WorkerStep
<1>2. CASE IdleStep
  BY <1>2 DEF IdleStep, WatchActivity, ArmTimer, Expire, IdleGoto
<1>3. CASE ServerStep
  BY <1>3 DEF ServerStep, BeginShutdown, Choose, Drain, CancelStreams, Close, ServerGoto
<1>4. CASE UNCHANGED vars
  BY <1>4
<1> QED
  BY <1>1, <1>2, <1>3, <1>4 DEF Next, Exited

\* stop_accepting and cancel_streams are never taken back.
LEMMA StepKeepsFlagsAreKept ==
    ASSUME Bookkeeping, [Next]_vars
    PROVE  FlagsAreKept'
<1> USE DEF Bookkeeping, Shape, FlagsAreKept, vars, trackerVars, noteVars
<1>1. ASSUME NEW c \in Calls, Arrive(c) \/ Disconnect(c) \/ HandlerStep(c) \/ WorkerStep(c)
      PROVE  FlagsAreKept'
  <2>1. CASE RequestTermination(c)
    BY <2>1 DEF RequestTermination, Goto, Touch
  <2>2. CASE Register(c) \/ Send(c)
    BY <2>2 DEF Register, Send, Goto, Touch
  <2>3. CASE Follow(c)
    BY <2>3 DEF Follow, WorkerGoto, Touch
  <2>4. CASE Arrive(c) \/ Disconnect(c) \/ Admit(c) \/ Readmit(c) \/ Spawn(c) \/ Undo(c)
            \/ Started(c) \/ Short(c) \/ Answer(c) \/ Unlease(c) \/ Feed(c) \/ Receive(c)
            \/ Operate(c)
    BY <2>4 DEF Arrive, Disconnect, Admit, Readmit, Spawn, Undo, Started, Short, Answer,
       Unlease, Feed, Receive, Operate, WorkerGoto, Goto, Touch
  <2> QED
    BY <1>1, <2>1, <2>2, <2>3, <2>4 DEF HandlerStep, WorkerStep
<1>2. CASE IdleStep
  BY <1>2 DEF IdleStep, WatchActivity, ArmTimer, Expire, IdleGoto
<1>3. CASE ServerStep
  BY <1>3 DEF ServerStep, BeginShutdown, Choose, Drain, CancelStreams, Close, ServerGoto
<1>4. CASE UNCHANGED vars
  BY <1>4
<1> QED
  BY <1>1, <1>2, <1>3, <1>4 DEF Next, Exited

\* A stream that waits has created its Notified before cancel_streams notified,
\* or has seen the flag.
LEMMA StepKeepsCancellation ==
    ASSUME Bookkeeping, [Next]_vars
    PROVE  CancellationIsNeverLost'
<1> USE DEF Bookkeeping, Shape, CancellationIsNeverLost, vars, trackerVars, noteVars
<1>1. ASSUME NEW c \in Calls, Arrive(c) \/ Disconnect(c) \/ HandlerStep(c) \/ WorkerStep(c)
      PROVE  CancellationIsNeverLost'
  <2>1. CASE Register(c)
    BY <2>1 DEF Register, Goto, Touch, FlagsAreKept
  <2>2. CASE Send(c)
    BY <2>2 DEF Send, Goto, Touch, FlagsAreKept
  <2>3. CASE Receive(c) \/ Feed(c)
    BY <2>3 DEF Receive, Feed, Goto, Touch
  <2>4. CASE Follow(c)
    BY <2>4 DEF Follow, WorkerGoto, Touch, WorkersComeLater, FollowPc
  <2>5. CASE Arrive(c) \/ Disconnect(c) \/ Admit(c) \/ Readmit(c) \/ Spawn(c) \/ Undo(c)
            \/ Started(c) \/ Short(c) \/ RequestTermination(c) \/ Answer(c) \/ Unlease(c)
            \/ Operate(c)
    BY <2>5 DEF Arrive, Disconnect, Admit, Readmit, Spawn, Undo, Started, Short,
       RequestTermination, Answer, Unlease, Operate, WorkerGoto, Goto, Touch
  <2> QED
    BY <1>1, <2>1, <2>2, <2>3, <2>4, <2>5 DEF HandlerStep, WorkerStep
<1>2. CASE IdleStep
  BY <1>2 DEF IdleStep, WatchActivity, ArmTimer, Expire, IdleGoto, FlagsAreKept
<1>3. CASE ServerStep
  BY <1>3 DEF ServerStep, BeginShutdown, Choose, Drain, CancelStreams, Close,
     ServerGoto, FlagsAreKept
<1>4. CASE UNCHANGED vars
  BY <1>4
<1> QED
  BY <1>1, <1>2, <1>3, <1>4 DEF Next, Exited

\* Whoever starts to work after the watcher has looked has touched.
LEMMA StepKeepsWatcherSaw ==
    ASSUME Bookkeeping, [Next]_vars
    PROVE  WatcherSaw'
<1> USE DEF Bookkeeping, Shape, WatcherSaw, LeaseEngaged, OperationEngaged, Feeding,
           vars, trackerVars, noteVars
<1>1. ASSUME NEW c \in Calls, Arrive(c) \/ Disconnect(c) \/ HandlerStep(c) \/ WorkerStep(c)
      PROVE  WatcherSaw'
  <2>1. CASE Admit(c)
    BY <2>1 DEF Admit, Goto, Touch
  <2>2. CASE Readmit(c) \/ Spawn(c) \/ Undo(c) \/ Started(c)
    BY <2>2 DEF Readmit, Spawn, Undo, Started, Goto, Touch
  <2>3. CASE Short(c) \/ RequestTermination(c)
    BY <2>3 DEF Short, RequestTermination, Goto, Touch
  <2>4. CASE Answer(c) \/ Unlease(c)
    BY <2>4 DEF Answer, Unlease, Goto, Touch
  <2>5. CASE Feed(c) \/ Register(c)
    BY <2>5 DEF Feed, Register, Goto, Touch
  <2>6. CASE Receive(c) \/ Send(c)
    BY <2>6 DEF Receive, Send, Goto, Touch
  <2>7. CASE Operate(c)
    BY <2>7 DEF Operate, WorkerGoto, Touch
  <2>8. CASE Follow(c)
    BY <2>8 DEF Follow, WorkerGoto, Touch
  <2>9. CASE Arrive(c) \/ Disconnect(c)
    BY <2>9 DEF Arrive, Disconnect, Goto, Touch
  <2> QED
    BY <1>1, <2>1, <2>2, <2>3, <2>4, <2>5, <2>6, <2>7, <2>8, <2>9 DEF HandlerStep,
       WorkerStep
<1>2. CASE IdleStep
  BY <1>2 DEF IdleStep, WatchActivity, ArmTimer, Expire, IdleGoto, OperationsAreCounted,
     LeasesAreHeld
<1>3. CASE ServerStep
  BY <1>3 DEF ServerStep, BeginShutdown, Choose, Drain, CancelStreams, Close,
     ServerGoto, OperationsAreCounted, LeasesAreHeld
<1>4. CASE UNCHANGED vars
  BY <1>4
<1> QED
  BY <1>1, <1>2, <1>3, <1>4 DEF Next, Exited

\* The daemon starts with the books in order.
LEMMA InitBookkeeping == Init => Bookkeeping
<1> SUFFICES ASSUME Init PROVE Bookkeeping
  OBVIOUS
<1>1. Shape /\ WorkersComeLater
  BY DEF Init, Shape, WorkersComeLater, HandlerPc, WorkerPc, FollowPc
<1>2. OperationsAreCounted /\ LeasesAreHeld
  BY DEF Init, OperationsAreCounted, LeasesAreHeld, Feeding
<1>3. FlagsAreKept /\ WatcherSaw /\ CancellationIsNeverLost
  BY DEF Init, FlagsAreKept, WatcherSaw, CancellationIsNeverLost
<1> QED
  BY <1>1, <1>2, <1>3 DEF Bookkeeping

\* The books are in order at every step of the daemon.
THEOREM BookkeepingHolds == Spec => []Bookkeeping
<1>1. Bookkeeping /\ [Next]_vars => Bookkeeping'
  BY StepKeepsShape, StepKeepsWorkersComeLater, StepKeepsOperationsAreCounted,
     StepKeepsLeasesAreHeld, StepKeepsFlagsAreKept, StepKeepsWatcherSaw,
     StepKeepsCancellation DEF Bookkeeping
<1> QED
  BY InitBookkeeping, <1>1, PTL DEF Spec

-----------------------------------------------------------------------------
(* What holds of the daemon whatever its clients do *)

\* cancel_streams: once it has notified, every event stream that waits for an
\* event or for room holds a Notified that is ready, also when its client is
\* gone.
THEOREM CancellationReachesStreams == Spec => []CancellationIsNeverLost
<1>1. Bookkeeping => CancellationIsNeverLost
  BY DEF Bookkeeping
<1> QED
  BY BookkeepingHolds, <1>1, PTL

\* wait_for_idle: it returns only when nobody has an operation, a request or a
\* stream under way, although it reads the two counters and the generation one
\* after the other.
THEOREM ExpiryNeedsIdleness == Spec => ExpiryIsIdle
<1>1. ASSUME Bookkeeping, Next, idle # "expired", idle' = "expired", NEW c \in Calls
      PROVE  ~Engaged(c)
  <2>1. idle = "generationAgain" /\ ~moved
    BY <1>1 DEF Next, Arrive, Disconnect, HandlerStep, Admit, Readmit, Spawn, Undo, Started,
       Short, RequestTermination, Answer, Unlease, Feed, Register, Receive, Send, WorkerStep,
       Operate, Follow, IdleStep, WatchActivity, ArmTimer, Expire, IdleGoto, ServerStep,
       BeginShutdown, Choose, Drain, CancelStreams, Close, Exited, vars
  <2>2. ~LeaseEngaged(c) /\ ~OperationEngaged(c)
    BY <1>1, <2>1 DEF Bookkeeping, WatcherSaw
  <2> QED
    BY <2>2 DEF Engaged, LeaseEngaged, OperationEngaged, Feeding
<1>2. Bookkeeping /\ [Next]_vars
         => [idle # "expired" /\ idle' = "expired" => \A c \in Calls : ~Engaged(c)]_vars
  BY <1>1
<1> QED
  BY BookkeepingHolds, <1>2, PTL DEF Spec, ExpiryIsIdle

-----------------------------------------------------------------------------
(* What holds while no client goes away before its answer is complete *)

\* A handler leaves the side of its operation only when the operation has
\* ended or the streams are cancelled, which is after the drain.
LEMMA StepKeepsAttended ==
    ASSUME Bookkeeping, OperationsAreAttended, ~Disconnects, [Next]_vars
    PROVE  OperationsAreAttended'
<1> USE DEF Bookkeeping, Shape, OperationsAreAttended, DrainedIsQuiet, Drained, Working, Attending,
            Feeding, vars, trackerVars, noteVars
<1>1. ASSUME NEW c \in Calls, Arrive(c) \/ Disconnect(c) \/ HandlerStep(c) \/ WorkerStep(c),
             server \notin Over
      PROVE  OperationsAreAttended'
  <2>1. CASE Arrive(c) \/ Disconnect(c)
    BY <1>1, <2>1 DEF Arrive, Disconnect, Goto, Over, WorkersComeLater, BeforeWorker
  <2>2. CASE Admit(c) \/ Readmit(c) \/ Undo(c)
    BY <2>2 DEF Admit, Readmit, Undo, Goto, Touch, WorkersComeLater, BeforeWorker, FlagsAreKept
  <2>3. CASE Spawn(c)
    BY <2>3 DEF Spawn, Goto, FlagsAreKept
  <2>4. CASE Started(c)
    BY <2>4 DEF Started, Goto
  <2>5. CASE Short(c) \/ RequestTermination(c) \/ Answer(c) \/ Unlease(c)
    BY <2>5 DEF Short, RequestTermination, Answer, Unlease, Goto, Touch, WorkersComeLater,
       BeforeWorker
  <2>6. CASE Feed(c) \/ Register(c)
    BY <2>6 DEF Feed, Register, Goto, Touch, FlagsAreKept
  <2>7. CASE Receive(c) \/ Send(c)
    BY <2>7 DEF Receive, Send, Goto, FlagsAreKept
  <2>8. CASE Operate(c) \/ Follow(c)
    BY <2>8 DEF Operate, Follow, WorkerGoto, Touch
  <2> QED
    BY <1>1, <2>1, <2>2, <2>3, <2>4, <2>5, <2>6, <2>7, <2>8 DEF HandlerStep, WorkerStep
<1>2. CASE IdleStep
  BY <1>2 DEF IdleStep, WatchActivity, ArmTimer, Expire, IdleGoto
<1>3. CASE ServerStep
  <2>1. CASE BeginShutdown
    BY <2>1 DEF BeginShutdown, ServerGoto, NoConnection, Open
  <2>2. CASE Choose
    <3>1. ASSUME NoConnection \/ server = "finished", NEW c \in Calls
          PROVE  ~Working(c)
      BY <3>1 DEF NoConnection, Open
    <3> QED
      BY <2>2, <3>1 DEF Choose, ServerGoto
  <2>3. CASE Drain
    BY <2>3 DEF Drain, ServerGoto, OperationsAreCounted
  <2>4. CASE CancelStreams \/ Close
    BY <2>4 DEF CancelStreams, Close, ServerGoto
  <2> QED
    BY <1>3, <2>1, <2>2, <2>3, <2>4 DEF ServerStep
<1>4. CASE UNCHANGED vars
  BY <1>4
<1> QED
  BY <1>1, <1>2, <1>3, <1>4 DEF Next, Exited

\* Both halves of the invariant together.
LEMMA AttendedHolds ==
    ASSUME ~Disconnects
    PROVE  Spec => [](Bookkeeping /\ OperationsAreAttended)
<1>1. Init => OperationsAreAttended
  BY DEF Init, OperationsAreAttended, DrainedIsQuiet, Drained
<1>2. Bookkeeping /\ OperationsAreAttended /\ [Next]_vars => OperationsAreAttended'
  BY StepKeepsAttended
<1> QED
  BY BookkeepingHolds, <1>1, <1>2, PTL DEF Spec

\* serve_bound: past wait_for_operations no durable operation is admitted or
\* running.
THEOREM DrainIsComplete ==
    ASSUME ~Disconnects
    PROVE  Spec => []DrainedIsQuiet
<1>1. OperationsAreAttended => DrainedIsQuiet
  BY DEF OperationsAreAttended
<1> QED
  BY AttendedHolds, <1>1, PTL

\* ActivityTracker implements the gate: its counter, flag and notifications,
\* read one at a time, admit nobody once admission is closed and let
\* serve_bound past only when everybody has left.
THEOREM TrackerImplementsGate ==
    ASSUME ~Disconnects
    PROVE  Spec => GateIsKept
<1> DEFINE Inside == {c \in Calls : Working(c)}
<1> USE DEF vars, trackerVars, noteVars, AdmissionGate!gateVars
<1>1. Init => AdmissionGate!GateInit
  BY DEF Init, AdmissionGate!GateInit, Working, Drained
<1>2. ASSUME Bookkeeping, OperationsAreAttended, OperationsAreAttended', [Next]_vars
      PROVE  [AdmissionGate!GateNext]_(AdmissionGate!gateVars)
  <2> USE <1>2 DEF Bookkeeping, Shape, Working, Drained
  <2>1. ASSUME NEW c \in Calls, Arrive(c) \/ Disconnect(c) \/ HandlerStep(c) \/ WorkerStep(c)
        PROVE  [AdmissionGate!GateNext]_(AdmissionGate!gateVars)
    <3>1. CASE Arrive(c) \/ Disconnect(c)
      <4>1. Inside' = Inside /\ UNCHANGED <<accepting, server>>
        BY <3>1 DEF Arrive, Disconnect, Goto
      <4> QED
        BY <4>1
    <3>2. CASE Admit(c) \/ Undo(c) \/ Started(c)
      <4>1. Inside' = Inside /\ UNCHANGED <<accepting, server>>
        BY <3>2 DEF Admit, Undo, Started, Goto, Touch
      <4> QED
        BY <4>1
    <3>3. CASE Readmit(c)
      <4>1. CASE accepting
        <5>1. Inside' = Inside \cup {c} /\ UNCHANGED <<accepting, server>>
          BY <3>3, <4>1 DEF Readmit, Goto
        <5> QED
          BY <4>1, <5>1 DEF AdmissionGate!GateNext, AdmissionGate!Enter
      <4>2. CASE ~accepting
        <5>1. Inside' = Inside /\ UNCHANGED <<accepting, server>>
          BY <3>3, <4>2 DEF Readmit, Goto
        <5> QED
          BY <5>1
      <4> QED
        BY <4>1, <4>2
    <3>4. CASE Spawn(c)
      <4>1. UNCHANGED <<accepting, server>> /\ (Inside' = Inside \/ Inside' = Inside \ {c})
        BY <3>4 DEF Spawn, Goto, WorkersComeLater, BeforeWorker
      <4> QED
        BY <4>1 DEF AdmissionGate!GateNext, AdmissionGate!Leave
    <3>5. CASE RequestTermination(c)
      <4>1. Inside' = Inside /\ UNCHANGED server /\ (accepting' = FALSE \/ UNCHANGED accepting)
        BY <3>5 DEF RequestTermination, Goto
      <4> QED
        BY <4>1 DEF AdmissionGate!GateNext, AdmissionGate!Shut
    <3>6. CASE Short(c) \/ Answer(c) \/ Unlease(c)
      <4>1. Inside' = Inside /\ UNCHANGED <<accepting, server>>
        BY <3>6 DEF Short, Answer, Unlease, Goto, Touch, WorkersComeLater, BeforeWorker
      <4> QED
        BY <4>1
    <3>7. CASE Feed(c) \/ Register(c) \/ Receive(c) \/ Send(c)
      <4>1. Inside' = Inside /\ UNCHANGED <<accepting, server>>
        BY <3>7 DEF Feed, Register, Receive, Send, Goto, Touch
      <4> QED
        BY <4>1
    <3>8. CASE Operate(c)
      <4>1. UNCHANGED <<accepting, server>> /\ (Inside' = Inside \/ Inside' = Inside \ {c})
        BY <3>8 DEF Operate, WorkerGoto, Touch, WorkersComeLater, BeforeWorker
      <4> QED
        BY <4>1 DEF AdmissionGate!GateNext, AdmissionGate!Leave
    <3>9. CASE Follow(c)
      <4>1. Inside' = Inside /\ UNCHANGED <<accepting, server>>
        BY <3>9 DEF Follow, WorkerGoto, Touch
      <4> QED
        BY <4>1
    <3> QED
      BY <2>1, <3>1, <3>2, <3>3, <3>4, <3>5, <3>6, <3>7, <3>8, <3>9 DEF HandlerStep, WorkerStep
  <2>2. CASE IdleStep
    BY <2>2 DEF IdleStep, WatchActivity, ArmTimer, Expire, IdleGoto
  <2>3. CASE ServerStep
    <3>1. CASE BeginShutdown
      <4>1. UNCHANGED <<handler, worker>> /\ accepting' = FALSE /\ Drained' = Drained
        BY <3>1 DEF BeginShutdown, ServerGoto
      <4> QED
        BY <4>1 DEF AdmissionGate!GateNext, AdmissionGate!Shut
    <3>2. CASE Choose \/ Drain \/ CancelStreams \/ Close
      <4>1. UNCHANGED <<handler, worker, accepting>>
        BY <3>2 DEF Choose, Drain, CancelStreams, Close
      <4>2. Drained => Drained'
        BY <3>2 DEF Choose, Drain, CancelStreams, Close, ServerGoto
      <4>3. server # "serving"
        BY <3>2 DEF Choose, Drain, CancelStreams, Close, ServerGoto
      <4>4. Drained' => Inside = {} /\ ~accepting
        BY <4>1, <4>3 DEF OperationsAreAttended, DrainedIsQuiet, FlagsAreKept
      <4>5. CASE Drained' /\ ~Drained
        BY <4>1, <4>4, <4>5 DEF AdmissionGate!GateNext, AdmissionGate!Finish
      <4>6. CASE Drained \/ ~Drained'
        BY <4>1, <4>2, <4>6
      <4> QED
        BY <4>5, <4>6
    <3> QED
      BY <2>3, <3>1, <3>2 DEF ServerStep
  <2>4. CASE UNCHANGED vars
    BY <2>4
  <2> QED
    BY <2>1, <2>2, <2>3, <2>4 DEF Next, Exited
<1> QED
  BY AttendedHolds, <1>1, <1>2, PTL DEF Spec, GateIsKept, AdmissionGate!GateSpec

=============================================================================
