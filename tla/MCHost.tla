------------------------------- MODULE MCHost -------------------------------
(***************************************************************************)
(* What Gascan keeps and does on the user's machine besides the daemon     *)
(* itself, for the model checker: the managed SSH files, the user's own    *)
(* SSH configuration, doctor, `gascan configure`, the terminal, the        *)
(* programs it runs and the engine's artifacts.  The parts do not          *)
(* interact, so a behaviour is one of `part`, and the other parts stay as  *)
(* they were.  Some parts are there twice, with bounds for safety and with *)
(* bounds for liveness.                                                    *)
(***************************************************************************)
EXTENDS Naturals

CONSTANTS Parts

VARIABLES
    part,       \* the part a behaviour is of
    \* Ssh
    sshRun, port, key, store, sshPending, sshConfig, gens, lock, phase, sshPc, w, outcome,
    sshOps, sshFaults, sshCrashes, reading, sshCalm,
    \* Identity
    private, public, stage, identityPc, mine, identitySeen, advised, calls, identityFaults,
    identityCrashes, fresh,
    \* UserSshConfig
    target, userStaging, recovered, contents, made, receipt, op, userPc, prev,
    \* SshDoctor
    rec, identity, sshDoctorConfig, gen, stale, odd, guard, sshDoctorPc, dpc, sshDoctorSeen,
    verdict, sshDoctorOps, sshDoctorFaults, asked, sshDoctorCalm,
    \* Doctor
    host, doctorPc, doctorRead, report, printed, exit, admitted, changes, steady,
    \* Configure
    home, login, account, networked, configureRun, configureFaults,
    \* Terminal
    terminalPc, kind, tty, armed, triggered, hooked, taken, heard, terminalPending, channel,
    guest, terminalResult, missed, stages, signals, typed,
    \* Subprocess
    runner, programPc, child, ended, writes, total, input, pipe, open, kept, exceeded,
    programRead, programResult,
    \* Artifacts
    artifactsPc, good, artifactsStaging, kernels, layouts, live, last, artifactsFaults

sshVars == <<sshRun, port, key, store, sshPending, sshConfig, gens, lock, phase, sshPc, w,
             outcome, sshOps, sshFaults, sshCrashes, reading, sshCalm>>
identityVars == <<private, public, stage, identityPc, mine, identitySeen, advised, calls,
                  identityFaults, identityCrashes, fresh>>
userVars == <<target, userStaging, recovered, contents, made, receipt, op, userPc, prev>>
sshDoctorVars == <<rec, identity, sshDoctorConfig, gen, stale, odd, guard, sshDoctorPc, dpc,
                   sshDoctorSeen, verdict, sshDoctorOps, sshDoctorFaults, asked,
                   sshDoctorCalm>>
appleVars == <<host, doctorPc, doctorRead, report, printed, exit, admitted, changes,
               steady>>
configureVars == <<home, login, account, networked, configureRun, configureFaults>>
terminalVars == <<terminalPc, kind, tty, armed, triggered, hooked, taken, heard,
                  terminalPending, channel, guest, terminalResult, missed, stages, signals,
                  typed>>
callsVars == <<runner, programPc, child, ended, writes, total, input, pipe, open, kept,
               exceeded, programRead, programResult>>
artifactsVars == <<artifactsPc, good, artifactsStaging, kernels, layouts, live, last,
                   artifactsFaults>>
vars == <<part, sshVars, identityVars, userVars, sshDoctorVars, appleVars, configureVars,
          terminalVars, callsVars, artifactsVars>>

\* A host on which everything is in order.
Healthy ==
    [machine |-> TRUE, client |-> TRUE, workspace |-> TRUE, ssh |-> TRUE, disk |-> TRUE,
     cli |-> "certified", service |-> "same", artifacts |-> TRUE, daemonbin |-> TRUE,
     shellbin |-> TRUE, daemon |-> "up"]

Ssh == INSTANCE Ssh WITH
    Sandboxes <- {"a", "b"}, Ports <- {1, 2}, Keys <- {"k1", "k2"},
    Operations <- {"up", "start", "stop", "destroy", "apply"},
    Disturbances <- {"die", "rekey"}, MaxAttempts <- 2, MaxOps <- 2, MaxFaults <- 1,
    MaxCrashes <- 1,
    run <- sshRun, pending <- sshPending, config <- sshConfig, pc <- sshPc, ops <- sshOps,
    faults <- sshFaults, crashes <- sshCrashes, calm <- sshCalm

SshLive == INSTANCE Ssh WITH
    Sandboxes <- {"a", "b"}, Ports <- {1, 2}, Keys <- {"k1"},
    Operations <- {"up", "stop", "apply"}, Disturbances <- {"read"}, MaxAttempts <- 2,
    MaxOps <- 2, MaxFaults <- 1, MaxCrashes <- 0,
    run <- sshRun, pending <- sshPending, config <- sshConfig, pc <- sshPc, ops <- sshOps,
    faults <- sshFaults, crashes <- sshCrashes, calm <- sshCalm

Identity == INSTANCE Identity WITH
    Callers <- {"c1", "c2", "c3"}, MaxCalls <- 4, MaxFaults <- 2, MaxCrashes <- 1,
    pc <- identityPc, seen <- identitySeen, faults <- identityFaults,
    crashes <- identityCrashes

User == INSTANCE UserSshConfig WITH
    Processes <- {"p", "q"}, Edits <- {"e"}, Existing <- BOOLEAN, Kills <- TRUE,
    staging <- userStaging, pc <- userPc

SshDoctor == INSTANCE SshDoctor WITH
    Sandboxes <- {"a", "b"}, MaxOps <- 3, MaxFaults <- 1, MaxAsked <- 1,
    config <- sshDoctorConfig, pc <- sshDoctorPc, seen <- sshDoctorSeen,
    ops <- sshDoctorOps, faults <- sshDoctorFaults, calm <- sshDoctorCalm

Apple == INSTANCE Doctor WITH
    Backend <- "apple", MaxWrong <- 3, MaxChanges <- 1,
    pc <- doctorPc, read <- doctorRead

Arca == INSTANCE Doctor WITH
    Backend <- "arca", MaxWrong <- 3, MaxChanges <- 1,
    pc <- doctorPc, read <- doctorRead

Configure == INSTANCE Configure WITH
    Commands <- {"c1", "c2"}, Kinds <- {"offer", "github"}, People <- {"ada"}, Faults <- 1,
    HelperHalf <- FALSE,
    run <- configureRun, faults <- configureFaults

Terminal == INSTANCE Terminal WITH
    Stages <- 3, Signals <- 3, Frames <- 2, External <- TRUE, Failures <- TRUE,
    pc <- terminalPc, pending <- terminalPending, result <- terminalResult

Keyboard == INSTANCE Terminal WITH
    Stages <- 3, Signals <- 3, Frames <- 2, External <- FALSE, Failures <- TRUE,
    pc <- terminalPc, pending <- terminalPending, result <- terminalResult

Signal == INSTANCE Terminal WITH
    Stages <- 2, Signals <- 2, Frames <- 2, External <- TRUE, Failures <- TRUE,
    pc <- terminalPc, pending <- terminalPending, result <- terminalResult

Calls == INSTANCE Subprocess WITH
    Runners <- {"process", "bounded", "sensitive", "keygen"}, Capacity <- 2, MaxKept <- 3,
    MaxWritten <- 5, Sent <- 2,
    pc <- programPc, read <- programRead, result <- programResult

Polls == INSTANCE Subprocess WITH
    Runners <- {"ps", "lsof", "start", "mise"}, Capacity <- 3, MaxKept <- 1,
    MaxWritten <- 4, Sent <- 0,
    pc <- programPc, read <- programRead, result <- programResult

Artifacts == INSTANCE Artifacts WITH
    Attempts <- {"a1", "a2", "a3"}, Overlap <- FALSE, Installed <- TRUE, MaxFaults <- 3,
    pc <- artifactsPc, staging <- artifactsStaging, faults <- artifactsFaults

-----------------------------------------------------------------------------

\* The parts that are not looked at start, and stay, in one initial state.
Init ==
    /\ part \in Parts
    /\ IF part \in {"ssh", "sshLive"} THEN TRUE ELSE key = [s \in {"a", "b"} |-> "k1"]
    /\ IF part = "sshLive" THEN SshLive!Init ELSE Ssh!Init
    /\ Identity!Init
    /\ IF part = "user" THEN TRUE
       ELSE /\ target = User!None /\ contents = [o \in User!Objects |-> User!Empty]
            /\ op = [p \in {"p", "q"} |-> "install"]
    /\ User!Init
    /\ SshDoctor!Init
    /\ IF part \in {"apple", "arca"} THEN TRUE ELSE host = Healthy
    /\ IF part = "arca" THEN Arca!Init ELSE Apple!Init
    /\ IF part = "configure" THEN TRUE ELSE networked = TRUE
    /\ Configure!Init
    /\ IF part = "keyboard" THEN Keyboard!Init ELSE IF part = "signal" THEN Signal!Init ELSE Terminal!Init
    /\ IF part \in {"calls", "polls"} THEN TRUE
       ELSE runner = "process" /\ total = [s \in Calls!Streams |-> 0]
    /\ IF part = "polls" THEN Polls!Init ELSE Calls!Init
    /\ Artifacts!Init

\* A step of the part p leaves the others alone.
Only(p) ==
    /\ part = p /\ UNCHANGED part
    /\ IF p \in {"ssh", "sshLive"} THEN TRUE ELSE UNCHANGED sshVars
    /\ IF p = "identity" THEN TRUE ELSE UNCHANGED identityVars
    /\ IF p = "user" THEN TRUE ELSE UNCHANGED userVars
    /\ IF p = "sshDoctor" THEN TRUE ELSE UNCHANGED sshDoctorVars
    /\ IF p \in {"apple", "arca"} THEN TRUE ELSE UNCHANGED appleVars
    /\ IF p = "configure" THEN TRUE ELSE UNCHANGED configureVars
    /\ IF p \in {"terminal", "keyboard", "signal"} THEN TRUE ELSE UNCHANGED terminalVars
    /\ IF p \in {"calls", "polls"} THEN TRUE ELSE UNCHANGED callsVars
    /\ IF p = "artifacts" THEN TRUE ELSE UNCHANGED artifactsVars

Next ==
    \/ Only("ssh") /\ Ssh!Next
    \/ Only("sshLive") /\ SshLive!Next
    \/ Only("identity") /\ Identity!Next
    \/ Only("user") /\ User!Next
    \/ Only("sshDoctor") /\ SshDoctor!Next
    \/ Only("apple") /\ Apple!Next
    \/ Only("arca") /\ Arca!Next
    \/ Only("configure") /\ Configure!Next
    \/ Only("terminal") /\ Terminal!Next
    \/ Only("keyboard") /\ Keyboard!Next
    \/ Only("signal") /\ Signal!Next
    \/ Only("calls") /\ Calls!Next
    \/ Only("polls") /\ Polls!Next
    \/ Only("artifacts") /\ Artifacts!Next

Spec == Init /\ [][Next]_vars

\* What each part's module says must happen, for the part that is looked at.
LiveSpec ==
    /\ Spec
    /\ \A p \in SshLive!Procs : WF_sshVars(part = "sshLive" /\ SshLive!Must(p))
    /\ \A what \in Signal!Promised : WF_terminalVars(part = "signal" /\ Signal!Must(what))
    /\ \A who \in Calls!Promised : WF_callsVars(part \in {"calls", "polls"} /\ Calls!Must(who))

-----------------------------------------------------------------------------
\* commit_openssh_files: at every step, a crash included, the managed config
\* can be loaded by OpenSSH and by the next daemon, and an alias in it is pinned
\* to the host key of its sandbox.  When the last operation on a sandbox
\* succeeded, its alias is published exactly if it runs, whatever others did
\* meanwhile, and a commit changes the alias of one sandbox only.
PublicationIsSound ==
    /\ [](part = "ssh" =>
             /\ Ssh!TypeOK /\ Ssh!ConfigIsLoadable /\ Ssh!PublishedIsPinned
             /\ Ssh!SuccessIsPublished)
    /\ Ssh!OthersAreKept

\* generate: racing generators never mix their key pairs, an identity that a
\* caller was given stays, and an incomplete one has been interrupted.
IdentityIsOne == part = "identity" => Identity!IdentityIsOne

\* replace_file: nothing the user wrote is lost, whoever else replaces
\* ~/.ssh/config between the read and the exchange, there is never more than one
\* managed block, and a process that reports success has its answer in the file.
UserFileIsKept ==
    part = "user" =>
        /\ User!TypeOK /\ User!NothingIsLost /\ User!AtMostOneBlock /\ User!SuccessIsInTheFile

\* doctor: an SSH config reported ready is ready, although operations went on
\* meanwhile, an unsafe file is neither passed nor put down to an operation under
\* way, and with nothing under way and nothing failed SSH is in order.  Of the
\* runtime, on both backends, an operation refused for its state is explained, a
\* silent daemon is a failure, success is reported only for two halves read as the
\* same supported release, and the operation named as the remedy is let through.
ReportsAreTrue ==
    /\ part = "sshDoctor" =>
          /\ SshDoctor!TypeOK /\ SshDoctor!ReadyIsWhole /\ SshDoctor!UnsafeIsNeverExcused
          /\ SshDoctor!RestPasses
    /\ part = "apple" =>
          /\ Apple!TypeOK /\ Apple!RefusedIsReported /\ Apple!SilenceIsNotHealth
          /\ Apple!SuccessIsVouchedFor
    /\ part = "arca" => Arca!TypeOK /\ Arca!RemedyIsOpen

\* configure_forge: a section reported as set up is set up, although answers are
\* lost and other commands run; the completed receipt is written only by a whole
\* guide; and whatever earlier commands left, a command that runs alone and meets
\* no fault of its own does not fail.
OnboardingIsReal ==
    part = "configure" =>
        /\ Configure!TypeOK /\ Configure!SuccessIsReal /\ Configure!ReceiptIsEarned
        /\ Configure!RetryAloneSucceeds

\* However the process ends by itself, or by a signal from the keyboard, the
\* terminal is as it was found, and between prompts and sessions nothing is left
\* over for the next one.
TerminalIsRestored ==
    /\ part = "terminal" =>
          Terminal!TypeOK /\ Terminal!ExitRestores /\ Terminal!NothingCarriesOver
    /\ part = "keyboard" => Keyboard!TypeOK /\ Keyboard!KillRestores

\* capture_bounded and its like: a call that succeeds has all that the program
\* wrote, no program and no reader outlives the call that started it, a program
\* killed for its deadline is never reported as absent, and a deadline never
\* passes for a pipe that nobody reads.
CallsAreFaithful ==
    /\ [](part = "calls" =>
             Calls!TypeOK /\ Calls!OutputIsWhole /\ Calls!NothingOutlivesTheCall)
    /\ [](part = "polls" => Polls!TypeOK /\ Polls!OutputIsWhole /\ Polls!AbsenceIsAnswered)
    /\ Calls!DeadlineIsTheProgramsFault

\* fetch: no live artifact is ever half written, of unknown bytes or of another
\* pin than its companion, a fetch that ended well has installed what doctor
\* verifies, and with fewer faults than attempts one ends well.
ArtifactsAreWhole == part = "artifacts" => Artifacts!ArtifactsAreWhole

\* Every SSH operation ends, for nobody waits for ever for the publication lock;
\* a signal that a session hears ends it, however full its channel is; and every
\* call of a program returns, although writer and reader wait for each other.
EverythingEnds ==
    /\ SshLive!EveryOperationEnds
    /\ Signal!SignalEndsSession
    /\ part \in {"calls", "polls"} => Calls!CallsReturn

=============================================================================
