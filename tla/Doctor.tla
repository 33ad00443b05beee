-------------------------------- MODULE Doctor --------------------------------
(***************************************************************************)
(* The assembly of a Doctor report: the daemon's collector for its backend *)
(* (gascand/src/main.rs) under the bound of DoctorState, the SSH facts     *)
(* refreshed over it, the handler of the Doctor request, and `gascan       *)
(* doctor`, which lays the facts of the host it runs on over the daemon's  *)
(* answer or over the failure to get one.  Beside it runs an operation,    *)
(* which the same report admits or refuses (require_runtime_ready).  The   *)
(* six runtime capabilities other than offline isolation share one check   *)
(* here, as do the two storage checks.                                     *)
(***************************************************************************)
EXTENDS Naturals, FiniteSets

CONSTANTS
    Backend,     \* "apple" or "arca"
    MaxWrong,    \* bound on what is wrong with the host at first
    MaxChanges   \* bound on what changes on the host while reports are made

Runtime == {"cli", "version", "service", "kernel", "schema", "storage", "capabilities", "offline"}
Checks == Runtime \cup {"architecture", "macos", "workspace", "ssh.client", "ssh.identity",
                        "ssh.config", "ssh.native_publish"}
Available == {"pass", "warning"}
Operational == {"workspace", "ssh.identity", "ssh.config"}

VARIABLES
    host,      \* what holds of the host: the facts a process can measure
    pc, read,  \* the two requests ("doctor" and "up") and what each has read
    report,    \* the daemon's report to each request
    printed,   \* what `gascan doctor` prints
    exit,      \* its exit status
    admitted,  \* whether the operation was let through
    changes, steady

vars == <<host, pc, read, report, printed, exit, admitted, changes, steady>>

Requests == {"doctor", "up"}
NoFacts == [c \in Checks |-> "unread"]
Unread == [cli |-> "unread", service |-> "unread", storage |-> FALSE]

Status(ok) == IF ok THEN "pass" ELSE "fail"

(* DoctorFacts::unavailable and DoctorFacts::runtime_unreachable.          *)
Unavailable == [c \in Checks |-> "unknown"]
Unreachable == [c \in Checks |-> "fail"]

(* What the runtimes answer: Apple's CLI and API server, or the engine.    *)
CliAnswers == IF Backend = "apple"
              THEN {"missing", "garbled", "unsupported", "certified", "compatible"}
              ELSE {"certified", "compatible"}
ServiceAnswers == IF Backend = "apple" THEN {"same", "other", "down", "garbled"}
                  ELSE {"same", "other", "down"}

Wrong(h) ==
    {f \in DOMAIN h : CASE f = "cli" -> h.cli \notin {"certified", "compatible"}
                        [] f = "service" -> h.service # "same"
                        [] f = "daemon" -> h.daemon # "up"
                        [] OTHER -> ~h[f]}

Init ==
    /\ host \in [machine : BOOLEAN, client : BOOLEAN, workspace : BOOLEAN, ssh : BOOLEAN,
                 disk : BOOLEAN, cli : CliAnswers, service : ServiceAnswers,
                 artifacts : BOOLEAN, daemonbin : BOOLEAN, shellbin : BOOLEAN,
                 daemon : {"up", "hung", "dead", "held"}]
    /\ Backend = "apple" => host.artifacts /\ host.daemonbin /\ host.shellbin
    /\ Backend = "arca" => host.disk
    /\ Cardinality(Wrong(host)) <= MaxWrong
    /\ pc = [r \in Requests |-> "idle"] /\ read = [r \in Requests |-> Unread]
    /\ report = [r \in Requests |-> NoFacts] /\ printed = NoFacts
    /\ exit = "none" /\ admitted = "none" /\ changes = 0 /\ steady = TRUE

Go(r, label) == pc' = [pc EXCEPT ![r] = label]

(* Something changes while requests are served: the runtime stops or is    *)
(* upgraded, the disk fills, an executable is moved, a file is broken.     *)
Change ==
    /\ changes < MaxChanges /\ changes' = changes + 1
    /\ \E f \in {"cli", "service", "disk", "ssh", "daemonbin", "artifacts"} :
         /\ f \in {"daemonbin", "artifacts"} => Backend = "arca"
         /\ f = "disk" => Backend = "apple"
         /\ \E v \in CASE f = "cli" -> CliAnswers [] f = "service" -> ServiceAnswers [] OTHER -> BOOLEAN :
              v # host[f] /\ host' = [host EXCEPT ![f] = v]
    /\ steady' = FALSE
    /\ UNCHANGED <<pc, read, report, printed, exit, admitted>>

(* `gascan doctor` connects; a daemon that came up is asked.               *)
Connect(r) ==
    /\ pc[r] = "idle"
    /\ CASE host.daemon \in {"up", "hung"} -> Go(r, "probe") /\ UNCHANGED exit
         [] host.daemon = "dead" -> Go(r, IF r = "doctor" THEN "unreachable" ELSE "done") /\ UNCHANGED exit
         [] OTHER -> Go(r, "done") /\ exit' = IF r = "doctor" THEN "raised" ELSE exit
    /\ UNCHANGED <<host, read, report, printed, admitted, changes, steady>>

(* The collector asks one process after the other.                         *)
Probe(r) ==
    /\ pc[r] = "probe" /\ host.daemon = "up"
    /\ read' = [read EXCEPT ![r].cli = host.cli] /\ Go(r, "status")
    /\ UNCHANGED <<host, report, printed, exit, admitted, changes, steady>>
ProbeStatus(r) ==
    /\ pc[r] = "status"
    /\ read' = [read EXCEPT ![r].service = host.service, ![r].storage = host.disk]
    /\ Go(r, "collect")
    /\ UNCHANGED <<host, report, printed, exit, admitted, changes, steady>>

Known(cli) == cli \in {"certified", "compatible"}
VersionStatus(cli) == CASE cli = "certified" -> "pass" [] cli = "compatible" -> "warning" [] OTHER -> "fail"

(* apply_cli_error, apply_cli_identity_facts, apply_certified_facts,       *)
(* apply_compatible_facts and apply_mismatched_facts.                      *)
AppleFacts(v) ==
    LET coherent == Known(v.cli) /\ v.service = "same" IN
    [Unavailable EXCEPT
       !["cli"] = Status(v.cli # "missing"),
       !["version"] = IF v.cli \in {"missing", "garbled"} THEN "unknown" ELSE VersionStatus(v.cli),
       !["service"] = IF Known(v.cli) THEN Status(v.service = "same") ELSE "unknown",
       !["schema"] = CASE v.cli = "garbled" -> "fail"
                       [] Known(v.cli) /\ v.service = "down" -> "unknown"
                       [] Known(v.cli) /\ v.service # "down" -> Status(v.service = "same")
                       [] OTHER -> "unknown",
       !["kernel"] = IF coherent /\ host.machine THEN "pass" ELSE "unknown",
       !["capabilities"] = IF coherent THEN "pass" ELSE "unknown",
       !["offline"] = IF coherent THEN VersionStatus(v.cli) ELSE "unknown",
       !["storage"] = IF v.service \in {"same", "other"} THEN Status(v.storage) ELSE "unknown"]

(* arca_doctor_report: one Capabilities answer; the engine's revision is   *)
(* certified or not, and it reports its capabilities or lacks one.         *)
ArcaFacts(v) ==
    LET answered == v.service # "down" IN
    [Unavailable EXCEPT
       !["cli"] = Status(host.daemonbin),
       !["kernel"] = Status(host.artifacts),
       !["storage"] = "warning",
       !["service"] = Status(answered),
       !["schema"] = IF answered THEN "pass" ELSE "unknown",
       !["version"] = IF answered THEN VersionStatus(v.cli) ELSE "unknown",
       !["capabilities"] = IF answered THEN Status(v.service = "same") ELSE "unknown",
       !["offline"] = IF answered THEN VersionStatus(v.cli) ELSE "unknown"]

(* HostFacts::apply_account_scoped.                                        *)
AccountScoped(facts) ==
    [facts EXCEPT !["architecture"] = Status(host.machine), !["macos"] = Status(host.machine),
                  !["kernel"] = IF Backend = "arca" THEN Status(host.artifacts) ELSE @]
CallerScoped(facts) ==
    [facts EXCEPT !["workspace"] = Status(host.workspace), !["ssh.client"] = Status(host.client)]
ProcessScoped(facts) ==
    [facts EXCEPT !["cli"] = IF Backend = "arca" THEN Status(host.shellbin) ELSE @]

(* DoctorState::report: the collector's facts, or, when it exceeds its     *)
(* bound, nothing known.                                                   *)
Collect(r) ==
    /\ pc[r] = "collect"
    /\ report' = [report EXCEPT ![r] =
                    AccountScoped(IF Backend = "apple" THEN AppleFacts(read[r]) ELSE ArcaFacts(read[r]))]
    /\ Go(r, "ssh")
    /\ UNCHANGED <<host, read, printed, exit, admitted, changes, steady>>

CollectTimesOut(r) ==
    /\ pc[r] \in {"probe", "status", "collect"} /\ host.daemon = "hung"
    /\ report' = [report EXCEPT ![r] = Unavailable] /\ Go(r, "ssh")
    /\ UNCHANGED <<host, read, printed, exit, admitted, changes, steady>>

(* doctor_report: the SSH facts are always read afresh.                    *)
RefreshSsh(r) ==
    /\ pc[r] = "ssh"
    /\ report' = [report EXCEPT ![r]["ssh.client"] = Status(host.client),
                                ![r]["ssh.identity"] = Status(host.ssh),
                                ![r]["ssh.config"] = Status(host.ssh),
                                ![r]["ssh.native_publish"] = Status(report[r]["capabilities"] \in Available)]
    /\ Go(r, "reported")
    /\ UNCHANGED <<host, read, printed, exit, admitted, changes, steady>>

(* runtime_readiness_failure: operational diagnostics refuse nothing.      *)
Readiness(facts) == \A c \in Checks \ Operational : facts[c] \in Available

(* require_runtime_ready, before an operation begins.                      *)
Admit ==
    /\ pc["up"] = "reported"
    /\ admitted' = IF Readiness(report["up"]) THEN "yes" ELSE "no"
    /\ Go("up", "done")
    /\ UNCHANGED <<host, read, report, printed, exit, changes, steady>>

Finish(facts) ==
    /\ printed' = facts
    /\ exit' = IF \A c \in Checks : facts[c] \in Available THEN "zero" ELSE "runtime"
    /\ Go("doctor", "done")
    /\ UNCHANGED <<host, read, admitted, changes, steady>>

(* The handler adds the workspace fact; execute_doctor rebuilds the facts  *)
(* from the answer and lays the host's own over them.                      *)
PrintAnswer ==
    /\ pc["doctor"] = "reported"
    /\ report' = [report EXCEPT !["doctor"]["workspace"] = Status(host.workspace)]
    /\ Finish(CallerScoped(AccountScoped(report'["doctor"])))

(* No daemon came up: its startup diagnostic is the detail of every fact   *)
(* the host cannot measure itself.                                         *)
PrintUnreachable ==
    /\ pc["doctor"] = "unreachable"
    /\ UNCHANGED report
    /\ Finish(CallerScoped(AccountScoped(ProcessScoped(Unreachable))))

-----------------------------------------------------------------------------
Serve(r) ==
    \/ Connect(r) \/ Probe(r) \/ ProbeStatus(r) \/ Collect(r) \/ CollectTimesOut(r) \/ RefreshSsh(r)
Next ==
    \/ \E r \in Requests : Serve(r)
    \/ Admit \/ PrintAnswer \/ PrintUnreachable \/ Change
    \/ (\A r \in Requests : pc[r] = "done") /\ changes = MaxChanges /\ UNCHANGED vars

Spec == Init /\ [][Next]_vars

-----------------------------------------------------------------------------
Statuses == {"pass", "warning", "fail", "unknown", "unread"}
Done(r) == pc[r] = "done"

TypeOK ==
    /\ report \in [Requests -> [Checks -> Statuses]] /\ printed \in [Checks -> Statuses]
    /\ exit \in {"none", "zero", "runtime", "raised"} /\ admitted \in {"none", "yes", "no"}
    /\ exit \in {"zero", "runtime"} => \A c \in Checks : printed[c] # "unread"

(* An operation refused for the state of the runtime is explained: asked   *)
(* of the same unchanged host, `gascan doctor` does not exit with success. *)
RefusedIsReported ==
    Done("doctor") /\ admitted = "no" /\ steady => exit # "zero"

(* `gascan up` is the remedy Doctor offers for the managed SSH files, so   *)
(* their state, like the workspace's, refuses no operation: when nothing   *)
(* else is wrong the operation is let through.                             *)
RemedyIsOpen ==
    Done("up") /\ Done("doctor") /\ steady /\ exit = "runtime" /\ host.daemon = "up"
      /\ (\A c \in Checks \ Operational : printed[c] \in Available)
    => admitted = "yes"

(* Silence is not health: without a daemon, or with a collector that never *)
(* ended, Doctor fails, but what the host can measure itself is reported   *)
(* as it is.                                                               *)
SilenceIsNotHealth ==
    Done("doctor") /\ host.daemon \in {"dead", "hung"} =>
        /\ exit = "runtime"
        /\ printed["architecture"] = Status(host.machine)
        /\ printed["ssh.client"] = Status(host.client)
        /\ printed["workspace"] = Status(host.workspace)

(* Capabilities are vouched for only by a runtime whose client and server  *)
(* were read as the same supported release, and success is only reported   *)
(* when they are vouched for, however the runtime changes between reads.   *)
SuccessIsVouchedFor ==
    exit = "zero" => /\ read["doctor"].service = "same" /\ Known(read["doctor"].cli)
                     /\ host.machine

=============================================================================
