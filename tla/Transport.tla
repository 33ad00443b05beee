----------------------------- MODULE Transport -----------------------------
(***************************************************************************)
(* From a manifest to a container's published ports: the manifest is       *)
(* validated (crates/gascan-core/src/manifest.rs), compiled into a create  *)
(* request (crates/gascan-core/src/policy.rs), translated for the runtime  *)
(* (crates/gascan-apple/src/translate.rs); up and apply of                 *)
(* crates/gascand/src/service.rs choose the SSH port, retry a collision,   *)
(* decide whether the transport changed, replace the container, and bring  *)
(* the previous transport back when the replacement fails.                 *)
(*                                                                         *)
(* One sandbox; its operations exclude each other.  A mapping is a pair of *)
(* host port and guest port, always on loopback.  0 is "no port".          *)
(***************************************************************************)
EXTENDS Integers, Sequences, FiniteSets, SequencesExt

CONSTANTS
    Raws,            \* manifests as written
    AutoPorts,       \* ports the system hands out
    Backend,         \* "apple" or "arca"
    MaxAttempts,     \* AUTOMATIC_PORT_ATTEMPTS
    MaxEdits, MaxFaults, MaxOthers   \* bounds on what happens around it

VARIABLES
    file,            \* the manifest on disk
    approved,        \* the approved image
    box,             \* the container
    row,             \* what the store records of the transport
    op,              \* the operation in progress
    last,            \* the last operation that ended
    busy,            \* host ports other programs hold
    edits, faults, others

counts == <<edits, faults, others>>
vars == <<file, approved, box, row, op, last, busy, counts>>

-----------------------------------------------------------------------------
(* Manifest and policy                                                     *)

SshEnabled(m) == m.ssh = "on" \/ (m.ssh = "unset" /\ m.network = "networked")

validate(m) ==
    /\ ~(m.network = "offline" /\ m.ssh = "on")
    /\ ~SshEnabled(m) => m.hostPort = 0
    /\ m.hostPort # 0 => m.hostPort >= 1024
    /\ m.limits # "zero"

Manifests == {m \in Raws : validate(m)}

Host(mapping) == mapping[1]
Guest(mapping) == mapping[2]
Ssh(ports) == {p \in ports : Guest(p) = 22}
Apps(m) == {<<p, p>> : p \in ToSet(m.ports)}

NoRequest == [network |-> "none", user |-> "none", ports |-> {}, ssh |-> FALSE]

compile_ports(m, port) ==
    /\ m.network = "offline" => m.ports = <<>>
    /\ 0 \notin ToSet(m.ports) /\ IsInjective(m.ports)
    /\ port \notin ToSet(m.ports)

\* More processors or memory than the policy allows, or a disk limit.
compile_resources(m) == m.limits # "excess"

\* The request for a manifest, with an SSH port if one has been prepared.
compile(m, port) ==
    IF /\ compile_ports(m, port) /\ compile_resources(m)
       /\ port # 0 => port >= 1024 /\ m.hostPort \in {0, port}
    THEN [network |-> m.network, user |-> m.user, ssh |-> port # 0,
          ports |-> Apps(m) \cup IF port = 0 THEN {} ELSE {<<port, 22>>}]
    ELSE NoRequest

\* The request with another transport: port, or none.
restore_ssh_transport(req, port) ==
    LET rest == {p \in req.ports : Guest(p) # 22} IN
    IF port # 0 /\ (req.network = "offline" \/ port < 1024 \/ \E p \in rest : Host(p) = port)
    THEN NoRequest
    ELSE [req EXCEPT !.ssh = port # 0,
                     !.ports = rest \cup IF port = 0 THEN {} ELSE {<<port, 22>>}]

\* The runtime's own check of a request.
validate_view(req) == Backend = "apple" => req.user = "workspace"

-----------------------------------------------------------------------------
(* What the store and the runtime say of the transport                     *)

NoBox == [image |-> 0, network |-> "none", user |-> "none", ports |-> {}, running |-> FALSE]
NoPolicy == [kind |-> "none", port |-> 0]
Off == [kind |-> "off", port |-> 0]

requested_ssh_transport(m) ==
    IF SshEnabled(m) THEN [kind |-> "on", port |-> m.hostPort] ELSE Off

runtime_ssh_transport_changed(m) ==
    LET mapped == Ssh(box.ports) IN
    IF mapped = {} THEN SshEnabled(m)
    ELSE \/ ~SshEnabled(m) \/ Cardinality(mapped) > 1
         \/ m.hostPort # 0 /\ mapped # {<<m.hostPort, 22>>}

\* Whether the recorded resolution and policy must agree as well.
ssh_transport_policy_changed(m, resolution, policy) ==
    \/ runtime_ssh_transport_changed(m)
    \/ row.policy # NoPolicy /\ row.policy # requested_ssh_transport(m)
    \/ policy /\ row.policy = NoPolicy
    \/ resolution /\ SshEnabled(m) # (row.resolution = "on")

\* The one mapping an activation can use.
native_port ==
    LET mapped == Ssh(box.ports) IN
    IF Cardinality(mapped) = 1 /\ \A p \in mapped : Host(p) >= 1024
    THEN Host(CHOOSE p \in mapped : TRUE) ELSE 0

\* The transport to go back to; 0 is none, -1 when it cannot be told.
inspected_transport ==
    IF Ssh(box.ports) = {} /\ row.policy.kind # "on" THEN 0
    ELSE IF native_port = 0 THEN -1 ELSE native_port

-----------------------------------------------------------------------------
(* Operations                                                              *)

NoManifest == [network |-> "none", ssh |-> "off", hostPort |-> 0, ports |-> <<>>, user |-> "none",
               limits |-> "fine"]
NoRow == [policy |-> NoPolicy, resolution |-> "none", complete |-> FALSE]
NoOp == [pc |-> "idle", kind |-> "none", m |-> NoManifest, req |-> NoRequest, back |-> NoRequest,
         port |-> 0, tries |-> 0, made |-> FALSE, old |-> NoBox, was |-> NoRow]

Init ==
    /\ file \in Manifests /\ approved = 1 /\ box = NoBox
    /\ row = NoRow /\ op = NoOp
    /\ last = [kind |-> "none", end |-> "none", m |-> NoManifest]
    /\ busy = {} /\ edits = 0 /\ faults = 0 /\ others = 0

Goto(where) == op' = [op EXCEPT !.pc = where]

End(how) ==
    /\ op' = NoOp
    /\ last' = [kind |-> op.kind, end |-> how, m |-> op.m]

Fault == faults < MaxFaults /\ faults' = faults + 1
Fine == UNCHANGED faults
world == <<file, approved, busy, edits, others>>

Begin(kind) ==
    /\ op.pc = "idle"
    /\ kind = "apply" => box # NoBox
    /\ op' = [NoOp EXCEPT !.pc = IF kind = "up" THEN "inspect" ELSE "prepare",
                          !.kind = kind, !.m = file, !.old = box, !.was = row]
    /\ UNCHANGED <<world, box, row, last, faults>>

\* up leaves a container alone that would have to be replaced.
UpInspect ==
    /\ op.pc = "inspect"
    /\ IF compile(op.m, 0) = NoRequest THEN End("failed")
       ELSE IF
          \/ box # NoBox /\ box.image # approved
          \/ box # NoBox /\ ssh_transport_policy_changed(op.m, row.complete, FALSE)
       THEN End("required") ELSE Goto("prepare") /\ UNCHANGED last
    /\ row' = row /\ UNCHANGED <<world, box, faults>>

\* The port: as the manifest says, or one the system has free.
prepare_ssh_create(m) ==
    IF ~SshEnabled(m) THEN {0}
    ELSE IF m.hostPort # 0 THEN {m.hostPort}
    ELSE AutoPorts \ (busy \cup IF box.running THEN {Host(p) : p \in box.ports} ELSE {})

Failing == IF op.kind = "apply" /\ op.back # NoRequest
           THEN Goto("rollback") /\ UNCHANGED last ELSE End("failed")

\* At the start of apply, and in up and again after each collision.
Prepare ==
    /\ op.pc = "prepare"
    /\ \/ prepare_ssh_create(op.m) = {} /\ Fine /\ row' = row /\ Failing
       \/ \E port \in prepare_ssh_create(op.m) :
          LET req == compile(op.m, port)
              next == IF op.tries > 0 THEN "create"
                      ELSE IF op.kind = "apply" THEN "changed"
                      ELSE IF box = NoBox THEN "create" ELSE "activate"
          IN \/ /\ req # NoRequest /\ Fine
                /\ op' = [op EXCEPT !.req = req, !.port = port, !.pc = next]
                /\ UNCHANGED <<row, last>>
             \/ /\ \/ req = NoRequest /\ Fine
                   \/ Fault
                /\ row' = row /\ Failing
    /\ UNCHANGED <<world, box>>

\* apply replaces the container, or goes on in place.
Changed ==
    /\ op.pc = "changed"
    /\ IF box.image # approved \/ ssh_transport_policy_changed(op.m, TRUE, TRUE)
       THEN Goto("replace") ELSE Goto("activate")
    /\ UNCHANGED <<world, box, row, last, faults>>

\* Restarting the container for a changed setup fails half-way.
ChangedFails ==
    /\ op.pc = "changed" /\ Fault
    /\ box.image = approved /\ ~ssh_transport_policy_changed(op.m, TRUE, TRUE)
    /\ box' \in {box, [box EXCEPT !.running = FALSE]} /\ row' = row
    /\ End("failed") /\ UNCHANGED world

\* The volumes stay, and the network exactly if the request has one.
validate_retained_resources(req) == box.network = req.network

\* Everything that can be refused is refused before the container is touched.
Replace ==
    LET seen == inspected_transport
        back == restore_ssh_transport(op.req, seen)
        ready == validate_retained_resources(op.req) /\ seen # -1 /\ back # NoRequest
    IN
    /\ op.pc = "replace"
    /\ \/ /\ ready /\ Fine
          /\ op' = [op EXCEPT !.pc = "create", !.back = back]
          /\ box' = NoBox /\ UNCHANGED <<row, last>>
       \/ /\ ready /\ Fault
          /\ op' = [op EXCEPT !.pc = "rollback", !.back = back]
          /\ UNCHANGED <<box, row, last>>
       \/ /\ \/ ~ready /\ Fine
             \/ Fault
          /\ row' = row /\ End("failed") /\ UNCHANGED box
    /\ UNCHANGED world

Boxed(req, image) ==
    [image |-> image, network |-> req.network, user |-> req.user, ports |-> req.ports, running |-> TRUE]

Taken(req) == {Host(p) : p \in req.ports} \cap busy

\* The port that was chosen is the one that was taken.
is_native_port_collision == op.port \in Taken(op.req)

\* The reservation is released, then the runtime binds the ports; another
\* program may have been quicker.
Create ==
    /\ op.pc = "create"
    /\ \/ /\ validate_view(op.req) /\ Taken(op.req) = {} /\ Fine
          /\ box' = Boxed(op.req, approved)
          /\ row' = IF op.kind = "up" THEN [row EXCEPT !.policy = requested_ssh_transport(op.m)] ELSE row
          /\ op' = [op EXCEPT !.pc = "activate", !.made = TRUE] /\ UNCHANGED last
       \/ /\ is_native_port_collision /\ op.m.hostPort = 0 /\ op.tries + 1 < MaxAttempts /\ Fine
          /\ op' = [op EXCEPT !.tries = @ + 1, !.pc = "prepare"]
          /\ UNCHANGED <<box, row, last>>
       \/ /\ \/ ~validate_view(op.req) /\ Fine
             \/ is_native_port_collision /\ (op.m.hostPort # 0 \/ op.tries + 1 = MaxAttempts) /\ Fine
             \/ Taken(op.req) \ {op.port} # {} /\ Fine
             \/ Fault
          /\ row' = row /\ UNCHANGED box /\ Failing
    /\ UNCHANGED world

\* The container exists, and up cannot say so: it is left as created.
CreateUnreported ==
    /\ op.pc = "create" /\ op.kind = "up" /\ Fault
    /\ validate_view(op.req) /\ Taken(op.req) = {}
    /\ box' = [Boxed(op.req, approved) EXCEPT !.running = FALSE]
    /\ row' = [row EXCEPT !.policy = requested_ssh_transport(op.m)]
    /\ End("failed") /\ UNCHANGED world

\* A stopped container holds none of its ports.
Startable == box.running \/ Taken(box) = {}

\* What a failed activation leaves recorded: nothing new, the prior alias put
\* back, or the new one when its publication is uncertain.
Unactivated ==
    LET prior == IF op.kind = "up" /\ op.made THEN "none" ELSE row.resolution IN
    {[row EXCEPT !.resolution = r] :
        r \in {row.resolution}
              \cup IF Startable /\ SshEnabled(op.m) /\ native_port # 0 THEN {prior, "on"} ELSE {}}

\* Start, provisioning, then the alias: published over the one native mapping, or
\* withdrawn.
Activate ==
    /\ op.pc = "activate" /\ Startable /\ Fine
    /\ SshEnabled(op.m) => native_port # 0
    /\ box' = [box EXCEPT !.running = TRUE]
    /\ row' = [policy |-> IF op.kind = "up" THEN requested_ssh_transport(op.m) ELSE row.policy,
               resolution |-> IF SshEnabled(op.m) THEN "on" ELSE "off",
               complete |-> IF op.kind = "apply" /\ op.made THEN row.complete ELSE TRUE]
    /\ IF op.kind = "apply" /\ op.made THEN Goto("commit") /\ UNCHANGED last ELSE End("done")
    /\ UNCHANGED world

\* A replacement is rolled back, a new container removed, an old one stopped.
\* A failed setup script, and an uncertain publication, keep the container.
ActivateFails ==
    /\ op.pc = "activate"
    /\ \/ ~Startable /\ Fine
       \/ SshEnabled(op.m) /\ native_port = 0 /\ Fine
       \/ Fault
    /\ row' \in Unactivated
    /\ IF op.kind = "apply" /\ op.made
       THEN Goto("rollback") /\ UNCHANGED <<box, last>>
       ELSE /\ box' \in {[box EXCEPT !.running = on] : on \in {FALSE, Startable}}
                        \cup IF op.made THEN {NoBox} ELSE {}
            /\ End("failed")
    /\ UNCHANGED world

\* The replacement is recorded with its transport, then the operation as done.
Commit ==
    LET new == [row EXCEPT !.policy = requested_ssh_transport(op.m), !.complete = TRUE] IN
    /\ op.pc = "commit"
    /\ \/ Fine /\ row' = new /\ End("done")
       \/ Fault /\ row' \in {row, new} /\ Goto("undo") /\ UNCHANGED last
    /\ UNCHANGED <<world, box>>

\* Mistake: the image of the replacement is used again.
RollbackToApproved ==
    /\ op.pc \in {"rollback", "undo"}
    /\ validate_view(op.back) /\ Taken(op.back) = {} /\ Fine
    /\ box' = Boxed(op.back, approved)
    /\ row' = [op.was EXCEPT !.resolution = IF op.back.ssh THEN "on" ELSE "off"]
    /\ End("restored")
    /\ UNCHANGED world

\* The previous image in a container made from the new request, with the
\* previous transport; then the alias and, after a failed commit, the record.
Rollback ==
    LET alias == IF op.back.ssh THEN "on" ELSE "off"
        base == IF op.pc = "undo" THEN op.was ELSE row
        ready == validate_view(op.back) /\ Taken(op.back) = {}
    IN
    /\ op.pc \in {"rollback", "undo"}
    /\ \/ /\ ready /\ Fine
          /\ box' = Boxed(op.back, op.old.image)
          /\ row' = [base EXCEPT !.resolution = alias]
          /\ End("restored")
       \/ /\ \/ ~ready /\ Fine
             \/ Fault
          /\ box' \in {NoBox} \cup IF ready THEN {Boxed(op.back, op.old.image)} ELSE {}
          /\ row' \in {base} \cup IF faults' # faults THEN {row} ELSE {}
          /\ End("failed")
    /\ UNCHANGED world

-----------------------------------------------------------------------------
(* Around the operations                                                   *)

\* down; destroy.
Down ==
    /\ op.pc = "idle" /\ box.running
    /\ box' = [box EXCEPT !.running = FALSE]
    /\ UNCHANGED <<world, row, op, last, faults>>

Destroy ==
    /\ op.pc = "idle" /\ box # NoBox
    /\ box' = NoBox
    /\ UNCHANGED <<world, row, op, last, faults>>

Edit ==
    /\ op.pc = "idle" /\ edits < MaxEdits
    /\ edits' = edits + 1
    /\ \/ /\ \E m \in Manifests \ {file} : file' = m
          /\ UNCHANGED approved
       \/ approved = 1 /\ approved' = 2 /\ UNCHANGED file
    /\ UNCHANGED <<box, row, op, last, busy, faults, others>>

\* Another program takes a free port, or lets one go.
Others ==
    /\ others < MaxOthers /\ others' = others + 1
    /\ \/ \E p \in (AutoPorts \cup {m.hostPort : m \in Manifests}) 
                            \ ({0} \cup IF box.running THEN {Host(x) : x \in box.ports} ELSE {}) :
             busy' = busy \cup {p}
       \/ \E p \in busy : busy' = busy \ {p}
    /\ UNCHANGED <<file, approved, box, row, op, last, edits, faults>>

Next ==
    \/ Begin("up") \/ Begin("apply") \/ UpInspect \/ Prepare \/ Changed \/ Replace
    \/ ChangedFails \/ Create \/ CreateUnreported \/ Activate \/ ActivateFails
    \/ Commit \/ Rollback
    \/ Down \/ Destroy \/ Edit \/ Others

Spec == Init /\ [][Next]_vars

-----------------------------------------------------------------------------
(* Properties                                                              *)

TypeOK ==
    /\ file \in Manifests /\ approved \in 1..2
    /\ row.policy.kind \in {"none", "off", "on"} /\ row.resolution \in {"none", "off", "on"}
    /\ op.tries \in 0..(MaxAttempts - 1) /\ op.m \in Manifests \cup {NoManifest}
    /\ \A p \in box.ports : Host(p) # 0 /\ Guest(p) # 0
    /\ last.end \in {"none", "done", "required", "failed", "restored"}

\* Between operations, an alias on record goes with a running container that
\* has exactly one usable SSH mapping, at the recorded port if one is.
ReadyIsReachable ==
    op.pc = "idle" /\ row.resolution = "on" /\ box.running /\ row.policy.kind = "on" =>
       /\ native_port # 0
       /\ row.policy.port \in {0, native_port}

\* An operation that succeeded leaves nothing to apply: neither up nor apply of
\* the same manifest finds the transport changed.
SettledIsQuiet ==
    op.pc = "idle" /\ last.end = "done" /\ last.m = file /\ box # NoBox
       => ~ssh_transport_policy_changed(file, TRUE, TRUE)

\* A replacement that was undone leaves the transport, the policy and the
\* alias that were there before it.
RollbackRestoresTransport ==
    [][op.pc \in {"rollback", "undo"} /\ op'.pc = "idle" /\ last'.end = "restored" =>
          /\ Ssh(box'.ports) = Ssh(op.old.ports)
          /\ box'.image = op.old.image
          /\ row'.policy = op.was.policy
          /\ (row'.resolution = "on") = (Ssh(box'.ports) # {})]_vars

\* restore_ssh_transport "Replaces only the native SSH transport fields":
\* every port the request declares is still published.
RestoreKeepsTheRest ==
    op.back # NoRequest => Apps(op.m) \subseteq op.back.ports

\* "If replacement fails, Gascan ... restores the previous workspace image": when
\* no call of the runtime fails and nobody took a port of the previous container,
\* a replacement that is refused does not cost the container.
RefusedReplacementRestores ==
    [][op.pc = "rollback" /\ op'.pc = "idle" /\ faults' = 0
       /\ {Host(p) : p \in op.old.ports} \cap busy = {}
          => box' # NoBox]_vars

\* A manifest whose up or apply succeeded is the one whose ports are published.
PublishedIsDeclared ==
    op.pc = "idle" /\ last.end = "done" /\ last.m = file /\ box # NoBox
       => box.ports \ Ssh(box.ports) = Apps(file)

\* A create request the policy accepts is one the runtime can be asked for.
AcceptedIsTranslated == op.pc = "create" => validate_view(op.req)

=============================================================================
