------------------------------ MODULE Evidence ------------------------------
(***************************************************************************)
(* How the two backends read what a runtime says it holds, and what of it  *)
(* becomes authority to delete or to keep: the ownership rule and the      *)
(* validators of crates/gascan-core/src/runtime.rs, the Apple inspector    *)
(* and inventory (crates/gascan-apple/src), the translation of the engine's *)
(* messages (crates/gascan-arca/src).                                      *)
(*                                                                         *)
(* A record is a resource as the runtime holds it: its kind and name, who  *)
(* it says manages it, and the sandbox label, which may be missing or may  *)
(* not parse.  Ports and images are read with a container.  One request,   *)
(* for the sandbox Self, is being answered.                                *)
(***************************************************************************)
EXTENDS Integers, Sequences, FiniteSets, SequencesExt

CONSTANTS
    Self, Other,     \* two sandbox ids
    Kinds,           \* the kinds of resource that appear in the runtime
    Networked,       \* whether the request has a managed network
    Shapes,          \* what else is read of a container: "sound", "image" or "state"
    MaxHeld,         \* bound: records the runtime holds
    MaxPorts,        \* bound: ports its container publishes
    MaxListed        \* bound: records in one answer of the engine

Ids == {Self, Other}
Managers == {"none", "gascan", "foreign"}
Labels == {"none", "garbled"} \cup Ids

\* The engine's messages carry both labels or neither.  Names: a container named
\* by an id, the rest by the sandbox it is for.
Records ==
    {r \in [kind : Kinds, name : Ids, manager : Managers, label : Labels] :
        (r.manager = "none") = (r.label = "none")}

\* What an answer of the engine can hold: this request's resources with the
\* right, another and no owner, a volume nobody asked for, and no identity.
Malformed == [kind |-> "none", name |-> Self, manager |-> "none", label |-> "none"]

Listable ==
    [kind : {"container", "volume", "network"}, name : {Self}, manager : {"gascan"}, label : Ids]
    \cup [kind : {"volume"}, name : Ids, manager : {"gascan", "foreign"}, label : {Self}]
    \cup {Malformed}

\* A container's published ports: u32 on the wire, u16 in the daemon.
Port == {0, 1, 65535, 65536}
Mapping == [host : Port, guest : {0, 22, 65536}]

VARIABLES
    held,            \* the records the runtime holds
    shape,           \* a container's image is pinned and its state known, or one is not
    ports,           \* the ports its container publishes
    path,            \* which of create and create_container is answered
    outcome          \* what the backend made of the engine's answer

vars == <<held, shape, ports, path, outcome>>

Pending == [ok |-> FALSE, created |-> <<>>, listed |-> <<>>, code |-> "none"]

Init ==
    /\ held = {} /\ ports = <<>> /\ shape \in Shapes
    /\ path \in {"create", "recreate"}
    /\ outcome = Pending

-----------------------------------------------------------------------------
(* The ownership rule                                                      *)

classify_resource_ownership(kind, name, manager, label) ==
    CASE manager = "gascan" /\ label \in Ids ->
            IF kind = "container" /\ label # name THEN "mismatched" ELSE "own"
      [] manager = "none" /\ label = "none" -> "foreign"
      [] manager = "foreign" -> "foreign"
      [] OTHER -> "mismatched"

\* RuntimeResource::discovered, without its proof.
Resource(r, sandbox) ==
    [kind |-> r.kind, name |-> r.name, sandbox |-> sandbox,
     ownership |-> classify_resource_ownership(r.kind, r.name, r.manager, r.label)]

Identity(r) == <<r.kind, r.name>>

-----------------------------------------------------------------------------
(* Listing: Apple and the engine                                           *)

Claimed(r) == IF r.manager = "gascan" /\ r.label \in Ids THEN r.label ELSE "none"

\* Containers: a label that does not parse is a mismatch; a state must be known.
AppleContainer(r) == Resource(r, Claimed(r))

\* Volumes and networks: a label that does not parse fails the inventory, and
\* the label is reported whoever manages the resource.
AppleReads(r) == IF r.kind = "container" THEN shape # "state" ELSE r.label # "garbled"
AppleOther(r) == Resource(r, IF r.label \in Ids THEN r.label ELSE "none")

AppleListing ==
    IF \A r \in held : AppleReads(r)
    THEN [ok |-> TRUE,
          resources |-> {IF r.kind = "container" THEN AppleContainer(r) ELSE AppleOther(r) : r \in held}]
    ELSE [ok |-> FALSE, resources |-> {}]

RuntimeResource(r) == Resource(r, Claimed(r))

ArcaListing == [ok |-> TRUE, resources |-> {RuntimeResource(r) : r \in held}]

-----------------------------------------------------------------------------
(* inspect(): one container                                                *)

ownership_metadata(r) == r.manager # "none" /\ r.label \in Ids /\ r.label = r.name

DistinctHosts(list) == \A i, j \in DOMAIN list : list[i].host = list[j].host => i = j

Ported(m) == m.host \in 1..65535 /\ m.guest \in 1..65535

\* u32 on the wire, narrowed with u16::try_from.
runtime_ports(list) == (\A i \in DOMAIN list : Ported(list[i])) /\ DistinctHosts(list)

\* Apple's output is parsed as u16 to begin with.
parse_published_ports(list) == (\A i \in DOMAIN list : Ported(list[i])) /\ DistinctHosts(list)

\* What create may ask for: its ports are u16 already.
port_mappings(list) ==
    /\ \A i \in DOMAIN list : list[i].host \in 0..65535 /\ list[i].guest \in 0..65535
    /\ \A i \in DOMAIN list : list[i].host # 0 /\ list[i].guest # 0
    /\ DistinctHosts(list)

\* runtime_sandbox() and AppleInspector::inspect() of a container that is there.
Inspects(r) == shape = "sound" /\ ownership_metadata(r) /\ runtime_ports(ports)
AppleInspects(r) == shape = "sound" /\ ownership_metadata(r) /\ parse_published_ports(ports)

-----------------------------------------------------------------------------
(* The validators of a request's resources                                 *)

Container == <<"container", Self>>
Network == IF Networked THEN {<<"network", Self>>} ELSE {}
Volumes == {<<"volume", Self>>}
Requested == {Container} \cup Volumes \cup Network

Owned(r) == r.ownership = "own" /\ r.sandbox = Self
Distinct(list) == \A i, j \in DOMAIN list : Identity(list[i]) = Identity(list[j]) => i = j
Identities(list) == {Identity(list[i]) : i \in DOMAIN list}

validate_created_resources(list, whole) ==
    /\ \A i \in DOMAIN list : Identity(list[i]) \in Requested /\ Owned(list[i])
    /\ Distinct(list)
    /\ whole => Container \in Identities(list) /\ Network \subseteq Identities(list)

validate_retained_resources(list) ==
    /\ \A i \in DOMAIN list : Identity(list[i]) \in Volumes \cup Network /\ Owned(list[i])
    /\ Distinct(list)
    /\ Cardinality(Identities(list)) = Cardinality(Volumes) + Cardinality(Network)

validate_recreated_container(list) ==
    Len(list) = 1 /\ Identity(list[1]) = Container /\ Owned(list[1])

\* One pass that keeps what is requested, ours and new.
from_created_evidence(list) ==
    LET Keep(kept, r) ==
            IF Identity(r) \in Requested /\ Owned(r) /\ Identity(r) \notin Identities(kept)
            THEN Append(kept, r) ELSE kept
    IN  FoldLeft(Keep, <<>>, list)

\* RemoveRequest::from_resources(), then the engine's remove_request(): one
\* call carries the labels of one sandbox.
from_resources(list) == list # <<>> /\ \A i \in DOMAIN list : list[i].ownership = "own"

remove_request(list) ==
    /\ \A i \in DOMAIN list : list[i].sandbox # "none"
    /\ \A i, j \in DOMAIN list : list[i].sandbox = list[j].sandbox

-----------------------------------------------------------------------------
(* create and create_container, answered by the engine                     *)

\* retained_resources(): everything of the sandbox but its container.
Retained == SetToSeq({r \in ArcaListing.resources : Owned(r) /\ r.kind # "container"})

Readable(list) == \A i \in DOMAIN list : list[i] # Malformed
Mapped(list) == [i \in DOMAIN list |-> RuntimeResource(list[i])]

\* CreatePath::outcome: which constructor accepts the answer.
Accepted(list) ==
    IF path = "create" THEN validate_created_resources(list, TRUE) ELSE validate_recreated_container(list)

Fails(code, created, list) == [ok |-> FALSE, created |-> created, listed |-> list, code |-> code]

\* create_outcome(): the three arms of the answer.
AnswerCreated(list) ==
    outcome' = IF ~Readable(list) THEN Fails("invalid_output", <<>>, <<>>)
               ELSE IF Accepted(Mapped(list))
                    THEN [ok |-> TRUE, created |-> Mapped(list), listed |-> Mapped(list), code |-> "none"]
                    ELSE Fails("rejected", <<>>, Mapped(list))

AnswerFailed(list) ==
    outcome' = IF ~Readable(list) THEN Fails("invalid_output", <<>>, <<>>)
               ELSE Fails("engine", from_created_evidence(Mapped(list)), Mapped(list))

\* An answer without an outcome, or a call whose transport failed.
AnswerNothing == \E code \in {"missing_outcome", "transport"} : outcome' = Fails(code, <<>>, <<>>)

\* The request exists: a recreate needs exact retained evidence.  Answers to a
\* create do not depend on what is held, and are taken with nothing held.
Asked ==
    /\ outcome = Pending
    /\ CASE path = "create" -> held = {}
         [] path = "recreate" -> validate_retained_resources(Retained)

Answer ==
    /\ Asked
    /\ \E n \in 0..MaxListed : \E list \in [1..n -> Listable] :
          AnswerCreated(list) \/ AnswerFailed(list) \/ AnswerNothing
    /\ UNCHANGED <<held, shape, ports, path>>

\* What the service deletes of a failed call: all its evidence after a create,
\* exactly the container, or nothing, after a replacement.
Rollback ==
    IF path = "create" \/ Identities(outcome.created) = {Container}
    THEN Identities(outcome.created) ELSE {}

-----------------------------------------------------------------------------
(* The runtime: anything may appear in it, under any labels                *)

\* Mistake: a resource with only one of the two labels, which the wire cannot carry.
AppearHalfLabelled ==
    /\ outcome = Pending /\ Cardinality(held) < MaxHeld
    /\ \E r \in [kind : Kinds, name : Ids, manager : Managers, label : Labels] :
          /\ \A h \in held : Identity(h) # Identity(r)
          /\ held' = held \cup {r}
    /\ UNCHANGED <<shape, ports, path, outcome>>

Appear ==
    /\ outcome = Pending /\ Cardinality(held) < MaxHeld
    /\ \E r \in Records :
          /\ \A h \in held : Identity(h) # Identity(r)
          /\ held' = held \cup {r}
    /\ UNCHANGED <<shape, ports, path, outcome>>

Publish ==
    /\ outcome = Pending /\ Len(ports) < MaxPorts
    /\ \E m \in Mapping : ports' = Append(ports, m)
    /\ UNCHANGED <<held, shape, path, outcome>>

Next == Appear \/ Publish \/ Answer

Spec == Init /\ [][Next]_vars

-----------------------------------------------------------------------------
(* Properties                                                              *)

Known == [kind : {"container", "volume", "network"}, name : Ids, sandbox : {"none"} \cup Ids,
          ownership : {"own", "foreign", "mismatched"}]

TypeOK ==
    /\ held \subseteq Records
    /\ \A i \in DOMAIN ports : ports[i] \in Mapping
    /\ outcome.ok \in BOOLEAN
    /\ \A i \in DOMAIN outcome.created : outcome.created[i] \in Known

\* The two backends read the same runtime the same way: the same resources, the
\* same ownership, and the same claimed sandbox, so that drift the one reports
\* the other does not drop (runtime_resource and the Apple inventory).
BackendsAgree == ArcaListing = AppleListing

\* What inspect() calls ours the listing calls ours, and the other way round:
\* the service checks the one and deletes by the other.
InspectMatchesListing ==
    \A r \in held : r.kind = "container" =>
        /\ Inspects(r) => ((r.manager = "gascan") <=> (RuntimeResource(r).ownership = "own"))
        /\ RuntimeResource(r).ownership = "own" /\ shape = "sound" /\ runtime_ports(ports) => Inspects(r)
        /\ AppleInspects(r) <=> Inspects(r)

\* Ports that inspect() accepted can be asked for again: a container is
\* replaced, or its predecessor restored, with the ports that were observed.
ObservedPortsCanBeAskedFor == runtime_ports(ports) => port_mappings(ports)

\* A failed call keeps every piece of evidence that stands on its own, and
\* nothing else: what is requested, owned and of this sandbox, once.
EvidenceIsKept ==
    outcome.code = "engine" =>
        /\ Identities(outcome.created) =
              {Identity(outcome.listed[i]) : i \in {j \in DOMAIN outcome.listed :
                    Identity(outcome.listed[j]) \in Requested /\ Owned(outcome.listed[j])}}
        /\ Distinct(outcome.created)

\* Whatever a call left as created can be named in one remove call, under this
\* sandbox's labels: a rollback is never refused by the client's own checks.
RollbackIsExpressible ==
    outcome.created # <<>> =>
        /\ from_resources(outcome.created) /\ remove_request(outcome.created)
        /\ \A i \in DOMAIN outcome.created : outcome.created[i].sandbox = Self

\* The rollback of a failed replacement deletes the new container or nothing:
\* never a volume or the network the sandbox keeps.
RollbackSparesRetained == path = "recreate" => Rollback \subseteq {Container}

\* What was retained and what a replacement created make up the whole topology
\* of the request, each resource once, as a create would have to answer.
ReplacementIsWhole ==
    path = "recreate" /\ outcome.ok =>
        LET whole == Retained \o outcome.created
        IN  validate_created_resources(whole, TRUE) /\ Identities(whole) = Requested

=============================================================================
