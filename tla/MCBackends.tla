----------------------------- MODULE MCBackends -----------------------------
(***************************************************************************)
(* From a manifest to the runtime backends, for the model checker: the     *)
(* request a manifest becomes, the two real backends and the fake one.     *)
(* The parts do not interact, so a behaviour is one of `part`, and the     *)
(* other parts stay as they were.                                          *)
(***************************************************************************)
EXTENDS Integers, Sequences

CONSTANTS Parts, Raws, AutoPorts, MaxEdits, MaxFaults

VARIABLES
    part,       \* the part a behaviour is of
    \* Transport
    transportFile, approved, box, row, transportOp, last, busy, edits, transportFaults,
    others,
    \* Evidence
    evidenceHeld, shape, ports, path, outcome,
    \* Observations
    appleWorld, appleObservations, appleOp, appleLeft, appleFaults,
    \* Observations
    soloWorld, soloObservations, soloOp, soloLeft, soloFaults,
    \* FakeRuntime
    fakeSandboxes, fakeOwner, fakeProof, fakeHeld, fakeLogs, fakeFile, fakeFailures,
    fakeSession, fakeExits, fakeReply, fakeBudget,
    \* FakeRuntime
    contractSandboxes, contractOwner, contractProof, contractHeld, contractLogs,
    contractFile, contractFailures, contractSession, contractExits, contractReply,
    contractBudget

transportVars == <<transportFile, approved, box, row, transportOp, last, busy, edits,
                   transportFaults, others>>
evidenceVars == <<evidenceHeld, shape, ports, path, outcome>>
appleVars == <<appleWorld, appleObservations, appleOp, appleLeft, appleFaults>>
soloVars == <<soloWorld, soloObservations, soloOp, soloLeft, soloFaults>>
fakeVars == <<fakeSandboxes, fakeOwner, fakeProof, fakeHeld, fakeLogs, fakeFile,
              fakeFailures, fakeSession, fakeExits, fakeReply, fakeBudget>>
contractVars == <<contractSandboxes, contractOwner, contractProof, contractHeld,
                  contractLogs, contractFile, contractFailures, contractSession,
                  contractExits, contractReply, contractBudget>>
vars == <<part, transportVars, evidenceVars, appleVars, soloVars, fakeVars, contractVars>>

Man(network, ssh, hostPort, declared, user) ==
    [network |-> network, ssh |-> ssh, hostPort |-> hostPort, ports |-> declared, user |-> user,
     limits |-> "fine"]

Plain == Man("networked", "off", 0, <<>>, "workspace")

Limited(limits) == [Plain EXCEPT !.limits = limits, !.ports = <<0>>]

\* Every kind of transport, an application port that an automatic SSH port may
\* meet, one below 1024, and the two users.
MCRaws ==
    { Man("networked", "unset", 0, <<>>, "workspace"),
      Man("networked", "unset", 0, <<5001>>, "workspace"),
      Man("networked", "on", 2222, <<>>, "workspace"),
      Man("networked", "on", 80, <<>>, "workspace"),
      Man("networked", "on", 5001, <<5001>>, "workspace"),
      Man("networked", "off", 0, <<80>>, "root"),
      Man("offline", "unset", 0, <<>>, "workspace"),
      Man("offline", "on", 0, <<80>>, "workspace"),
      Limited("zero"), Limited("excess") }

Transport == INSTANCE Transport WITH
    Backend <- "arca", MaxAttempts <- 2, MaxEdits <- MaxEdits, MaxFaults <- MaxFaults,
    MaxOthers <- 1,
    file <- transportFile, op <- transportOp, faults <- transportFaults

Evidence == INSTANCE Evidence WITH
    Self <- "s1", Other <- "s2", Kinds <- {"volume", "network"}, Networked <- TRUE,
    Shapes <- {"sound"}, MaxHeld <- 2, MaxPorts <- 0, MaxListed <- 3,
    held <- evidenceHeld

Containers == INSTANCE Evidence WITH
    Self <- "s1", Other <- "s2", Kinds <- {"container"}, Networked <- TRUE,
    Shapes <- {"sound", "image"}, MaxHeld <- 2, MaxPorts <- 2, MaxListed <- 0,
    held <- evidenceHeld

Apple == INSTANCE Observations WITH
    Sandboxes <- {"a", "b"}, Operations <- 1, Faults <- 1,
    world <- appleWorld, observations <- appleObservations, op <- appleOp,
    left <- appleLeft, faults <- appleFaults

Solo == INSTANCE Observations WITH
    Sandboxes <- {"a"}, Operations <- 3, Faults <- 1,
    world <- soloWorld, observations <- soloObservations, op <- soloOp, left <- soloLeft,
    faults <- soloFaults

Fake == INSTANCE FakeRuntime WITH
    Sandboxes <- {"a"}, Seeds <- {"own", "foreign"}, Injections <- 0, Restarts <- 1,
    Executions <- 1, DiskFails <- TRUE,
    sandboxes <- fakeSandboxes, owner <- fakeOwner, proof <- fakeProof, held <- fakeHeld,
    logs <- fakeLogs, file <- fakeFile, failures <- fakeFailures, session <- fakeSession,
    exits <- fakeExits, reply <- fakeReply, budget <- fakeBudget

Promised == INSTANCE FakeRuntime WITH
    Sandboxes <- {"a"}, Seeds <- {"own", "foreign"}, Injections <- 1, Restarts <- 0,
    Executions <- 1, DiskFails <- FALSE,
    sandboxes <- contractSandboxes, owner <- contractOwner, proof <- contractProof,
    held <- contractHeld, logs <- contractLogs, file <- contractFile,
    failures <- contractFailures, session <- contractSession, exits <- contractExits,
    reply <- contractReply, budget <- contractBudget

-----------------------------------------------------------------------------

\* The parts that are not looked at start, and stay, in one initial state.
Init ==
    /\ part \in Parts
    /\ IF part = "transport" THEN TRUE
       ELSE transportFile = Man("networked", "unset", 0, <<>>, "workspace")
    /\ Transport!Init
    /\ IF part \in {"evidence", "containers"} THEN TRUE ELSE shape = "sound" /\ path = "create"
    /\ IF part = "containers" THEN Containers!Init ELSE Evidence!Init
    /\ Apple!Init
    /\ Solo!Init
    /\ IF part = "fake" THEN TRUE ELSE fakeOwner = [r \in Fake!Resources |-> "absent"]
    /\ Fake!Init
    /\ IF part = "contract" THEN TRUE ELSE contractOwner = [r \in Fake!Resources |-> "absent"]
    /\ Promised!Init

\* A step of the part p leaves the others alone.
Only(p) ==
    /\ part = p /\ UNCHANGED part
    /\ IF p = "transport" THEN TRUE ELSE UNCHANGED transportVars
    /\ IF p \in {"evidence", "containers"} THEN TRUE ELSE UNCHANGED evidenceVars
    /\ IF p = "apple" THEN TRUE ELSE UNCHANGED appleVars
    /\ IF p = "solo" THEN TRUE ELSE UNCHANGED soloVars
    /\ IF p = "fake" THEN TRUE ELSE UNCHANGED fakeVars
    /\ IF p = "contract" THEN TRUE ELSE UNCHANGED contractVars

Next ==
    \/ Only("transport") /\ Transport!Next
    \/ Only("evidence") /\ Evidence!Next
    \/ Only("containers") /\ Containers!Next
    \/ Only("apple") /\ Apple!Next
    \/ Only("solo") /\ Solo!Next
    \/ Only("fake") /\ Fake!Next
    \/ Only("contract") /\ Promised!Next

Spec == Init /\ [][Next]_vars

-----------------------------------------------------------------------------
\* Between operations, an SSH alias on record goes with a running container that
\* has exactly one usable SSH mapping, at the recorded port if one is; an up or
\* apply that succeeded leaves nothing to apply for the same manifest; and a
\* replacement that was undone leaves the transport, the policy, the alias and
\* the other ports that were there before it.
TransportIsKept ==
    /\ [](part = "transport" =>
             /\ Transport!TypeOK /\ Transport!ReadyIsReachable /\ Transport!SettledIsQuiet
             /\ Transport!RestoreKeepsTheRest)
    /\ Transport!RollbackRestoresTransport

\* README.md, line 248: a replacement that is refused does not cost the
\* container, if no call fails and nobody took a port of the previous one.
RefusedReplacementRestores == Transport!RefusedReplacementRestores

\* partial_create_failure and runtime_resource: a failed call keeps every piece
\* of evidence that stands on its own and nothing else, in a form that one remove
\* call can name and that spares what was retained; a replacement is whole; both
\* backends read the same containers the same way, in inspections as in listings;
\* and ports that were observed can be asked for again.
EvidenceIsSound ==
    /\ part = "evidence" =>
          /\ Evidence!TypeOK /\ Evidence!EvidenceIsKept /\ Evidence!RollbackIsExpressible
          /\ Evidence!RollbackSparesRetained /\ Evidence!ReplacementIsWhole
    /\ part = "containers" =>
          /\ Containers!TypeOK /\ Containers!BackendsAgree /\ Containers!InspectMatchesListing
          /\ Containers!ObservedPortsCanBeAskedFor

\* reconcile_created: a failed create names all it made and nothing else, also
\* beside the operations on another sandbox, and a failed up of a sandbox that is
\* alone leaves nothing behind.
FailedCreatesAreNamed ==
    /\ part = "apple" => Apple!TypeOK /\ Apple!EvidenceIsComplete
    /\ part = "solo" => Solo!TypeOK /\ Solo!RollbackLeavesNothing

\* The fake runtime implements what the trait promises of any backend, names
\* everything that a failed create made, removes only by an observation of that
\* very resource, keeps over a restart what the last call was told is done, and
\* its answers never disagree.
FakeIsABackend ==
    /\ Promised!KeepsContract
    /\ Promised!FailureNamesWhatItMade
    /\ Fake!RemovalIsExact
    /\ Fake!RestartKeepsAcknowledged
    /\ [](part = "fake" => Fake!TypeOK /\ Fake!ListingMatchesInspect /\ Fake!LogsBeforeExit)

=============================================================================
