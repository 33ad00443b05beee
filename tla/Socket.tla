------------------------------- MODULE Socket -------------------------------
(***************************************************************************)
(* The daemon's listening socket: how a starting gascand decides that the  *)
(* name is free, clears a stale socket, publishes its own, and removes it  *)
(* when it stops (gascand/src/socket.rs).  Every step another process can  *)
(* see is an action.  Starts are serialised by the CLI's lifecycle lock    *)
(* when Fenced; a daemon launched by hand, or one whose CLI stopped        *)
(* waiting for it, starts outside the lock (Fenced = FALSE).               *)
(***************************************************************************)
EXTENDS Naturals, TLAPS

CONSTANTS
    Daemons,   \* daemon processes, each started once
    Fenced     \* starts are serialised by the lifecycle lock

None == "none"
Stale == "stale"      \* the socket of a daemon that was killed earlier
Nodes == Daemons \cup {Stale}

VARIABLES
    name,       \* the socket node at gascand.sock, or None
    listening,  \* daemons whose listener is open
    pc,         \* [Daemons -> where the daemon is]
    seen,       \* [Daemons -> the identity prepare_socket read at the name]
    ident       \* [Daemons -> the identity the daemon believes is its own socket]

vars == <<name, listening, pc, seen, ident>>

Init ==
    /\ name \in {None, Stale}
    /\ listening = {}
    /\ pc = [d \in Daemons |-> "new"]
    /\ seen = [d \in Daemons |-> None]
    /\ ident = [d \in Daemons |-> None]

Goto(d, label) == pc' = [pc EXCEPT ![d] = label]
Starting == {"identify", "recheck", "remove", "bind", "publish", "own"}
Over == {"refused", "stopped", "crashed"}

\* Mistake: nobody asks whether a daemon listens behind the name.
ConnectNever(d) ==
    /\ pc[d] = "new"
    /\ Fenced => \A e \in Daemons : pc[e] \notin Starting
    /\ Goto(d, "identify")
    /\ UNCHANGED <<name, listening, seen, ident>>

(* UnixStream::connect: a listener behind the name means a live daemon.    *)
Connect(d) ==
    /\ pc[d] = "new"
    /\ Fenced => \A e \in Daemons : pc[e] \notin Starting
    /\ Goto(d, IF name \in listening THEN "refused" ELSE "identify")
    /\ UNCHANGED <<name, listening, seen, ident>>

(* identity_at: which node is there?  None means there is nothing to clear. *)
Identify(d) ==
    /\ pc[d] = "identify"
    /\ Goto(d, IF name = None THEN "bind" ELSE "recheck")
    /\ seen' = [seen EXCEPT ![d] = name]
    /\ UNCHANGED <<name, listening, ident>>

(* The second identity_at: a node that changed meanwhile is left alone.    *)
Recheck(d) ==
    /\ pc[d] = "recheck"
    /\ Goto(d, IF name = seen[d] THEN "remove" ELSE "refused")
    /\ UNCHANGED <<name, listening, seen, ident>>

(* remove_named_identity: the name is renamed to a quarantine name, and    *)
(* what was moved is unlinked if it is the expected node, put back         *)
(* otherwise.  Either way nothing else happens at the name in between when *)
(* starts are fenced, so the rename and its verdict are one step.          *)
Removed(expected) == IF name = expected THEN None ELSE name

Remove(d) ==
    /\ pc[d] = "remove"
    /\ name' = Removed(seen[d])
    /\ Goto(d, IF name = seen[d] THEN "bind" ELSE "refused")
    /\ UNCHANGED <<listening, seen, ident>>

(* bind_staging: the listener is open before the name shows it.            *)
BindStaging(d) ==
    /\ pc[d] = "bind"
    /\ listening' = listening \cup {d}
    /\ Goto(d, "publish")
    /\ UNCHANGED <<name, seen, ident>>

(* renameat2(NOREPLACE): an occupied name refuses the publication and the  *)
(* guard removes the staged socket.                                        *)
Publish(d) ==
    /\ pc[d] = "publish"
    /\ IF name = None
       THEN name' = d /\ Goto(d, "own") /\ UNCHANGED listening
       ELSE listening' = listening \ {d} /\ Goto(d, "refused") /\ UNCHANGED name
    /\ UNCHANGED <<seen, ident>>

(* The identity kept for the cleanup is read at the name after the rename. *)
Own(d) ==
    /\ pc[d] = "own"
    /\ IF name = None
       THEN Goto(d, "refused") /\ listening' = listening \ {d} /\ UNCHANGED ident
       ELSE Goto(d, "serving") /\ ident' = [ident EXCEPT ![d] = name] /\ UNCHANGED listening
    /\ UNCHANGED <<name, seen>>

(* Shutdown, idle or asked for: OwnedSocket's drop removes the node it     *)
(* holds the identity of and only then is the listener closed.             *)
Unpublish(d) ==
    /\ pc[d] = "serving"
    /\ name' = Removed(ident[d])
    /\ Goto(d, "closing")
    /\ UNCHANGED <<listening, seen, ident>>

CloseListener(d) ==
    /\ pc[d] = "closing"
    /\ listening' = listening \ {d}
    /\ Goto(d, "stopped")
    /\ UNCHANGED <<name, seen, ident>>

(* SIGKILL: the kernel closes the listener, the node stays at the name.    *)
Crash(d) ==
    /\ pc[d] \notin Over \cup {"new"}
    /\ listening' = listening \ {d}
    /\ Goto(d, "crashed")
    /\ UNCHANGED <<name, seen, ident>>

Next == \E d \in Daemons :
    \/ Connect(d) \/ Identify(d) \/ Recheck(d) \/ Remove(d) \/ BindStaging(d) \/ Publish(d)
    \/ Own(d) \/ Unpublish(d) \/ CloseListener(d) \/ Crash(d)

Spec == Init /\ [][Next]_vars

-----------------------------------------------------------------------------
(* A listener is open from bind_staging to the end and no longer.          *)
TypeOK ==
    /\ name \in Nodes \cup {None}
    /\ listening = {d \in Daemons : pc[d] \in {"publish", "own", "serving", "closing"}}
    /\ pc \in [Daemons -> Starting \cup Over \cup {"new", "serving", "closing"}]
    /\ seen \in [Daemons -> Nodes \cup {None}] /\ ident \in [Daemons -> Nodes \cup {None}]

(* A serving daemon is the one clients reach: its own socket is at the     *)
(* name, whatever other daemons start, are refused, stop or die.           *)
ServingIsReachable ==
    \A d \in Daemons : pc[d] = "serving" => name = d /\ ident[d] = d /\ d \in listening

(* Two daemons never serve at once (the exclusion the retirement of the    *)
(* instance record relies on).                                             *)
OneServer == \A d, e \in Daemons : pc[d] = "serving" /\ pc[e] = "serving" => d = e

(* A start is refused only because another daemon is alive: a stale socket *)
(* never keeps the next daemon out.                                        *)
RefusedByALiveDaemon ==
    [][\A d \in Daemons :
          pc[d] # "refused" /\ pc'[d] = "refused" => \E e \in listening : e # d]_vars
-----------------------------------------------------------------------------
(* Proofs, for any set of daemons whose starts the lifecycle lock fences.  *)
(* The steps of one start read the name several times; what they rely on   *)
(* is that nobody else publishes or removes meanwhile, which StartIsAlone  *)
(* says, and which makes NameIsOurs inductive.                             *)

\* While a daemon starts, no other one starts or serves.
StartIsAlone ==
    \A d, e \in Daemons :
        pc[d] \in Starting /\ pc[e] \in Starting \cup {"serving"} => d = e

\* What a starting daemon has read at the name is still there.
NameIsOurs ==
    \A d \in Daemons :
        /\ pc[d] \in {"recheck", "remove"} => name = seen[d]
        /\ pc[d] \in {"bind", "publish"} => name = None
        /\ pc[d] = "own" => name = d

\* A listener behind the name belongs to the daemon that put it there.
ListenerIsNamed == \A d \in Daemons : d = name /\ d \in listening => pc[d] \in {"own", "serving"}

SocketInvariant == TypeOK /\ StartIsAlone /\ NameIsOurs /\ ListenerIsNamed /\ ServingIsReachable

\* prepare_socket, publish and OwnedSocket keep the invariant.
LEMMA SocketStep ==
    ASSUME Fenced, None \notin Daemons, Stale \notin Daemons, SocketInvariant, [Next]_vars
    PROVE  SocketInvariant'
<1> USE DEF SocketInvariant, TypeOK, StartIsAlone, NameIsOurs, ListenerIsNamed, ServingIsReachable,
            Goto, Starting, Over, Nodes, vars
<1>1. ASSUME NEW d \in Daemons, Connect(d) PROVE SocketInvariant'
  BY <1>1 DEF Connect
<1>2. ASSUME NEW d \in Daemons, Identify(d) PROVE SocketInvariant'
  BY <1>2 DEF Identify
<1>3. ASSUME NEW d \in Daemons, Recheck(d) PROVE SocketInvariant'
  BY <1>3 DEF Recheck
<1>4. ASSUME NEW d \in Daemons, Remove(d) PROVE SocketInvariant'
  BY <1>4 DEF Remove, Removed
<1>5. ASSUME NEW d \in Daemons, BindStaging(d) PROVE SocketInvariant'
  BY <1>5 DEF BindStaging
<1>6. ASSUME NEW d \in Daemons, Publish(d) PROVE SocketInvariant'
  BY <1>6 DEF Publish
<1>7. ASSUME NEW d \in Daemons, Own(d) PROVE SocketInvariant'
  BY <1>7 DEF Own
<1>8. ASSUME NEW d \in Daemons, Unpublish(d) PROVE SocketInvariant'
  BY <1>8 DEF Unpublish, Removed
<1>9. ASSUME NEW d \in Daemons, CloseListener(d) PROVE SocketInvariant'
  BY <1>9 DEF CloseListener
<1>10. ASSUME NEW d \in Daemons, Crash(d) PROVE SocketInvariant'
  BY <1>10 DEF Crash
<1>11. CASE UNCHANGED vars
  BY <1>11
<1> QED
  BY <1>1, <1>2, <1>3, <1>4, <1>5, <1>6, <1>7, <1>8, <1>9, <1>10, <1>11 DEF Next

\* The invariant holds of every behaviour of fenced starts.
LEMMA SocketInvariantHolds ==
    ASSUME Fenced, None \notin Daemons, Stale \notin Daemons
    PROVE  Spec => []SocketInvariant
<1>1. Init => SocketInvariant
  BY DEF Init, SocketInvariant, TypeOK, StartIsAlone, NameIsOurs, ListenerIsNamed,
     ServingIsReachable, Starting, Over, Nodes
<1> QED
  BY <1>1, SocketStep, PTL DEF Spec

\* A daemon that serves is the one clients reach: prepare_socket and the drop
\* of OwnedSocket never remove the socket of another daemon that is alive.
THEOREM ServingStaysReachable ==
    ASSUME Fenced, None \notin Daemons, Stale \notin Daemons
    PROVE  Spec => []ServingIsReachable
<1>1. SocketInvariant => ServingIsReachable
  BY DEF SocketInvariant
<1> QED
  BY <1>1, SocketInvariantHolds, PTL

\* Two daemons never serve at once.
THEOREM NeverTwoServers ==
    ASSUME Fenced, None \notin Daemons, Stale \notin Daemons
    PROVE  Spec => []OneServer
<1>1. SocketInvariant => OneServer
  BY DEF SocketInvariant, ServingIsReachable, OneServer
<1> QED
  BY <1>1, SocketInvariantHolds, PTL

\* Only a daemon that is alive keeps another one from starting: whatever a
\* killed daemon left at the name is cleared.
THEOREM StaleNeverRefuses ==
    ASSUME Fenced, None \notin Daemons, Stale \notin Daemons
    PROVE  Spec => RefusedByALiveDaemon
<1>1. SocketInvariant /\ [Next]_vars
         => [\A d \in Daemons : pc[d] # "refused" /\ pc'[d] = "refused"
                => \E e \in listening : e # d]_vars
  <2> SUFFICES ASSUME SocketInvariant, NEW d \in Daemons, Next,
                      pc[d] # "refused", pc'[d] = "refused"
               PROVE  \E e \in listening : e # d
    OBVIOUS
  <2>1. Connect(d) /\ name \in listening
    BY DEF SocketInvariant, TypeOK, NameIsOurs, Nodes, Next, Connect, Identify, Recheck, Remove,
       BindStaging, Publish, Own, Unpublish, CloseListener, Crash, Goto
  <2> QED
    BY <2>1 DEF SocketInvariant, TypeOK, Connect
<1> QED
  BY <1>1, SocketInvariantHolds, PTL DEF Spec, RefusedByALiveDaemon

=============================================================================
