------------------------------ MODULE Identity ------------------------------
(***************************************************************************)
(* The managed SSH identity, ssh/identity.rs: one private and one public   *)
(* key file that every create and every reconciliation asks for            *)
(* (ensure_host_identity) without holding the publication lock.  The pair  *)
(* is made once: ssh-keygen writes it under staging names, and two         *)
(* exclusive renames put it in place.  Other handlers look while that      *)
(* happens, any step may fail and the daemon may end between the renames.  *)
(***************************************************************************)
EXTENDS Naturals, FiniteSets, TLAPS

CONSTANTS
    Callers,      \* handlers that ask for the identity
    MaxCalls,     \* bound on the calls
    MaxFaults,    \* bound on failing steps
    MaxCrashes    \* bound on crashes of the daemon

VARIABLES
    private, public,  \* the key each file holds, 0 when there is no file
    stage,            \* staging files of a caller's guard: name |-> key
    pc, mine,         \* where a caller is, and the key it generated or holds
    seen,             \* whether the caller found the private file
    advised,          \* the call follows a doctor report that asked for it
    calls, faults, crashes, fresh

vars == <<private, public, stage, pc, mine, seen, advised, calls, faults, crashes, fresh>>
bounds == <<calls, faults, crashes, fresh>>

None == [private |-> 0, public |-> 0]
Ended == {"idle", "ok", "failed"}

Init ==
    /\ private = 0 /\ public = 0
    /\ stage = [c \in Callers |-> None]
    /\ pc = [c \in Callers |-> "idle"]
    /\ mine = [c \in Callers |-> 0]
    /\ seen = [c \in Callers |-> FALSE]
    /\ advised = [c \in Callers |-> FALSE]
    /\ calls = 0 /\ faults = 0 /\ crashes = 0 /\ fresh = 1

(* inspect_host_identity_if_present, as doctor sees the two files.         *)
Inspect ==
    IF private = 0 /\ public = 0 THEN "none"
    ELSE IF private = 0 \/ public = 0 THEN "missing"
    ELSE IF private # public THEN "inconsistent"
    ELSE "ready"

Goto(c, l) == pc' = [pc EXCEPT ![c] = l]
Fault == faults < MaxFaults /\ faults' = faults + 1 /\ UNCHANGED <<calls, crashes, fresh>>

(* A caller that leaves generate early drops its armed guard, which        *)
(* removes the staging files.                                              *)
Leave(c, l) == Goto(c, l) /\ stage' = [stage EXCEPT ![c] = None]

Ensure(c) ==
    /\ pc[c] \in Ended /\ calls < MaxCalls
    /\ calls' = calls + 1
    /\ advised' = [advised EXCEPT ![c] =
           Inspect = "missing" /\ \A d \in Callers : pc[d] \in Ended]
    /\ seen' = [seen EXCEPT ![c] = private # 0]
    /\ Goto(c, "look")
    /\ UNCHANGED <<private, public, stage, mine, faults, crashes, fresh>>

(* The second look decides: both files, none, or an incomplete identity.   *)
Look(c) ==
    /\ pc[c] = "look"
    /\ Goto(c, IF seen[c] /\ public # 0 THEN "open"
               ELSE IF ~seen[c] /\ public = 0 THEN "generate" ELSE "failed")
    /\ UNCHANGED <<private, public, stage, mine, seen, advised, bounds>>

(* ssh-keygen writes both staging files, which are hardened and validated; *)
(* it may be refused, time out or print something.                         *)
Generate(c) ==
    /\ pc[c] = "generate"
    /\ \/ /\ mine' = [mine EXCEPT ![c] = fresh]
          /\ stage' = [stage EXCEPT ![c] = [private |-> fresh, public |-> fresh]]
          /\ fresh' = fresh + 1
          /\ Goto(c, "private")
          /\ UNCHANGED <<calls, faults, crashes>>
       \/ Fault /\ Leave(c, "failed") /\ UNCHANGED mine
    /\ UNCHANGED <<private, public, seen, advised>>

\* Mistake: the rename replaces an existing private key.
RenamePrivateOver(c) ==
    /\ pc[c] = "private"
    /\ private' = stage[c].private
    /\ stage' = [stage EXCEPT ![c].private = 0]
    /\ Goto(c, "public")
    /\ UNCHANGED <<public, mine, seen, advised, bounds>>

(* rename_new refuses an existing name.                                    *)
RenamePrivate(c) ==
    /\ pc[c] = "private"
    /\ \/ /\ private = 0
          /\ private' = stage[c].private
          /\ stage' = [stage EXCEPT ![c].private = 0]
          /\ Goto(c, "public")
          /\ UNCHANGED bounds
       \/ /\ \/ private # 0 /\ UNCHANGED bounds
             \/ Fault
          /\ Leave(c, "failed") /\ UNCHANGED private
    /\ UNCHANGED <<public, mine, seen, advised>>

RenamePublic(c) ==
    /\ pc[c] = "public"
    /\ \/ /\ public = 0
          /\ public' = stage[c].public
          /\ stage' = [stage EXCEPT ![c].public = 0]
          /\ Goto(c, "sync")
          /\ UNCHANGED bounds
       \/ /\ \/ public # 0 /\ UNCHANGED bounds
             \/ Fault
          /\ Goto(c, "back") /\ UNCHANGED <<public, stage>>
    /\ UNCHANGED <<private, mine, seen, advised>>

(* rename_back returns the private key to its staging name, where the      *)
(* guard finds it; a rename back that fails leaves it in place.            *)
RenameBack(c) ==
    /\ pc[c] = "back"
    /\ \/ private' = 0 /\ UNCHANGED bounds
       \/ Fault /\ UNCHANGED private
    /\ Leave(c, "failed")
    /\ UNCHANGED <<public, mine, seen, advised>>

(* A directory that cannot be synced fails the call with the pair in       *)
(* place; the next call loads it.                                          *)
Sync(c) ==
    /\ pc[c] = "sync"
    /\ \/ Goto(c, "open") /\ UNCHANGED <<stage, bounds>>
       \/ Fault /\ Leave(c, "failed")
    /\ UNCHANGED <<private, public, mine, seen, advised>>

(* validate_pair: open the private key, read the public one, derive one    *)
(* from the other, compare, and look at both files again.                  *)
Open(c) ==
    /\ pc[c] = "open"
    /\ IF private # 0 /\ public # 0 /\ private = public
       THEN Goto(c, "recheck") /\ mine' = [mine EXCEPT ![c] = public]
       ELSE Goto(c, "failed") /\ UNCHANGED mine
    /\ UNCHANGED <<private, public, stage, seen, advised, bounds>>

Recheck(c) ==
    /\ pc[c] = "recheck"
    /\ \/ /\ Goto(c, IF private = mine[c] /\ public = mine[c] THEN "ok" ELSE "failed")
          /\ UNCHANGED bounds
       \/ Fault /\ Goto(c, "failed")
    /\ UNCHANGED <<private, public, stage, mine, seen, advised>>

(* A daemon that ends leaves its staging files; the next daemon's callers  *)
(* know nothing of them.                                                   *)
Crash ==
    /\ crashes < MaxCrashes
    /\ crashes' = crashes + 1
    /\ pc' = [c \in Callers |-> "idle"]
    /\ stage' = [c \in Callers |-> None]
    /\ mine' = [c \in Callers |-> 0]
    /\ advised' = [c \in Callers |-> FALSE]
    /\ UNCHANGED <<private, public, seen, calls, faults, fresh>>

Step(c) ==
    \/ Look(c) \/ Generate(c) \/ RenamePrivate(c) \/ RenamePublic(c)
    \/ RenameBack(c) \/ Sync(c) \/ Open(c) \/ Recheck(c)

Done == calls = MaxCalls /\ (\A c \in Callers : pc[c] \in Ended) /\ UNCHANGED vars

Next == Crash \/ Done \/ \E c \in Callers : Ensure(c) \/ Step(c)

Spec == Init /\ [][Next]_vars

-----------------------------------------------------------------------------
Publishing(c) == pc[c] \in {"public", "back"}

(* The variables have their types; a caller has staging files only while   *)
(* it is publishing, so a call that ended left none behind.                *)
TypeOK ==
    /\ private \in 0..fresh /\ public \in 0..fresh
    /\ pc \in [Callers -> {"look", "generate", "private", "public", "back", "sync", "open", "recheck"} \cup Ended]
    /\ mine \in [Callers -> 0..fresh]
    /\ seen \in [Callers -> BOOLEAN] /\ advised \in [Callers -> BOOLEAN]
    /\ \A c \in Callers : stage[c] # None => pc[c] \in {"private", "public", "back"}

(* Racing generators never mix their pairs: when both files are there they *)
(* belong together (rename_new is exclusive, identity.rs generate).        *)
PairMatches == private # 0 /\ public # 0 => private = public

(* An identity that a caller was given is the identity from then on, so    *)
(* that no later commit finds "managed SSH identity changed after          *)
(* validation" (open_revalidated_identity_async).                          *)
GivenIdentityStays == \A c \in Callers : pc[c] = "ok" => private = mine[c] /\ public = mine[c]

(* Only the caller that put the private key there, a crash or a failed     *)
(* rename back can explain an incomplete identity.                         *)
IncompleteIsInterrupted ==
    Inspect = "missing" /\ crashes = 0 /\ faults < 2 => \E c \in Callers : Publishing(c)

(* One identity: the pair matches, stays what a caller was given, and is   *)
(* incomplete only where an interruption explains it.                      *)
IdentityIsOne == PairMatches /\ GivenIdentityStays /\ IncompleteIsInterrupted

(* Doctor reports an incomplete identity as missing state and names `gascan *)
(* up` as the remedy; an up that follows the advice, alone and without a   *)
(* fault, gets its identity.                                               *)
AdvisedUpSucceeds == faults = 0 => \A c \in Callers : advised[c] => pc[c] # "failed"
-----------------------------------------------------------------------------
(* Proofs, for any number of callers, calls, faults and crashes.  The two  *)
(* exclusive renames are not one step: the invariant says who may stand    *)
(* between them, and that the public key comes last and goes first.        *)

IdentityType ==
    /\ private \in Nat /\ public \in Nat /\ fresh \in Nat \ {0}
    /\ faults \in Nat /\ crashes \in Nat
    /\ pc \in [Callers -> {"look", "generate", "private", "public", "back", "sync", "open",
                           "recheck"} \cup Ended]
    /\ mine \in [Callers -> Nat]
    /\ stage \in [Callers -> [private : Nat, public : Nat]]

\* One caller at a time stands between the renames: it owns the private key
\* and has the public one staged.
OnePublisher ==
    /\ \A c, d \in Callers : Publishing(c) /\ Publishing(d) => c = d
    /\ \A c \in Callers : Publishing(c) =>
          private = mine[c] /\ public = 0 /\ stage[c].public = mine[c] /\ mine[c] # 0

\* What a generator has staged is its own pair.
StagedIsMine ==
    \A c \in Callers : pc[c] = "private" =>
        stage[c].private = mine[c] /\ stage[c].public = mine[c] /\ mine[c] # 0

\* There is no public key without its private key, and a pair that a caller
\* has compared is one.
PublicComesLast ==
    /\ private = 0 => public = 0
    /\ \A c \in Callers : pc[c] \in {"recheck", "ok"} => mine[c] # 0

\* Only a failed rename leads back, as nobody else can have taken the name.
BackIsAFault == \A c \in Callers : pc[c] = "back" => faults > 0

IdentityInvariant ==
    /\ IdentityType /\ OnePublisher /\ StagedIsMine /\ PublicComesLast /\ BackIsAFault
    /\ IdentityIsOne

\* The variables keep their types.
LEMMA IdentityTypeStep ==
    ASSUME IdentityType, [Next]_vars
    PROVE  IdentityType'
<1> USE DEF IdentityType, Goto, Leave, Fault, Ended, None, bounds, vars
<1>1. ASSUME NEW c \in Callers, Ensure(c) PROVE IdentityType'
  BY <1>1 DEF Ensure
<1>2. ASSUME NEW c \in Callers, Look(c) PROVE IdentityType'
  BY <1>2 DEF Look
<1>3. ASSUME NEW c \in Callers, Generate(c) PROVE IdentityType'
  BY <1>3 DEF Generate
<1>4. ASSUME NEW c \in Callers, RenamePrivate(c) PROVE IdentityType'
  <2>1. stage[c].private \in Nat
    OBVIOUS
  <2>2. stage' \in [Callers -> [private : Nat, public : Nat]]
    BY <1>4 DEF RenamePrivate
  <2>3. pc' \in [Callers -> {"look", "generate", "private", "public", "back", "sync", "open",
                             "recheck"} \cup Ended]
    BY <1>4 DEF RenamePrivate
  <2> QED
    BY <1>4, <2>1, <2>2, <2>3 DEF RenamePrivate
<1>5. ASSUME NEW c \in Callers, RenamePublic(c) PROVE IdentityType'
  BY <1>5 DEF RenamePublic
<1>6. ASSUME NEW c \in Callers, RenameBack(c) PROVE IdentityType'
  BY <1>6 DEF RenameBack
<1>7. ASSUME NEW c \in Callers, Sync(c) PROVE IdentityType'
  BY <1>7 DEF Sync
<1>8. ASSUME NEW c \in Callers, Open(c) PROVE IdentityType'
  BY <1>8 DEF Open
<1>9. ASSUME NEW c \in Callers, Recheck(c) PROVE IdentityType'
  BY <1>9 DEF Recheck
<1>10. CASE Crash
  BY <1>10 DEF Crash
<1>11. CASE Done \/ UNCHANGED vars
  BY <1>11 DEF Done
<1> QED
  BY <1>1, <1>2, <1>3, <1>4, <1>5, <1>6, <1>7, <1>8, <1>9, <1>10, <1>11 DEF Next, Step

\* Every step of ensure_host_identity, a crash included, keeps the invariant.
LEMMA IdentityStep ==
    ASSUME IdentityInvariant, [Next]_vars
    PROVE  IdentityInvariant'
<1> DEFINE Rest == /\ OnePublisher /\ StagedIsMine /\ PublicComesLast /\ BackIsAFault
                   /\ IdentityIsOne
<1> USE DEF IdentityInvariant, IdentityType, OnePublisher, StagedIsMine, PublicComesLast,
            BackIsAFault, IdentityIsOne, PairMatches, GivenIdentityStays, IncompleteIsInterrupted,
            Inspect, Publishing, Goto, Leave, Fault, Ended, None, bounds, vars
<1>1. ASSUME NEW c \in Callers, Ensure(c) PROVE Rest'
  BY <1>1 DEF Ensure
<1>2. ASSUME NEW c \in Callers, Look(c) PROVE Rest'
  BY <1>2 DEF Look
<1>3. ASSUME NEW c \in Callers, Generate(c) PROVE Rest'
  <2>1. OnePublisher'
    BY <1>3 DEF Generate
  <2>2. (StagedIsMine /\ PublicComesLast /\ BackIsAFault)'
    BY <1>3 DEF Generate
  <2>3. IdentityIsOne'
    BY <1>3 DEF Generate
  <2> QED
    BY <2>1, <2>2, <2>3
<1>4. ASSUME NEW c \in Callers, RenamePrivate(c) PROVE Rest'
  <2>1. OnePublisher'
    BY <1>4 DEF RenamePrivate
  <2>2. StagedIsMine'
    BY <1>4 DEF RenamePrivate
  <2>3. (PublicComesLast /\ BackIsAFault)'
    BY <1>4 DEF RenamePrivate
  <2>4. IdentityIsOne'
    BY <1>4 DEF RenamePrivate
  <2> QED
    BY <2>1, <2>2, <2>3, <2>4
<1>5. ASSUME NEW c \in Callers, RenamePublic(c) PROVE Rest'
  <2>1. OnePublisher'
    BY <1>5 DEF RenamePublic
  <2>2. (StagedIsMine /\ PublicComesLast /\ BackIsAFault)'
    BY <1>5 DEF RenamePublic
  <2>3. IdentityIsOne'
    BY <1>5 DEF RenamePublic
  <2> QED
    BY <2>1, <2>2, <2>3
<1>6. ASSUME NEW c \in Callers, RenameBack(c) PROVE Rest'
  <2>1. OnePublisher'
    BY <1>6 DEF RenameBack
  <2>2. (StagedIsMine /\ PublicComesLast /\ BackIsAFault)'
    BY <1>6 DEF RenameBack
  <2>3. (PairMatches /\ GivenIdentityStays)'
    BY <1>6 DEF RenameBack
  <2>4. IncompleteIsInterrupted'
    <3>1. faults > 0 /\ public = 0 /\ UNCHANGED public
      BY <1>6 DEF RenameBack
    <3>2. private' = 0 \/ (faults' \in Nat /\ faults' > 1)
      BY <1>6, <3>1 DEF RenameBack
    <3> QED
      BY <3>1, <3>2
  <2> QED
    BY <2>1, <2>2, <2>3, <2>4
<1>7. ASSUME NEW c \in Callers, Sync(c) PROVE Rest'
  BY <1>7 DEF Sync
<1>8. ASSUME NEW c \in Callers, Open(c) PROVE Rest'
  BY <1>8 DEF Open
<1>9. ASSUME NEW c \in Callers, Recheck(c) PROVE Rest'
  BY <1>9 DEF Recheck
<1>10. CASE Crash
  BY <1>10 DEF Crash
<1>11. CASE Done \/ UNCHANGED vars
  BY <1>11 DEF Done
<1>12. IdentityType'
  BY IdentityTypeStep
<1> QED
  BY <1>1, <1>2, <1>3, <1>4, <1>5, <1>6, <1>7, <1>8, <1>9, <1>10, <1>11, <1>12 DEF Next, Step

\* generate: however callers race, fail and crash, the two key files belong
\* together, an identity that was given out stays, and an incomplete one is
\* explained by a caller at work, a crash or two failures.
THEOREM IdentityStaysOne == Spec => []IdentityIsOne
<1>1. Init => IdentityInvariant
  <2> SUFFICES ASSUME Init PROVE IdentityInvariant
    OBVIOUS
  <2>1. IdentityType
    BY DEF Init, IdentityType, Ended, None
  <2>2. OnePublisher /\ StagedIsMine /\ PublicComesLast /\ BackIsAFault
    BY DEF Init, OnePublisher, StagedIsMine, PublicComesLast, BackIsAFault, Publishing
  <2>3. IdentityIsOne
    <3>1. Inspect = "none"
      BY DEF Init, Inspect
    <3> QED
      BY <3>1 DEF Init, IdentityIsOne, PairMatches, GivenIdentityStays, IncompleteIsInterrupted
  <2> QED
    BY <2>1, <2>2, <2>3 DEF IdentityInvariant
<1>2. IdentityInvariant => IdentityIsOne
  BY DEF IdentityInvariant
<1> QED
  BY <1>1, <1>2, IdentityStep, PTL DEF Spec

=============================================================================
