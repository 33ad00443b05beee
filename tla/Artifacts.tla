----------------------------- MODULE Artifacts -----------------------------
(***************************************************************************)
(* `gascan engine fetch` (gascan-core/src/engine_artifacts.rs): the kernel *)
(* and the vminit layout are downloaded into one staging directory,        *)
(* verified, unpacked, verified again and promoted to the live paths.      *)
(* An attempt can fail at any step and can be killed between any two.      *)
(* Nothing locks the staging directory, so attempts may overlap.           *)
(*                                                                         *)
(* Files and directories are objects: what is written through an open      *)
(* descriptor follows the object when it is renamed.  A download is one    *)
(* step.  Contents are told apart by the pin only: what it describes, what *)
(* an earlier pin described, and anything else.                            *)
(***************************************************************************)
EXTENDS Naturals, FiniteSets

CONSTANTS
    Attempts,   \* runs of `gascan engine fetch`
    Overlap,    \* attempts may run at the same time
    Installed,  \* whether an earlier release's artifacts are there already
    MaxFaults   \* failures and kills

None == "none"
Old == "old"
Contents == {"pinned", "earlier", "bad"}

VARIABLES
    pc,       \* [Attempts -> the next step of the attempt]
    good,     \* [Attempts -> what the attempt will return]
    staging,  \* the staging directory, or NoStaging
    kernels,  \* [Attempts \cup {Old} -> the content of the kernel each created]
    layouts,  \* the same for the vminit layouts
    live,     \* the objects at the two live paths
    last,     \* the attempt that started last
    faults

vars == <<pc, good, staging, kernels, layouts, live, last, faults>>
objects == <<kernels, layouts, live>>

NoStaging == [present |-> FALSE, asset |-> None, archive |-> None, kernel |-> None, vminit |-> None]

Init ==
    /\ pc = [a \in Attempts |-> "new"]
    /\ good = [a \in Attempts |-> TRUE]
    /\ staging = NoStaging
    /\ kernels = [x \in Attempts \cup {Old} |-> IF x = Old THEN "earlier" ELSE "bad"]
    /\ layouts = kernels
    /\ live = IF Installed THEN [kernel |-> Old, vminit |-> Old] ELSE [kernel |-> None, vminit |-> None]
    /\ last = None /\ faults = 0

Ended == {"new", "done", "killed"}
Running(a) == pc[a] \notin Ended

(* verify_installed: the same digests the fetch checked, at the live paths. *)
IsPinned(content, object) == object # None /\ content[object] = "pinned"
VerifyInstalled == IsPinned(kernels, live.kernel) /\ IsPinned(layouts, live.vminit)

Goto(a, label) == pc' = [pc EXCEPT ![a] = label]
Fault == faults < MaxFaults /\ faults' = faults + 1

(* An error inside fetch_into: the staging directory is still removed.     *)
Fails(a) == Goto(a, "clean") /\ good' = [good EXCEPT ![a] = FALSE]
Proceeds(a, label) == Goto(a, label) /\ UNCHANGED good

-----------------------------------------------------------------------------
(* fetch: the private root, then the leftover staging directory goes.      *)
Begin(a) ==
    /\ pc[a] = "new"
    /\ Overlap \/ \A b \in Attempts : ~Running(b)
    /\ Proceeds(a, "stage") /\ last' = a
    /\ staging' = NoStaging
    /\ UNCHANGED <<objects, faults>>

(* Creating the directory fails where another attempt was faster.          *)
Stage(a) ==
    /\ pc[a] = "stage"
    /\ IF staging.present
       THEN Goto(a, "done") /\ good' = [good EXCEPT ![a] = FALSE] /\ UNCHANGED staging
       ELSE Proceeds(a, "kernel") /\ staging' = [staging EXCEPT !.present = TRUE]
    /\ UNCHANGED <<objects, last, faults>>

(* Download one asset: it arrives, arrives damaged or does not arrive.     *)
Download(a, from, slot, to) ==
    /\ pc[a] = from
    /\ \/ /\ staging.present
          /\ \/ staging' = [staging EXCEPT ![slot] = "pinned"] /\ UNCHANGED faults
             \/ staging' = [staging EXCEPT ![slot] = "bad"] /\ Fault
          /\ Proceeds(a, to)
       \/ ~staging.present /\ Fails(a) /\ UNCHANGED <<staging, faults>>
       \/ Fails(a) /\ Fault /\ UNCHANGED staging
    /\ UNCHANGED <<objects, last>>

DownloadKernel(a) == Download(a, "kernel", "asset", "kernelArrived")
DownloadVminit(a) == Download(a, "vminit", "archive", "vminitArrived")

\* Mistake: length and digest are not looked at.
RequireNothing(a, from, holds, to) ==
    /\ pc[a] = from
    /\ Proceeds(a, to)
    /\ UNCHANGED <<staging, objects, last, faults>>

(* require_file, require_oci_manifest: length and digest of what is there. *)
Require(a, from, holds, to) ==
    /\ pc[a] = from
    /\ IF holds THEN Proceeds(a, to) ELSE Fails(a)
    /\ UNCHANGED <<staging, objects, last, faults>>

KernelArrived(a) == Require(a, "kernelArrived", staging.asset = "pinned", "gunzip")
VminitArrived(a) == Require(a, "vminitArrived", staging.archive = "pinned", "untar")
KernelUnpacked(a) == Require(a, "kernelUnpacked", IsPinned(kernels, staging.kernel), "vminit")
VminitUnpacked(a) == Require(a, "vminitUnpacked", IsPinned(layouts, staging.vminit), "dropKernel")

(* What a tool makes of an archive; one that has gone is still open.       *)
Unpacked(archive) == IF archive = "bad" THEN "bad" ELSE "pinned"

(* gunzip truncates the destination or creates it, then fills it.          *)
Gunzip(a) ==
    /\ pc[a] = "gunzip"
    /\ IF staging.present
       THEN LET x == IF staging.kernel = None THEN a ELSE staging.kernel
            IN  /\ staging' = [staging EXCEPT !.kernel = x]
                /\ kernels' = [kernels EXCEPT ![x] = "bad"]
                /\ Proceeds(a, IF x = a THEN "gunzips" ELSE "gunzipsOver")
       ELSE Fails(a) /\ UNCHANGED <<staging, kernels>>
    /\ UNCHANGED <<layouts, live, last, faults>>

Gunzipped(a) ==
    /\ pc[a] \in {"gunzips", "gunzipsOver"}
    /\ \/ /\ kernels' = IF pc[a] = "gunzips" THEN [kernels EXCEPT ![a] = Unpacked(staging.asset)] ELSE kernels
          /\ Proceeds(a, "kernelUnpacked") /\ UNCHANGED faults
       \/ Fails(a) /\ Fault /\ UNCHANGED kernels
    /\ UNCHANGED <<staging, layouts, live, last>>

(* tar fills a directory by path, and fails when the path has gone.        *)
Untar(a) ==
    /\ pc[a] = "untar"
    /\ IF staging.present /\ staging.vminit = None
       THEN /\ staging' = [staging EXCEPT !.vminit = a]
            /\ layouts' = [layouts EXCEPT ![a] = "bad"]
            /\ Proceeds(a, "untars")
       ELSE Fails(a) /\ UNCHANGED <<staging, layouts>>
    /\ UNCHANGED <<kernels, live, last, faults>>

Untarred(a) ==
    /\ pc[a] = "untars"
    /\ \/ /\ staging.vminit = a
          /\ layouts' = [layouts EXCEPT ![a] = Unpacked(staging.archive)]
          /\ Proceeds(a, "vminitUnpacked") /\ UNCHANGED faults
       \/ staging.vminit # a /\ Fails(a) /\ UNCHANGED <<layouts, faults>>
       \/ Fails(a) /\ Fault /\ UNCHANGED layouts
    /\ UNCHANGED <<staging, kernels, live, last>>

-----------------------------------------------------------------------------
(* Promotion: remove both live artifacts, then rename both into place.     *)
DropKernel(a) ==
    /\ pc[a] = "dropKernel"
    /\ live' = [live EXCEPT !.kernel = None]
    /\ Proceeds(a, "dropVminit")
    /\ UNCHANGED <<staging, kernels, layouts, last, faults>>

DropVminit(a) ==
    /\ pc[a] = "dropVminit"
    /\ live' = [live EXCEPT !.vminit = None]
    /\ Proceeds(a, "promoteKernel")
    /\ UNCHANGED <<staging, kernels, layouts, last, faults>>

PromoteKernel(a) ==
    /\ pc[a] = "promoteKernel"
    /\ \/ /\ staging.kernel # None
          /\ live' = [live EXCEPT !.kernel = staging.kernel]
          /\ staging' = [staging EXCEPT !.kernel = None]
          /\ Proceeds(a, "promoteVminit") /\ UNCHANGED faults
       \/ staging.kernel = None /\ Fails(a) /\ UNCHANGED <<live, staging, faults>>
       \/ Fails(a) /\ Fault /\ UNCHANGED <<live, staging>>
    /\ UNCHANGED <<kernels, layouts, last>>

(* rename refuses to replace a directory that is not empty.                *)
PromoteVminit(a) ==
    /\ pc[a] = "promoteVminit"
    /\ \/ /\ staging.vminit # None /\ live.vminit = None
          /\ live' = [live EXCEPT !.vminit = staging.vminit]
          /\ staging' = [staging EXCEPT !.vminit = None]
          /\ Proceeds(a, "clean") /\ UNCHANGED faults
       \/ ~(staging.vminit # None /\ live.vminit = None) /\ Fails(a) /\ UNCHANGED <<live, staging, faults>>
       \/ Fails(a) /\ Fault /\ UNCHANGED <<live, staging>>
    /\ UNCHANGED <<kernels, layouts, last>>

Clean(a) ==
    /\ pc[a] = "clean"
    /\ staging' = NoStaging
    /\ Proceeds(a, "done")
    /\ UNCHANGED <<objects, last, faults>>

Step(a) ==
    \/ Begin(a) \/ Stage(a)
    \/ DownloadKernel(a) \/ KernelArrived(a) \/ Gunzip(a) \/ Gunzipped(a) \/ KernelUnpacked(a)
    \/ DownloadVminit(a) \/ VminitArrived(a) \/ Untar(a) \/ Untarred(a) \/ VminitUnpacked(a)
    \/ DropKernel(a) \/ DropVminit(a) \/ PromoteKernel(a) \/ PromoteVminit(a) \/ Clean(a)

(* The command is killed, and its children with it.                        *)
Kill(a) ==
    /\ Running(a) /\ Fault
    /\ Goto(a, "killed")
    /\ UNCHANGED <<good, staging, objects, last>>

Next == \E a \in Attempts : Step(a) \/ Kill(a)

Spec == Init /\ [][Next]_vars

-----------------------------------------------------------------------------
TypeOK ==
    /\ good \in [Attempts -> BOOLEAN]
    /\ staging.present \/ staging = NoStaging
    /\ {staging.asset, staging.archive} \subseteq {None, "pinned", "bad"}
    /\ {staging.kernel, staging.vminit} \subseteq Attempts \cup {None}
    /\ kernels \in [Attempts \cup {Old} -> Contents] /\ layouts \in [Attempts \cup {Old} -> Contents]
    /\ {live.kernel, live.vminit} \subseteq Attempts \cup {None, Old}
    /\ last \in Attempts \cup {None} /\ faults \in 0 .. MaxFaults

(* What fetch says of itself: everything is verified in the staging        *)
(* directory, and "onlyThenDoesItReplaceTheLivePaths".  No live     *)
(* artifact is ever half written or of unknown bytes.                      *)
LiveWasVerified ==
    /\ live.kernel # None => kernels[live.kernel] # "bad"
    /\ live.vminit # None => layouts[live.vminit] # "bad"

(* The live pair is never mixed: a kernel of one pin is never beside the   *)
(* vminit of another, at any moment of a promotion.                        *)
NeverMixed ==
    live.kernel # None /\ live.vminit # None => kernels[live.kernel] = layouts[live.vminit]

(* A fetch that answered success left a pair doctor accepts: after the     *)
(* last attempt ended well, verify_installed holds.                        *)
SuccessIsInstalled ==
    last # None /\ pc[last] = "done" /\ good[last] => VerifyInstalled

(* The staging directory is removed on every exit path: when the last      *)
(* attempt ended and was not killed, nothing of it is left.                *)
NothingLeftBehind ==
    last # None /\ pc[last] = "done" => ~staging.present

(* An attempt that failed or was killed is no obstacle to the next: with   *)
(* fewer faults than attempts, one of them has ended well.                 *)
RetryInstalls ==
    (\A a \in Attempts : pc[a] \in {"done", "killed"}) /\ faults < Cardinality(Attempts) =>
        \E a \in Attempts : pc[a] = "done" /\ good[a]

(* What the fetch promises of the artifacts: what is in use was verified   *)
(* and is of one release, success means installed, nothing is left behind  *)
(* and a failed attempt does not stop the next.                            *)
ArtifactsAreWhole ==
    LiveWasVerified /\ NeverMixed /\ SuccessIsInstalled /\ NothingLeftBehind /\ RetryInstalls

(* What the promotion says: "a reader either sees the previous artifact or *)
(* this one, never a partial".                                             *)
ReaderAlwaysFindsAKernel == Installed => live.kernel # None
=============================================================================
