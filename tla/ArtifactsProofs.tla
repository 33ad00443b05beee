-------------------------- MODULE ArtifactsProofs --------------------------
(***************************************************************************)
(* Proofs about `gascan engine fetch`, for any number of attempts that do  *)
(* not overlap, wherever they fail or are killed.                          *)
(*                                                                         *)
(* The invariant follows the one attempt that runs through its steps:      *)
(* StagingOf says what the staging directory holds at each, PromotionOf    *)
(* what the live paths hold, and LiveIsFinished that nobody writes what is *)
(* in use.  That no attempt hinders the next is a count: every attempt     *)
(* that is doomed has met a fault of its own.                              *)
(***************************************************************************)
EXTENDS Artifacts, FiniteSetTheorems, TLAPS

\* One command at a time; an attempt is neither the earlier release nor nothing.
NonOverlapping == ~Overlap /\ None \notin Attempts /\ Old \notin Attempts

-----------------------------------------------------------------------------
(* The inductive invariant *)

\* The steps of an attempt.
Labels ==
    Ended \cup
    {"stage", "kernel", "kernelArrived", "gunzip", "gunzips", "gunzipsOver", "kernelUnpacked",
     "vminit", "vminitArrived", "untar", "untars", "vminitUnpacked", "dropKernel",
     "dropVminit", "promoteKernel", "promoteVminit", "clean"}

\* Types.
FilesType ==
    /\ kernels \in [Attempts \cup {Old} -> Contents]
    /\ layouts \in [Attempts \cup {Old} -> Contents]
    /\ live \in [kernel : Attempts \cup {None, Old}, vminit : Attempts \cup {None, Old}]

StagingType ==
    staging \in [present : BOOLEAN, asset : {None, "pinned", "bad"},
                 archive : {None, "pinned", "bad"},
                 kernel : Attempts \cup {None}, vminit : Attempts \cup {None}]

AttemptsType ==
    /\ pc \in [Attempts -> Labels] /\ good \in [Attempts -> BOOLEAN]
    /\ last \in Attempts \cup {None}

ArtifactsType == FilesType /\ StagingType /\ AttemptsType

\* One attempt runs at a time, and it is the one that started last.
OneAttempt == \A a \in Attempts : Running(a) => last = a

\* The steps before and after the kernel, and the layout, are unpacked and
\* checked.
BeforeKernel == {"kernel", "kernelArrived", "gunzip"}
KernelChecked == {"vminit", "vminitArrived", "untar", "untars", "vminitUnpacked", "dropKernel",
                  "dropVminit", "promoteKernel"}
BeforeVminit == {"vminit", "vminitArrived", "untar"} \cup BeforeKernel \cup
                {"gunzips", "kernelUnpacked"}
VminitChecked == {"dropKernel", "dropVminit", "promoteKernel", "promoteVminit"}

\* How far an attempt has come, and what the staging directory then holds.
StagingOf(a) ==
    /\ pc[a] = "stage" => staging = NoStaging
    /\ pc[a] \in BeforeKernel => staging.present /\ staging.kernel = None
    /\ pc[a] \in {"gunzips", "kernelUnpacked"} \cup KernelChecked =>
           staging.present /\ staging.kernel = a
    /\ pc[a] \in BeforeVminit => staging.vminit = None
    /\ pc[a] \in {"untars", "vminitUnpacked"} \cup VminitChecked => staging.vminit = a
    /\ pc[a] # "gunzipsOver"

StagingIsMine == \A a \in Attempts : StagingOf(a)

\* What an attempt has checked, or made of what it checked, is in order.
PreparedOf(a) ==
    /\ pc[a] \in {"gunzip", "gunzips"} => staging.asset = "pinned"
    /\ pc[a] \in {"kernelUnpacked"} \cup KernelChecked => kernels[a] = "pinned"
    /\ pc[a] \in {"untar", "untars"} => staging.archive = "pinned"
    /\ pc[a] \in {"vminitUnpacked"} \cup VminitChecked => layouts[a] = "pinned"

\* The stages of a promotion, and what the live paths then hold.
PromotionOf(a) ==
    /\ pc[a] = "dropVminit" => live.kernel = None
    /\ pc[a] = "promoteKernel" => live.kernel = None /\ live.vminit = None
    /\ pc[a] = "promoteVminit" => live.kernel = a /\ live.vminit = None
    /\ pc[a] = "clean" /\ good[a] => VerifyInstalled

PromotionInOrder == \A a \in Attempts : PromotionOf(a)

\* An artifact in use is the earlier release's or of an attempt that verified
\* it and does not touch it any more.
LiveIsFinished ==
    /\ kernels[Old] = "earlier" /\ layouts[Old] = "earlier"
    /\ live.kernel \in Attempts =>
          /\ kernels[live.kernel] = "pinned"
          /\ pc[live.kernel] \in {"promoteVminit", "clean", "done", "killed"}
    /\ live.vminit \in Attempts =>
          /\ layouts[live.vminit] = "pinned"
          /\ pc[live.vminit] \in {"clean", "done", "killed"}
    /\ live.kernel # None /\ live.vminit # None => (live.kernel = Old <=> live.vminit = Old)

\* A step before the promotion: it changes no file of another attempt or release.
Aside(a) ==
    /\ pc[a] \notin {"promoteVminit", "clean", "done", "killed"}
    /\ live'.kernel \in {live.kernel, None} /\ live'.vminit \in {live.vminit, None}
    /\ \A b \in (Attempts \cup {Old}) \ {a} : kernels'[b] = kernels[b] /\ layouts'[b] = layouts[b]

\* An attempt that has not failed yet is good.
GoodSoFar(a) == pc[a] \notin {"clean", "done", "killed"} => good[a] = TRUE

\* An attempt that has failed or is bound to.
Doomed(a) ==
    \/ pc[a] = "killed"
    \/ pc[a] \in {"clean", "done"} /\ good[a] # TRUE
    \/ pc[a] = "kernelArrived" /\ staging.asset # "pinned"
    \/ pc[a] = "vminitArrived" /\ staging.archive # "pinned"

DoomIsPaidFor ==
    /\ \A a \in Attempts : PreparedOf(a) /\ GoodSoFar(a)
    /\ faults \in Nat
    /\ Cardinality({a \in Attempts : Doomed(a)}) <= faults

FetchInvariant ==
    /\ ArtifactsType /\ OneAttempt /\ StagingIsMine /\ PromotionInOrder /\ LiveIsFinished
    /\ SuccessIsInstalled /\ NothingLeftBehind /\ DoomIsPaidFor

-----------------------------------------------------------------------------
(* Every step keeps the invariant *)

\* The files keep their types.
LEMMA FilesTypeStep ==
    ASSUME NonOverlapping, NEW a \in Attempts, Step(a) \/ Kill(a),
           ArtifactsType
    PROVE  FilesType'
<1> USE DEF NonOverlapping, ArtifactsType, FilesType, StagingType, Contents, Goto, Fault,
           Fails, Proceeds, objects
<1>1. CASE Begin(a) \/ Stage(a) \/ DownloadKernel(a) \/ KernelArrived(a) \/
            KernelUnpacked(a) \/ DownloadVminit(a) \/ VminitArrived(a) \/ VminitUnpacked(a)
            \/ Clean(a) \/ Kill(a)
  BY <1>1 DEF Begin, Stage, DownloadKernel, Download, KernelArrived, Require,
     KernelUnpacked, DownloadVminit, VminitArrived, VminitUnpacked, Clean, Kill
<1>2. CASE Gunzip(a)
  BY <1>2 DEF Gunzip
<1>3. CASE Gunzipped(a)
  BY <1>3 DEF Gunzipped, Unpacked
<1>4. CASE Untar(a)
  BY <1>4 DEF Untar
<1>5. CASE Untarred(a)
  BY <1>5 DEF Untarred, Unpacked
<1>6. CASE DropKernel(a) \/ DropVminit(a)
  BY <1>6 DEF DropKernel, DropVminit
<1>7. CASE PromoteKernel(a)
  BY <1>7 DEF PromoteKernel
<1>8. CASE PromoteVminit(a)
  BY <1>8 DEF PromoteVminit
<1> QED
  BY <1>1, <1>2, <1>3, <1>4, <1>5, <1>6, <1>7, <1>8 DEF Step

\* The staging directory keeps its type.
LEMMA StagingTypeStep ==
    ASSUME NonOverlapping, NEW a \in Attempts, Step(a) \/ Kill(a),
           ArtifactsType
    PROVE  StagingType'
<1> USE DEF NonOverlapping, ArtifactsType, StagingType, NoStaging, Goto, Fault, Fails,
           Proceeds, objects
<1>1. CASE Begin(a)
  BY <1>1 DEF Begin
<1>2. CASE Stage(a)
  BY <1>2, Zenon DEF Stage
<1>3. CASE DownloadKernel(a)
  BY <1>3 DEF DownloadKernel, Download
<1>4. CASE KernelArrived(a) \/ KernelUnpacked(a) \/ VminitArrived(a) \/ VminitUnpacked(a)
  BY <1>4 DEF KernelArrived, Require, KernelUnpacked, VminitArrived, VminitUnpacked
<1>5. CASE Gunzip(a)
  BY <1>5 DEF Gunzip
<1>6. CASE Gunzipped(a) \/ Untarred(a)
  BY <1>6 DEF Gunzipped, Unpacked, Untarred
<1>7. CASE DownloadVminit(a)
  BY <1>7 DEF DownloadVminit, Download
<1>8. CASE Untar(a)
  BY <1>8 DEF Untar
<1>9. CASE DropKernel(a) \/ DropVminit(a)
  BY <1>9 DEF DropKernel, DropVminit
<1>10. CASE PromoteKernel(a)
  BY <1>10 DEF PromoteKernel
<1>11. CASE PromoteVminit(a)
  BY <1>11 DEF PromoteVminit
<1>12. CASE Clean(a)
  BY <1>12 DEF Clean
<1>13. CASE Kill(a)
  BY <1>13 DEF Kill
<1> QED
  BY <1>1, <1>2, <1>3, <1>4, <1>5, <1>6, <1>7, <1>8, <1>9, <1>10, <1>11, <1>12, <1>13 DEF
     Step

\* The attempts keep their types.
LEMMA AttemptsTypeStep ==
    ASSUME NonOverlapping, NEW a \in Attempts, Step(a) \/ Kill(a),
           ArtifactsType
    PROVE  AttemptsType'
<1> USE DEF NonOverlapping, ArtifactsType, AttemptsType, Labels, Ended, Goto, Fault, Fails,
           Proceeds, objects
<1>1. CASE Begin(a)
  BY <1>1 DEF Begin
<1>2. CASE Stage(a)
  BY <1>2, Zenon DEF Stage
<1>3. CASE DownloadKernel(a) \/ DownloadVminit(a)
  BY <1>3, Zenon DEF DownloadKernel, Download, DownloadVminit
<1>4. CASE KernelArrived(a) \/ KernelUnpacked(a) \/ VminitArrived(a) \/ VminitUnpacked(a)
  BY <1>4, Zenon DEF KernelArrived, Require, KernelUnpacked, VminitArrived, VminitUnpacked
<1>5. CASE Gunzip(a) \/ Untar(a)
  BY <1>5, Zenon DEF Gunzip, Untar
<1>6. CASE Gunzipped(a)
  BY <1>6, Zenon DEF Gunzipped, Unpacked
<1>7. CASE Untarred(a)
  BY <1>7, Zenon DEF Untarred, Unpacked
<1>8. CASE DropKernel(a) \/ DropVminit(a)
  BY <1>8 DEF DropKernel, DropVminit
<1>9. CASE PromoteKernel(a) \/ PromoteVminit(a)
  BY <1>9, Zenon DEF PromoteKernel, PromoteVminit
<1>10. CASE Clean(a) \/ Kill(a)
  BY <1>10 DEF Clean, Kill
<1> QED
  BY <1>1, <1>2, <1>3, <1>4, <1>5, <1>6, <1>7, <1>8, <1>9, <1>10 DEF Step

\* Nobody starts beside an attempt that runs.
LEMMA OneAttemptStep ==
    ASSUME NonOverlapping, NEW a \in Attempts, Step(a) \/ Kill(a),
           ArtifactsType, OneAttempt
    PROVE  OneAttempt'
<1> USE DEF NonOverlapping, ArtifactsType, AttemptsType, OneAttempt, Running, Ended, Goto,
           Fault, Fails, Proceeds, objects
<1>1. CASE Begin(a)
  BY <1>1 DEF Begin
<1>2. CASE Stage(a)
  BY <1>2 DEF Stage
<1>3. CASE DownloadKernel(a) \/ DownloadVminit(a)
  BY <1>3 DEF DownloadKernel, Download, DownloadVminit
<1>4. CASE KernelArrived(a) \/ KernelUnpacked(a) \/ VminitArrived(a) \/ VminitUnpacked(a)
  BY <1>4 DEF KernelArrived, Require, KernelUnpacked, VminitArrived, VminitUnpacked
<1>5. CASE Gunzip(a) \/ Untar(a)
  BY <1>5 DEF Gunzip, Untar
<1>6. CASE Gunzipped(a) \/ Untarred(a)
  BY <1>6 DEF Gunzipped, Unpacked, Untarred
<1>7. CASE DropKernel(a) \/ DropVminit(a)
  BY <1>7 DEF DropKernel, DropVminit
<1>8. CASE PromoteKernel(a) \/ PromoteVminit(a)
  BY <1>8 DEF PromoteKernel, PromoteVminit
<1>9. CASE Clean(a) \/ Kill(a)
  BY <1>9 DEF Clean, Kill
<1> QED
  BY <1>1, <1>2, <1>3, <1>4, <1>5, <1>6, <1>7, <1>8, <1>9 DEF Step

\* The other attempts have ended or not begun, and stay as they are.
LEMMA OthersRest ==
    ASSUME NonOverlapping, NEW a \in Attempts, Step(a) \/ Kill(a),
           ArtifactsType, OneAttempt
    PROVE  \A b \in Attempts \ {a} : pc[b] \in Ended /\ pc'[b] = pc[b] /\ good'[b] = good[b]
<1> USE DEF NonOverlapping, ArtifactsType, AttemptsType, OneAttempt, Running, Ended, Goto,
           Fault, Fails, Proceeds, objects
<1>1. CASE Begin(a)
  BY <1>1 DEF Begin
<1>2. CASE Stage(a)
  BY <1>2 DEF Stage
<1>3. CASE DownloadKernel(a) \/ DownloadVminit(a)
  BY <1>3 DEF DownloadKernel, Download, DownloadVminit
<1>4. CASE KernelArrived(a) \/ KernelUnpacked(a) \/ VminitArrived(a) \/ VminitUnpacked(a)
  BY <1>4 DEF KernelArrived, Require, KernelUnpacked, VminitArrived, VminitUnpacked
<1>5. CASE Gunzip(a) \/ Untar(a)
  BY <1>5 DEF Gunzip, Untar
<1>6. CASE Gunzipped(a) \/ Untarred(a)
  BY <1>6 DEF Gunzipped, Unpacked, Untarred
<1>7. CASE DropKernel(a) \/ DropVminit(a)
  BY <1>7 DEF DropKernel, DropVminit
<1>8. CASE PromoteKernel(a) \/ PromoteVminit(a)
  BY <1>8 DEF PromoteKernel, PromoteVminit
<1>9. CASE Clean(a) \/ Kill(a)
  BY <1>9 DEF Clean, Kill
<1> QED
  BY <1>1, <1>2, <1>3, <1>4, <1>5, <1>6, <1>7, <1>8, <1>9 DEF Step

\* Where a step with several outcomes leads.
LEMMA Outcomes ==
    ASSUME AttemptsType, StagingType, FilesType, NEW a \in Attempts
    PROVE  /\ DownloadKernel(a) => pc'[a] \in {"kernelArrived", "clean"}
           /\ DownloadVminit(a) => pc'[a] \in {"vminitArrived", "clean"}
           /\ Untarred(a) => pc'[a] \in {"vminitUnpacked", "clean"}
           /\ PromoteKernel(a) =>
                 \/ pc'[a] = "promoteVminit" /\ live'.kernel = staging.kernel
                 \/ pc'[a] = "clean" /\ good'[a] = FALSE /\ live' = live
           /\ PromoteVminit(a) =>
                 \/ pc'[a] = "clean" /\ live'.vminit = staging.vminit /\ live'.kernel = live.kernel
                 \/ pc'[a] = "clean" /\ good'[a] = FALSE /\ live' = live
<1> USE DEF AttemptsType, Goto, Fails, Proceeds
<1>1. DownloadKernel(a) => pc'[a] \in {"kernelArrived", "clean"}
  BY DEF DownloadKernel, Download
<1>2. DownloadVminit(a) => pc'[a] \in {"vminitArrived", "clean"}
  BY DEF DownloadVminit, Download
<1>3. Untarred(a) => pc'[a] \in {"vminitUnpacked", "clean"}
  BY DEF Untarred
<1>4. PromoteKernel(a) =>
          \/ pc'[a] = "promoteVminit" /\ live'.kernel = staging.kernel
          \/ pc'[a] = "clean" /\ good'[a] = FALSE /\ live' = live
  BY DEF PromoteKernel, FilesType
<1>5. PromoteVminit(a) =>
          \/ pc'[a] = "clean" /\ live'.vminit = staging.vminit /\ live'.kernel = live.kernel
          \/ pc'[a] = "clean" /\ good'[a] = FALSE /\ live' = live
  BY DEF PromoteVminit, FilesType
<1> QED
  BY <1>1, <1>2, <1>3, <1>4, <1>5

\* A step finds in the staging directory what the steps before it left there.
LEMMA StagingStep ==
    ASSUME NonOverlapping, NEW a \in Attempts, Step(a) \/ Kill(a),
           ArtifactsType, OneAttempt, StagingOf(a)
    PROVE  StagingOf(a)'
<1> USE DEF NonOverlapping, ArtifactsType, StagingType, AttemptsType, StagingOf, NoStaging,
           BeforeKernel, KernelChecked, BeforeVminit, VminitChecked, Goto, Fault, Fails,
           Proceeds, objects
<1>1. CASE Begin(a)
  BY <1>1 DEF Begin
<1>2. CASE Stage(a)
  BY <1>2 DEF Stage
<1>3. CASE DownloadKernel(a)
  <2>1. staging'.kernel = staging.kernel /\ staging'.vminit = staging.vminit
    BY <1>3 DEF DownloadKernel, Download
  <2>2. staging.present /\ staging'.present
    BY <1>3 DEF DownloadKernel, Download
  <2> QED
    BY Outcomes, <1>3, <2>1, <2>2 DEF DownloadKernel, Download
<1>4. CASE KernelArrived(a) \/ KernelUnpacked(a)
  BY <1>4 DEF KernelArrived, Require, KernelUnpacked
<1>5. CASE Gunzip(a)
  BY <1>5 DEF Gunzip
<1>6. CASE Gunzipped(a)
  BY <1>6 DEF Gunzipped, Unpacked
<1>7. CASE DownloadVminit(a)
  <2>1. staging'.kernel = staging.kernel /\ staging'.vminit = staging.vminit
    BY <1>7 DEF DownloadVminit, Download
  <2>2. staging.present /\ staging'.present
    BY <1>7 DEF DownloadVminit, Download
  <2> QED
    BY Outcomes, <1>7, <2>1, <2>2 DEF DownloadVminit, Download
<1>8. CASE VminitArrived(a) \/ VminitUnpacked(a)
  BY <1>8 DEF VminitArrived, Require, VminitUnpacked
<1>9. CASE Untar(a)
  BY <1>9 DEF Untar
<1>10. CASE Untarred(a)
  BY <1>10 DEF Untarred, Unpacked
<1>11. CASE DropKernel(a) \/ DropVminit(a)
  BY <1>11 DEF DropKernel, DropVminit
<1>12. CASE PromoteKernel(a)
  BY <1>12 DEF PromoteKernel
<1>13. CASE PromoteVminit(a)
  BY <1>13 DEF PromoteVminit
<1>14. CASE Clean(a) \/ Kill(a)
  BY <1>14 DEF Clean, Kill
<1> QED
  BY <1>1, <1>2, <1>3, <1>4, <1>5, <1>6, <1>7, <1>8, <1>9, <1>10, <1>11, <1>12, <1>13, <1>14
     DEF Step

\* What was found in order stays in order.
LEMMA PreparedStep ==
    ASSUME NonOverlapping, NEW a \in Attempts, Step(a) \/ Kill(a),
           ArtifactsType, OneAttempt, StagingOf(a), PreparedOf(a)
    PROVE  PreparedOf(a)'
<1> USE DEF NonOverlapping, ArtifactsType, StagingType, AttemptsType, PreparedOf,
           KernelChecked, VminitChecked, Goto, Fault, Fails, Proceeds, objects
<1>1. CASE Begin(a)
  BY <1>1 DEF Begin
<1>2. CASE Stage(a)
  BY <1>2 DEF Stage
<1>3. CASE DownloadKernel(a)
  BY <1>3 DEF DownloadKernel, Download
<1>4. CASE KernelArrived(a)
  BY <1>4 DEF KernelArrived, Require
<1>5. CASE Gunzip(a)
  BY <1>5 DEF Gunzip
<1>6. CASE Gunzipped(a)
  BY <1>6 DEF Gunzipped, Unpacked, FilesType, StagingOf
<1>7. CASE KernelUnpacked(a)
  BY <1>7 DEF KernelUnpacked, Require
<1>8. CASE DownloadVminit(a)
  BY <1>8 DEF DownloadVminit, Download
<1>9. CASE VminitArrived(a)
  BY <1>9 DEF VminitArrived, Require
<1>10. CASE Untar(a)
  BY <1>10 DEF Untar
<1>11. CASE Untarred(a)
  BY <1>11 DEF Untarred, Unpacked, FilesType, StagingOf
<1>12. CASE VminitUnpacked(a)
  BY <1>12 DEF VminitUnpacked, Require
<1>13. CASE DropKernel(a) \/ DropVminit(a)
  BY <1>13 DEF DropKernel, DropVminit
<1>14. CASE PromoteKernel(a)
  BY <1>14 DEF PromoteKernel
<1>15. CASE PromoteVminit(a)
  BY <1>15 DEF PromoteVminit
<1>16. CASE Clean(a) \/ Kill(a)
  BY <1>16 DEF Clean, Kill
<1> QED
  BY <1>1, <1>2, <1>3, <1>4, <1>5, <1>6, <1>7, <1>8, <1>9, <1>10, <1>11, <1>12, <1>13,
     <1>14, <1>15, <1>16 DEF Step

\* The live paths are emptied before they are filled, and filled with what was
\* verified.
LEMMA PromotionStep ==
    ASSUME NonOverlapping, NEW a \in Attempts, Step(a) \/ Kill(a),
           ArtifactsType, OneAttempt, StagingOf(a), PreparedOf(a),
           PromotionOf(a), LiveIsFinished
    PROVE  PromotionOf(a)'
<1> USE DEF NonOverlapping, ArtifactsType, FilesType, StagingType, AttemptsType, StagingOf,
           PreparedOf, PromotionOf, VerifyInstalled, IsPinned, LiveIsFinished, BeforeKernel,
           KernelChecked, BeforeVminit, VminitChecked, Goto, Fault, Fails, Proceeds, objects
<1>1. CASE Begin(a) \/ Stage(a)
  BY <1>1 DEF Begin, Stage
<1>2. CASE DownloadKernel(a) \/ DownloadVminit(a)
  BY <1>2 DEF DownloadKernel, Download, DownloadVminit
<1>3. CASE KernelArrived(a) \/ KernelUnpacked(a) \/ VminitArrived(a) \/ VminitUnpacked(a)
  BY <1>3 DEF KernelArrived, Require, KernelUnpacked, VminitArrived, VminitUnpacked
<1>4. CASE Gunzip(a)
  BY <1>4 DEF Gunzip
<1>5. CASE Gunzipped(a)
  BY <1>5 DEF Gunzipped, Unpacked
<1>6. CASE Untar(a)
  BY <1>6 DEF Untar
<1>7. CASE Untarred(a)
  BY <1>7 DEF Untarred, Unpacked
<1>8. CASE DropKernel(a) \/ DropVminit(a)
  BY <1>8 DEF DropKernel, DropVminit
<1>9. CASE PromoteKernel(a)
  BY <1>9 DEF PromoteKernel
<1>10. CASE PromoteVminit(a)
  <2>1. /\ live.kernel = a /\ kernels[a] = "pinned"
        /\ staging.vminit = a /\ layouts[a] = "pinned"
        /\ UNCHANGED <<kernels, layouts>>
    BY <1>10 DEF PromoteVminit
  <2> HIDE DEF ArtifactsType, StagingOf, LiveIsFinished
  <2>2. CASE live'.vminit = staging.vminit /\ live'.kernel = live.kernel /\ pc'[a] = "clean"
    BY <2>1, <2>2
  <2>3. CASE pc'[a] = "clean" /\ good'[a] = FALSE
    BY <2>3
  <2> QED
    BY Outcomes, <1>10, <2>2, <2>3, Zenon DEF ArtifactsType
<1>11. CASE Clean(a) \/ Kill(a)
  BY <1>11 DEF Clean, Kill
<1> QED
  BY <1>1, <1>2, <1>3, <1>4, <1>5, <1>6, <1>7, <1>8, <1>9, <1>10, <1>11 DEF Step

\* Apart from the promotion and the end, a step writes only files of its own,
\* puts nothing at the live paths, and is taken before the promotion.
LEMMA StepsAside ==
    ASSUME NonOverlapping, NEW a \in Attempts, Step(a) \/ Kill(a),
           ArtifactsType, StagingOf(a)
    PROVE  \/ PromoteKernel(a) \/ PromoteVminit(a) \/ Clean(a) \/ Kill(a)
           \/ Aside(a)
<1> USE DEF NonOverlapping, ArtifactsType, FilesType, StagingType, AttemptsType, StagingOf,
           Aside, BeforeKernel, KernelChecked, BeforeVminit, VminitChecked, Goto, Fault,
           Fails, Proceeds, objects
<1>1. CASE Begin(a)
  BY <1>1 DEF Begin
<1>2. CASE Stage(a)
  BY <1>2 DEF Stage
<1>3. CASE DownloadKernel(a) \/ DownloadVminit(a)
  BY <1>3 DEF DownloadKernel, Download, DownloadVminit
<1>4. CASE KernelArrived(a) \/ KernelUnpacked(a) \/ VminitArrived(a) \/ VminitUnpacked(a)
  BY <1>4 DEF KernelArrived, Require, KernelUnpacked, VminitArrived, VminitUnpacked
<1>5. CASE Gunzip(a)
  BY <1>5 DEF Gunzip
<1>6. CASE Gunzipped(a)
  BY <1>6 DEF Gunzipped, Unpacked
<1>7. CASE Untar(a)
  BY <1>7 DEF Untar
<1>8. CASE Untarred(a)
  BY <1>8 DEF Untarred, Unpacked
<1>9. CASE DropKernel(a)
  BY <1>9 DEF DropKernel
<1>10. CASE DropVminit(a)
  BY <1>10 DEF DropVminit
<1>11. CASE PromoteKernel(a) \/ PromoteVminit(a) \/ Clean(a) \/ Kill(a)
  BY <1>11 DEF PromoteKernel, PromoteVminit, Clean, Kill
<1> QED
  BY <1>1, <1>2, <1>3, <1>4, <1>5, <1>6, <1>7, <1>8, <1>9, <1>10, <1>11, Zenon DEF Step

\* A step writes no file that is in use.
LEMMA LiveStep ==
    ASSUME NonOverlapping, NEW a \in Attempts, Step(a) \/ Kill(a),
           ArtifactsType, OneAttempt, StagingOf(a), PreparedOf(a),
           PromotionOf(a), LiveIsFinished
    PROVE  LiveIsFinished'
<1> USE DEF NonOverlapping, ArtifactsType, FilesType, StagingType, AttemptsType, StagingOf,
            PreparedOf, PromotionOf, LiveIsFinished, BeforeKernel, KernelChecked, BeforeVminit,
            VminitChecked, Goto, Fault, Fails, Proceeds, objects
<1>1. CASE Aside(a)
  <2>1. live.kernel # a /\ live.vminit # a
    BY <1>1 DEF Aside
  <2> HIDE DEF StagingType, StagingOf, PreparedOf, PromotionOf
  <2>2. /\ live'.kernel \in {live.kernel, None} /\ live'.vminit \in {live.vminit, None}
        /\ \A b \in (Attempts \cup {Old}) \ {a} :
              kernels'[b] = kernels[b] /\ layouts'[b] = layouts[b]
    BY <1>1 DEF Aside
  <2>3. \A b \in Attempts \ {a} : pc'[b] = pc[b]
    BY OthersRest
  <2> QED
    BY <2>1, <2>2, <2>3
<1>2. CASE PromoteKernel(a)
  <2>1. /\ staging.kernel = a /\ kernels[a] = "pinned" /\ live.vminit = None
        /\ live'.vminit = live.vminit /\ UNCHANGED <<kernels, layouts>>
    BY <1>2 DEF PromoteKernel
  <2>2. CASE pc'[a] = "promoteVminit" /\ live'.kernel = staging.kernel
    <3> HIDE DEF ArtifactsType, StagingOf, PromotionOf
    <3> QED
      BY <2>1, <2>2
  <2>3. CASE pc'[a] = "clean" /\ live' = live
    BY <1>2, <2>1, <2>3, OthersRest DEF PromoteKernel
  <2> QED
    BY Outcomes, <1>2, <2>2, <2>3, Zenon
<1>3. CASE PromoteVminit(a)
  <2>1. /\ staging.vminit = a /\ layouts[a] = "pinned" /\ live.kernel = a /\ live.vminit = None
        /\ kernels[a] = "pinned" /\ UNCHANGED <<kernels, layouts>>
    BY <1>3 DEF PromoteVminit
  <2>2. CASE pc'[a] = "clean" /\ live'.vminit = staging.vminit /\ live'.kernel = live.kernel
    <3> HIDE DEF ArtifactsType, StagingOf, PromotionOf
    <3> QED
      BY <2>1, <2>2
  <2>3. CASE pc'[a] = "clean" /\ live' = live
    <3> HIDE DEF ArtifactsType, StagingOf, PromotionOf
    <3> QED
      BY <2>1, <2>3
  <2> QED
    BY Outcomes, <1>3, <2>2, <2>3, Zenon
<1>4. CASE Clean(a) \/ Kill(a)
  <2>1. UNCHANGED <<live, kernels, layouts>> /\ pc'[a] \in {"done", "killed"}
    BY <1>4 DEF Clean, Kill
  <2> HIDE DEF StagingType, StagingOf, PreparedOf, PromotionOf
  <2>2. \A b \in Attempts \ {a} : pc'[b] = pc[b]
    BY OthersRest
  <2> QED
    BY <2>1, <2>2
<1> QED
  BY StepsAside, <1>1, <1>2, <1>3, <1>4

\* Nobody touches the live paths after an attempt that ended well, until the next
\* one begins.
LEMMA SuccessStep ==
    ASSUME NonOverlapping, NEW a \in Attempts, Step(a) \/ Kill(a),
           ArtifactsType, OneAttempt, PromotionOf(a), SuccessIsInstalled
    PROVE  SuccessIsInstalled'
<1> USE DEF NonOverlapping, ArtifactsType, FilesType, StagingType, AttemptsType,
           SuccessIsInstalled, VerifyInstalled, IsPinned, OneAttempt, Running, Ended,
           PromotionOf, Goto, Fault, Fails, Proceeds, objects
<1>1. CASE Begin(a)
  BY <1>1 DEF Begin
<1>2. CASE Stage(a)
  BY <1>2 DEF Stage
<1>3. CASE DownloadKernel(a) \/ DownloadVminit(a)
  BY <1>3 DEF DownloadKernel, Download, DownloadVminit
<1>4. CASE KernelArrived(a) \/ KernelUnpacked(a) \/ VminitArrived(a) \/ VminitUnpacked(a)
  BY <1>4 DEF KernelArrived, Require, KernelUnpacked, VminitArrived, VminitUnpacked
<1>5. CASE Gunzip(a)
  BY <1>5 DEF Gunzip
<1>6. CASE Gunzipped(a)
  BY <1>6 DEF Gunzipped, Unpacked
<1>7. CASE Untar(a)
  BY <1>7 DEF Untar
<1>8. CASE Untarred(a)
  BY <1>8 DEF Untarred, Unpacked
<1>9. CASE DropKernel(a) \/ DropVminit(a)
  BY <1>9 DEF DropKernel, DropVminit
<1>10. CASE PromoteKernel(a)
  BY <1>10 DEF PromoteKernel
<1>11. CASE PromoteVminit(a)
  BY <1>11 DEF PromoteVminit
<1>12. CASE Clean(a) \/ Kill(a)
  BY <1>12 DEF Clean, Kill
<1> QED
  BY <1>1, <1>2, <1>3, <1>4, <1>5, <1>6, <1>7, <1>8, <1>9, <1>10, <1>11, <1>12 DEF Step

\* An attempt that ended has removed its directory, and nobody made another.
LEMMA LeftStep ==
    ASSUME NonOverlapping, NEW a \in Attempts, Step(a) \/ Kill(a),
           ArtifactsType, OneAttempt, StagingOf(a), NothingLeftBehind
    PROVE  NothingLeftBehind'
<1> USE DEF NonOverlapping, ArtifactsType, AttemptsType, StagingType, OneAttempt, Running,
           Ended, NothingLeftBehind, NoStaging, Goto, Fault, Fails, Proceeds, objects
<1>1. CASE Begin(a)
  BY <1>1 DEF Begin
<1>2. CASE Stage(a)
  <2>1. last' = a
    BY <1>2 DEF Stage
  <2>2. pc'[a] # "done"
    BY <1>2 DEF Stage, StagingOf
  <2> QED
    BY <2>1, <2>2
<1>3. CASE DownloadKernel(a)
  BY <1>3 DEF DownloadKernel, Download
<1>4. CASE KernelArrived(a)
  BY <1>4 DEF KernelArrived, Require
<1>5. CASE Gunzip(a)
  BY <1>5 DEF Gunzip
<1>6. CASE Gunzipped(a)
  BY <1>6 DEF Gunzipped, Unpacked
<1>7. CASE KernelUnpacked(a)
  BY <1>7 DEF KernelUnpacked, Require
<1>8. CASE DownloadVminit(a)
  BY <1>8 DEF DownloadVminit, Download
<1>9. CASE VminitArrived(a)
  BY <1>9 DEF VminitArrived, Require
<1>10. CASE Untar(a)
  BY <1>10 DEF Untar
<1>11. CASE Untarred(a)
  BY <1>11 DEF Untarred, Unpacked
<1>12. CASE VminitUnpacked(a)
  BY <1>12 DEF VminitUnpacked, Require
<1>13. CASE DropKernel(a)
  BY <1>13 DEF DropKernel
<1>14. CASE DropVminit(a)
  BY <1>14 DEF DropVminit
<1>15. CASE PromoteKernel(a)
  BY <1>15 DEF PromoteKernel
<1>16. CASE PromoteVminit(a)
  BY <1>16 DEF PromoteVminit
<1>17. CASE Clean(a)
  BY <1>17 DEF Clean
<1>18. CASE Kill(a)
  BY <1>18 DEF Kill
<1> QED
  BY <1>1, <1>2, <1>3, <1>4, <1>5, <1>6, <1>7, <1>8, <1>9, <1>10, <1>11, <1>12, <1>13,
     <1>14, <1>15, <1>16, <1>17, <1>18 DEF Step

\* An attempt is good until it fails.
LEMMA GoodStep ==
    ASSUME NonOverlapping, NEW a \in Attempts, Step(a) \/ Kill(a),
           ArtifactsType, OneAttempt, GoodSoFar(a)
    PROVE  GoodSoFar(a)'
<1> USE DEF NonOverlapping, ArtifactsType, AttemptsType, GoodSoFar, Labels, Ended, Goto,
           Fault, Fails, Proceeds, objects
<1>1. CASE Begin(a)
  BY <1>1 DEF Begin
<1>2. CASE Stage(a)
  BY <1>2 DEF Stage
<1>3. CASE DownloadKernel(a)
  BY <1>3 DEF DownloadKernel, Download
<1>4. CASE KernelArrived(a)
  BY <1>4 DEF KernelArrived, Require
<1>5. CASE Gunzip(a)
  BY <1>5 DEF Gunzip
<1>6. CASE Gunzipped(a)
  BY <1>6 DEF Gunzipped, Unpacked
<1>7. CASE KernelUnpacked(a)
  BY <1>7 DEF KernelUnpacked, Require
<1>8. CASE DownloadVminit(a)
  BY <1>8 DEF DownloadVminit, Download
<1>9. CASE VminitArrived(a)
  BY <1>9 DEF VminitArrived, Require
<1>10. CASE Untar(a)
  BY <1>10 DEF Untar
<1>11. CASE Untarred(a)
  BY <1>11 DEF Untarred, Unpacked
<1>12. CASE VminitUnpacked(a)
  BY <1>12 DEF VminitUnpacked, Require
<1>13. CASE DropKernel(a)
  BY <1>13 DEF DropKernel
<1>14. CASE DropVminit(a)
  BY <1>14 DEF DropVminit
<1>15. CASE PromoteKernel(a)
  BY <1>15 DEF PromoteKernel
<1>16. CASE PromoteVminit(a)
  BY <1>16 DEF PromoteVminit
<1>17. CASE Clean(a)
  BY <1>17 DEF Clean
<1>18. CASE Kill(a)
  BY <1>18 DEF Kill
<1> QED
  BY <1>1, <1>2, <1>3, <1>4, <1>5, <1>6, <1>7, <1>8, <1>9, <1>10, <1>11, <1>12, <1>13, Zenon,
     <1>14, <1>15, <1>16, <1>17, <1>18 DEF Step

\* An attempt is doomed by a fault only.
LEMMA DoomStep ==
    ASSUME NonOverlapping, NEW a \in Attempts, Step(a) \/ Kill(a),
           ArtifactsType, OneAttempt, StagingOf(a), PromotionOf(a), PreparedOf(a),
           GoodSoFar(a), faults \in Nat
    PROVE  /\ faults' = faults \/ faults' = faults + 1
           /\ Doomed(a)' => Doomed(a) \/ faults' = faults + 1
<1> USE DEF NonOverlapping, ArtifactsType, FilesType, StagingType, AttemptsType, StagingOf,
           PromotionOf, PreparedOf, GoodSoFar, Doomed, NoStaging, IsPinned, BeforeKernel,
           KernelChecked, BeforeVminit, VminitChecked, Goto, Fault, Fails, Proceeds, objects
<1>1. CASE Begin(a)
  BY <1>1 DEF Begin
<1>2. CASE Stage(a)
  BY <1>2 DEF Stage
<1>3. CASE DownloadKernel(a)
  BY <1>3, Zenon DEF DownloadKernel, Download
<1>4. CASE KernelArrived(a)
  BY <1>4, Zenon DEF KernelArrived, Require
<1>5. CASE Gunzip(a)
  BY <1>5 DEF Gunzip
<1>6. CASE Gunzipped(a)
  BY <1>6, Zenon DEF Gunzipped, Unpacked
<1>7. CASE KernelUnpacked(a)
  BY <1>7, Zenon DEF KernelUnpacked, Require
<1>8. CASE DownloadVminit(a)
  BY <1>8, Zenon DEF DownloadVminit, Download
<1>9. CASE VminitArrived(a)
  BY <1>9, Zenon DEF VminitArrived, Require
<1>10. CASE Untar(a)
  BY <1>10 DEF Untar
<1>11. CASE Untarred(a)
  BY <1>11, Zenon DEF Untarred, Unpacked
<1>12. CASE VminitUnpacked(a)
  BY <1>12, Zenon DEF VminitUnpacked, Require
<1>13. CASE DropKernel(a)
  BY <1>13 DEF DropKernel
<1>14. CASE DropVminit(a)
  BY <1>14 DEF DropVminit
<1>15. CASE PromoteKernel(a)
  BY <1>15, Zenon DEF PromoteKernel
<1>16. CASE PromoteVminit(a)
  BY <1>16, Zenon DEF PromoteVminit
<1>17. CASE Clean(a)
  BY <1>17, Zenon DEF Clean
<1>18. CASE Kill(a)
  BY <1>18 DEF Kill
<1> QED
  BY <1>1, <1>2, <1>3, <1>4, <1>5, <1>6, <1>7, <1>8, <1>9, <1>10, <1>11, <1>12, <1>13, Zenon,
     <1>14, <1>15, <1>16, <1>17, <1>18 DEF Step

\* A step of one attempt keeps the invariant: the others have ended or not begun.
LEMMA FetchStep ==
    ASSUME NonOverlapping, IsFiniteSet(Attempts), FetchInvariant, [Next]_vars
    PROVE  FetchInvariant'
<1>1. CASE UNCHANGED vars
  <2> USE <1>1 DEF vars
  <2>1. ArtifactsType' /\ OneAttempt' /\ StagingIsMine' /\ PromotionInOrder'
    BY DEF FetchInvariant, ArtifactsType, FilesType, StagingType, AttemptsType, OneAttempt,
       Running, StagingIsMine, StagingOf, PromotionInOrder, PromotionOf, VerifyInstalled, IsPinned
  <2>2. LiveIsFinished' /\ SuccessIsInstalled' /\ NothingLeftBehind'
    BY DEF FetchInvariant, LiveIsFinished, SuccessIsInstalled, VerifyInstalled, IsPinned,
       NothingLeftBehind
  <2>3. \A a \in Attempts : /\ PreparedOf(a) => PreparedOf(a)'
                            /\ GoodSoFar(a) => GoodSoFar(a)'
                            /\ Doomed(a)' <=> Doomed(a)
    BY DEF PreparedOf, GoodSoFar, Doomed
  <2>4. {a \in Attempts : Doomed(a)'} = {a \in Attempts : Doomed(a)}
    BY <2>3
  <2>5. DoomIsPaidFor'
    BY <2>3, <2>4, Zenon DEF FetchInvariant, DoomIsPaidFor
  <2> QED
    BY <2>1, <2>2, <2>5 DEF FetchInvariant
<1>2. ASSUME NEW a \in Attempts, Step(a) \/ Kill(a)
      PROVE  FetchInvariant'
  <2> USE <1>2
  <2>1. /\ ArtifactsType /\ OneAttempt /\ LiveIsFinished /\ SuccessIsInstalled
        /\ NothingLeftBehind /\ faults \in Nat
    BY DEF FetchInvariant, DoomIsPaidFor
  <2>2. \A b \in Attempts : StagingOf(b) /\ PromotionOf(b) /\ PreparedOf(b) /\ GoodSoFar(b)
    BY DEF FetchInvariant, StagingIsMine, PromotionInOrder, DoomIsPaidFor
  <2>3. \A b \in Attempts \ {a} : pc[b] \in Ended /\ pc'[b] = pc[b] /\ good'[b] = good[b]
    BY <2>1, OthersRest
  <2>4. ArtifactsType'
    BY <2>1, FilesTypeStep, StagingTypeStep, AttemptsTypeStep DEF ArtifactsType
  <2>5. OneAttempt' /\ LiveIsFinished' /\ SuccessIsInstalled' /\ NothingLeftBehind'
    BY <2>1, <2>2, OneAttemptStep, LiveStep, SuccessStep, LeftStep
  <2>6. StagingOf(a)' /\ PromotionOf(a)' /\ PreparedOf(a)' /\ GoodSoFar(a)'
    BY <2>1, <2>2, StagingStep, PromotionStep, PreparedStep, GoodStep
  <2>7. ASSUME NEW b \in Attempts \ {a}
        PROVE  StagingOf(b)' /\ PromotionOf(b)' /\ PreparedOf(b)'
    BY <2>3, <2>7 DEF Ended, StagingOf, PromotionOf, PreparedOf, BeforeKernel, KernelChecked,
       BeforeVminit, VminitChecked
  <2>8. ASSUME NEW b \in Attempts \ {a}
        PROVE  GoodSoFar(b)'
    BY <2>2, <2>3, <2>8 DEF GoodSoFar
  <2>9. StagingIsMine' /\ PromotionInOrder'
    BY <2>6, <2>7 DEF StagingIsMine, PromotionInOrder
  <2>10. (\A b \in Attempts : PreparedOf(b) /\ GoodSoFar(b))'
    BY <2>6, <2>7, <2>8
  <2>11. /\ faults' = faults \/ faults' = faults + 1
         /\ Doomed(a)' => Doomed(a) \/ faults' = faults + 1
    BY <2>1, <2>2, DoomStep
  <2>12. \A b \in Attempts \ {a} : Doomed(b)' => Doomed(b)
    BY <2>3, Zenon DEF Doomed, Ended
  <2>13. (Cardinality({b \in Attempts : Doomed(b)}) <= faults)'
    <3> DEFINE D == {b \in Attempts : Doomed(b)}
               E == {b \in Attempts : Doomed(b)'}
    <3>1. /\ IsFiniteSet(D) /\ IsFiniteSet(E) /\ IsFiniteSet(D \cup {a})
          /\ Cardinality(D) \in Nat /\ Cardinality(E) \in Nat
      <4>1. D \subseteq Attempts /\ E \subseteq Attempts /\ D \cup {a} \subseteq Attempts
        OBVIOUS
      <4> QED
        BY <4>1, FS_Subset, FS_CardinalityType
    <3>2. Cardinality(D) <= faults
      BY DEF FetchInvariant, DoomIsPaidFor
    <3>3. CASE faults' = faults
      <4>1. E \subseteq D
        BY <2>11, <2>12, <3>3, <2>1
      <4>2. Cardinality(E) <= Cardinality(D)
        BY <3>1, <4>1, FS_Subset
      <4> QED
        BY <3>1, <3>2, <3>3, <4>2, <2>1
    <3>4. CASE faults' = faults + 1
      <4>1. E \subseteq D \cup {a}
        BY <2>12
      <4>2. Cardinality(E) <= Cardinality(D \cup {a})
        BY <3>1, <4>1, FS_Subset
      <4>3. Cardinality(D \cup {a}) \in {Cardinality(D), Cardinality(D) + 1}
        BY <3>1, FS_AddElement
      <4> QED
        BY <3>1, <3>2, <3>4, <4>2, <4>3, <2>1
    <3> QED
      BY <2>11, <3>3, <3>4
  <2> QED
    BY <2>1, <2>4, <2>5, <2>9, <2>10, <2>11, <2>13 DEF FetchInvariant, DoomIsPaidFor
<1> QED
  BY <1>1, <1>2 DEF Next

\* The invariant holds of every behaviour of commands that do not overlap.
LEMMA FetchInvariantHolds ==
    ASSUME NonOverlapping, IsFiniteSet(Attempts)
    PROVE  Spec => []FetchInvariant
<1>1. Init => FetchInvariant
  <2> SUFFICES ASSUME Init PROVE FetchInvariant
    OBVIOUS
  <2>1. FilesType /\ StagingType /\ AttemptsType
    BY DEF Init, FilesType, StagingType, AttemptsType, Contents, NoStaging, Labels, Ended
  <2>2. OneAttempt /\ StagingIsMine /\ PromotionInOrder /\ SuccessIsInstalled /\ NothingLeftBehind
    BY DEF Init, OneAttempt, Running, Ended, StagingIsMine, StagingOf, PromotionInOrder,
       PromotionOf, SuccessIsInstalled, NothingLeftBehind, BeforeKernel, KernelChecked,
       BeforeVminit, VminitChecked
  <2>3. LiveIsFinished
    BY DEF Init, LiveIsFinished, NonOverlapping
  <2>4. \A a \in Attempts : PreparedOf(a) /\ GoodSoFar(a) /\ ~Doomed(a)
    BY DEF Init, PreparedOf, KernelChecked, VminitChecked, GoodSoFar, Doomed
  <2>5. faults = 0 /\ Cardinality({a \in Attempts : Doomed(a)}) = 0
    <3>1. {a \in Attempts : Doomed(a)} = {}
      BY <2>4
    <3> QED
      BY <3>1, FS_EmptySet DEF Init
  <2> QED
    BY <2>1, <2>2, <2>3, <2>4, <2>5 DEF FetchInvariant, ArtifactsType, DoomIsPaidFor
<1>2. FetchInvariant /\ [Next]_vars => FetchInvariant'
  BY FetchStep
<1> QED
  BY <1>1, <1>2, PTL DEF Spec

-----------------------------------------------------------------------------
(* The theorems *)

\* What is in use has been verified, kernel and layout are of one release, a
\* fetch that reported success left the pinned artifacts, and an attempt that
\* failed or was killed stops none of those after it: however many attempts are
\* made, of any commands that do not overlap (download, promote and
\* verify_installed of artifacts.rs).
THEOREM FetchedStayWhole ==
    ASSUME NonOverlapping, IsFiniteSet(Attempts)
    PROVE  Spec => []ArtifactsAreWhole
<1>1. FetchInvariant => ArtifactsAreWhole
  <2> SUFFICES ASSUME FetchInvariant PROVE ArtifactsAreWhole
    OBVIOUS
  <2>1. LiveWasVerified /\ NeverMixed /\ SuccessIsInstalled /\ NothingLeftBehind
    BY DEF FetchInvariant, LiveIsFinished, ArtifactsType, FilesType, LiveWasVerified, NeverMixed,
       NonOverlapping
  <2>2. RetryInstalls
    <3> SUFFICES ASSUME \A a \in Attempts : pc[a] \in {"done", "killed"},
                        \A a \in Attempts : ~(pc[a] = "done" /\ good[a]),
                        faults < Cardinality(Attempts)
                 PROVE  FALSE
      BY DEF RetryInstalls
    <3>1. {a \in Attempts : Doomed(a)} = Attempts
      BY Zenon DEF Doomed
    <3>2. Cardinality(Attempts) \in Nat /\ faults \in Nat /\ Cardinality(Attempts) <= faults
      BY <3>1, FS_CardinalityType, Zenon DEF FetchInvariant, DoomIsPaidFor
    <3> QED
      BY <3>2
  <2> QED
    BY <2>1, <2>2 DEF ArtifactsAreWhole
<1> QED
  BY <1>1, FetchInvariantHolds, PTL

=============================================================================
