----------------------------- MODULE NpmClosure -----------------------------
(***************************************************************************)
(* How update-image-lock verifies the npm dependency closure of the        *)
(* workstation tools: every dependency must resolve to a locked package,   *)
(* every tarball is downloaded within a bound of its own and one for all,  *)
(* and the target lock divides the closure into what the image installs    *)
(* and what it leaves out.  A package is named by its path: the sequence   *)
(* of node_modules directories it lies in; the root is the empty path.     *)
(***************************************************************************)
EXTENDS Naturals, Sequences, FiniteSets, FiniteSetsExt

CONSTANTS
    Paths,        \* package paths a lock may hold, besides the root
    Names,        \* package names
    Sizes,        \* tarball sizes
    PerTarball, ClosureMaximum,  \* NPM_TARBALL_MAX_BYTES, NPM_CLOSURE_MAX_BYTES
    Excluded      \* REVIEWED_EXCLUDED_NPM_PATHS

Root == <<>>

VARIABLES
    packages,  \* the locked paths, with the root
    deps,      \* dependencies and optionalDependencies of each
    size,      \* what the registry serves for each
    todo, total, verified,  \* the download loop
    target,    \* the target lock: its record counts and bytes
    verdict

input == <<packages, deps, size, target>>
vars == <<input, todo, total, verified, verdict>>

Closure == packages \ {Root}

Init ==
    /\ \E chosen \in SUBSET Paths : packages = chosen \cup {Root}
    /\ deps \in [packages -> SUBSET Names]
    /\ size \in [packages \ {Root} -> Sizes]
    /\ target \in [included : 0..Cardinality(Paths), excluded : 0..Cardinality(Excluded),
                   bytes : {MapThenSumSet(LAMBDA p : size[p], packages \ {Root}), 0}]
    /\ todo = {} /\ total = 0 /\ verified = 0 /\ verdict = "closure"

(* resolve_npm_dependency_path: look in the owner's own node_modules, then *)
(* in those of each directory above it, up to the root.                    *)
DependencyAt(owner, dependency, n) == Append(SubSeq(owner, 1, n), dependency)

NoPath == 0
ResolveDependency(owner, dependency) ==
    LET Walk[n \in 0..Len(owner)] ==
            IF DependencyAt(owner, dependency, n) \in packages THEN n + 1
            ELSE IF n = 0 THEN NoPath ELSE Walk[n - 1]
    IN  Walk[Len(owner)]

(* validate_npm_dependency_closure.                                        *)
Closed == \A p \in packages : \A d \in deps[p] : ResolveDependency(p, d) # NoPath

CheckClosure ==
    /\ verdict = "closure"
    /\ IF Closed THEN verdict' = "download" /\ todo' = Closure ELSE verdict' = "refused" /\ UNCHANGED todo
    /\ UNCHANGED <<input, total, verified>>

(* next_npm_download_limit: 0 stands for the refusal.                      *)
Limit(downloaded) ==
    IF downloaded >= ClosureMaximum THEN 0 ELSE Min({ClosureMaximum - downloaded, PerTarball})

(* One tarball: get_bounded refuses more than the limit.                   *)
Download(p) ==
    /\ verdict = "download" /\ p \in todo
    /\ IF size[p] <= Limit(total)
       THEN /\ todo' = todo \ {p} /\ total' = total + size[p] /\ verified' = verified + 1
            /\ UNCHANGED verdict
       ELSE verdict' = "refused" /\ UNCHANGED <<todo, total, verified>>
    /\ UNCHANGED input

Included == Closure \ Excluded
Left == Closure \cap Excluded

(* validate_workstation_target_lock_bytes: the excluded paths are all      *)
(* there, and the counts of the two parts are the recorded ones.           *)
Partitioned ==
    /\ Cardinality(Included) = target.included
    /\ Cardinality(Left) = target.excluded /\ target.excluded = Cardinality(Excluded)

(* The totals of what was downloaded are the totals of the two parts.      *)
CheckTarget ==
    /\ verdict = "download" /\ todo = {}
    /\ verdict' = IF Partitioned /\ verified = target.included + target.excluded /\ total = target.bytes
                  THEN "accepted" ELSE "refused"
    /\ UNCHANGED <<input, todo, total, verified>>

Finished == verdict \in {"accepted", "refused"} /\ UNCHANGED vars

Next == CheckClosure \/ (\E p \in Paths : Download(p)) \/ CheckTarget \/ Finished

Spec == Init /\ [][Next]_vars

-----------------------------------------------------------------------------
(* The counters have their types, and the downloads never pass the bound   *)
(* for the whole closure (next_npm_download_limit), at no step.            *)
TypeOK ==
    /\ verdict \in {"closure", "download", "accepted", "refused"}
    /\ todo \subseteq Closure /\ verified \in 0..Cardinality(Paths)
    /\ total \in 0..ClosureMaximum

(* A dependency resolves exactly as node would: to the nearest directory   *)
(* above its owner that holds it, and it fails only if none does.          *)
ResolutionIsNearest ==
    \A p \in packages, d \in Names :
        LET n == ResolveDependency(p, d)
            holds == {k \in 0..Len(p) : DependencyAt(p, d, k) \in packages}
        IN  n = IF holds = {} THEN NoPath ELSE Max(holds) + 1

(* An accepted closure is complete, was downloaded to the last package,    *)
(* and its excluded part is exactly the reviewed one.                      *)
AcceptedIsComplete ==
    verdict = "accepted" =>
        /\ Closed /\ Excluded \subseteq packages
        /\ verified = Cardinality(Closure)
        /\ total = MapThenSumSet(LAMBDA p : size[p], Closure)

(* Whatever the order of the downloads, a closed closure within both       *)
(* bounds is never refused before its target lock is compared; the bounds  *)
(* themselves are still within them.                                       *)
WithinBoundsIsDownloaded ==
    verdict = "refused" /\ Closed /\ Partitioned /\ target.bytes = MapThenSumSet(LAMBDA p : size[p], Closure) =>
        \/ \E p \in Closure : size[p] > PerTarball
        \/ MapThenSumSet(LAMBDA p : size[p], Closure) > ClosureMaximum
=============================================================================
