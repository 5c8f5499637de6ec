------------------------------ MODULE HelmRelease ------------------------------
(***************************************************************************)
(* A Helm release as pkg/lifecycle sees it: its chart version, its status  *)
(* and the labels that say who owns it, and the pure functions that judge  *)
(* them.                                                                   *)
(*                                                                         *)
(* A chart version is a number; 0 is one that does not parse.  A label is  *)
(* "" when it is absent.  "failed" stands for every status but deployed.   *)
(***************************************************************************)
EXTENDS Integers

CONSTANTS
    MaxVersion,     \* the largest version some release may have
    Pin,            \* NVIDIAChartVersion, the only version ever adopted
    None            \* no release

ASSUME PinAssumption == MaxVersion \in Nat /\ Pin \in 1..MaxVersion

Version == 0..MaxVersion

Statuses == {"deployed", "failed"}
Owners == {"", "adapter", "other", "malformed"}       \* lifecycle.opi.nvidia.com/owner
Modes == {"", "installed", "adopted", "malformed"}   \* lifecycle.opi.nvidia.com/mode
Storages == {"", "helm", "other"}                       \* owner, stamped by Helm's storage
Kinds == {"controller", "adopted", "external", "invalid"}

Release == [version : Version, status : Statuses,
            owner : Owners, mode : Modes, storage : Storages]

\* The release Install and Upgrade write: the pin, deployed, and labelled as
\* installed by this adapter.  (ClusterHelmClient adds Helm's storage label, which
\* no decision tells from an absent one on a release with an owner.)
OwnedRelease == [version |-> Pin, status |-> "deployed",
                 owner |-> "adapter", mode |-> "installed", storage |-> ""]

ManagedByAdapter(r) == r.owner = "adapter"

versionsEqual(a, b) == a # 0 /\ b # 0 /\ a = b

\* versionsEqual(r.ChartVersion, cfg.ChartVersion) && r.Status == deployed
AtPin(r) == versionsEqual(r.version, Pin) /\ r.status = "deployed"

matchesPinnedRelease(r) == AtPin(r)

\* Mutant of DecideReleaseAction: a newer release is moved to the pin as well.
DecideReleaseActionForced(installed, allowDowngrade) ==
    CASE installed = 0   -> "reject"
      [] installed = Pin -> "noop"
      [] OTHER           -> "upgrade"

DecideReleaseAction(installed, allowDowngrade) ==
    CASE installed = 0                         -> "reject"
      [] installed = Pin                       -> "noop"
      [] 0 < installed /\ installed < Pin      -> "upgrade"
      [] installed > Pin /\ allowDowngrade     -> "downgrade"
      [] installed > Pin /\ ~allowDowngrade    -> "reject"

\* Helm's own storage label says nothing about who operates the release; any
\* other value of it names an operator, and must not contradict the owner label.
ClassifyReleaseOwnership(r) ==
    LET malformed == r.owner = "malformed" \/ r.mode = "malformed"
        missing   == r.owner = "" /\ r.storage = ""
        conflict  == r.owner # "" /\ r.storage = "other"
    IN  IF malformed \/ missing \/ conflict THEN "invalid"
        ELSE IF r.owner # "adapter" THEN "external"
        ELSE IF r.mode = "installed" THEN "controller" ELSE "adopted"

AllowsDelete(kind) == kind \in {"controller", "adopted"}

\* Mutant of stampAdoptedLabels: a label value that nothing else knows.
stampAdoptedLabelsTypo(r) == [r EXCEPT !.owner = "adapter", !.mode = "adopt"]

stampAdoptedLabels(r) == [r EXCEPT !.owner = "adapter", !.mode = "adopted"]

================================================================================
