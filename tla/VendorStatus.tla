------------------------------ MODULE VendorStatus ------------------------------
(***************************************************************************)
(* What the lifecycle manager reports on a DpuOperatorConfig: the          *)
(* conditions VendorOperatorSupported, VendorOperatorReady and             *)
(* VendorDPUReady that EnsureInstalled computes from the cluster, one call *)
(* at a time, and upsertConditions writes beside the Ready condition of    *)
(* the dpu-operator daemon.                                                *)
(*                                                                         *)
(* The config exists and holds its finalizer; module Lifecycle has its     *)
(* deletion.  The Helm client is the one cmd/main.go wires, which refuses  *)
(* to install or upgrade; HelmInstaller has its calls and here it is one   *)
(* step.  Versions are told apart by where they are: nowhere, unreadable,  *)
(* before the supported window, at the pin, after the window.  A condition *)
(* is its reason and what its message names.                               *)
(***************************************************************************)
EXTENDS Integers, Sequences, Functions

CONSTANTS
    requiredDPFCRDs,
    requiredDPFControllers,
    Argos,          \* the names under which Argo CD's Deployment is looked for, in order
    DPUs,
    Intents,        \* what users ask for
    DPUStates,      \* what DPF reports about a DPU
    Installations,  \* the Helm releases and OLM Subscriptions that others leave behind
    None,
    MaxTries,       \* attempts of RetryOnConflict; 5 in the code
    MaxEnv          \* bound on the steps of users, operators, faults and restarts

ASSUME VendorStatusAssumption ==
    /\ {requiredDPFCRDs, requiredDPFControllers, Argos} \subseteq Seq(STRING)
    /\ "DPU" \in Range(requiredDPFCRDs)
    /\ Len(Argos) > 0
    /\ MaxTries \in Nat \ {0}
    /\ MaxEnv \in Nat

VARIABLES
    cfg,        \* what the config asks for
    cond,       \* its conditions
    queued,     \* the config is in the work queue, or a timer will put it there
    w,          \* the reconcile at work
    served,     \* the APIs that discovery serves
    mapped,     \* the APIs the REST mapper has found; it does not forget them
    deploy,     \* the health of every Deployment
    kube,       \* the Kubernetes version: "supported", "unsupported" or "down"
    kamaji,     \* a DPUCluster of type kamaji exists
    dpus,       \* the DPU objects
    release,    \* the Helm release, or None
    sub,        \* the OLM Subscription, or None
    lately,     \* the Deployments that were healthy at some time since the reconcile began
    env

cluster == <<served, mapped, deploy, kube, kamaji, dpus, release, sub>>
vars == <<cfg, cond, queued, w, cluster, lately, env>>

CRDs == Range(requiredDPFCRDs)
Controllers == Range(requiredDPFControllers)
APIs == CRDs \cup {"Certificate", "Application", "TenantControlPlane", "DSCDevice", "Subscription"}
Deployments == Controllers \cup {"cert-manager"} \cup Range(Argos)

Versions == {"", "garbled", "old", "pin", "new"}
Intent == [vendor : {"", "invalid", "nvidia", "amd"}, pin : Versions,
           override : BOOLEAN, adopt : BOOLEAN]
Installation == [version : {"old", "pin", "new"}, owner : {"", "other", "adapter"}]
DPU == [phase : {"Ready", "Rebooting", "Provisioning"}, method : {"", "SystemLevelReset"},
        reboot : {"", "Succeeded"}, cycle : BOOLEAN]

\* Users, DPF and other installers leave whole objects behind.  An API is asked of
\* the REST mapper and a Deployment of the API server: neither goes by a name of
\* the other.
ASSUME ObjectsAssumption ==
    /\ Intents \subseteq Intent
    /\ DPUStates \subseteq DPU
    /\ Installations \subseteq Installation
    /\ None \notin Intent \cup DPU \cup Installation
    /\ APIs \cap Deployments = {}

\* What one pass sees.
Nothing == [kube |-> "down", kamaji |-> FALSE, present |-> {}, healthy |-> {},
            install |-> None, dpus |-> None]

Idle == [pc |-> "idle", in |-> None, seen |-> Nothing, todo |-> << >>, sub |-> None,
         fresh |-> None, tries |-> 0]

--------------------------------------------------------------------------------
(* The verdict on what was seen. *)

\* SupportedRangeFor has a window for NVIDIA only.
ClassifySkew(vendor, version) ==
    IF vendor # "nvidia" THEN "Unpinned"
    ELSE CASE version \in {"", "garbled"} -> "Unknown"
           [] version = "old" -> "TooOld"
           [] version = "new" -> "TooNew"
           [] OTHER -> "Supported"

\* RunPreflight and RejectInstallOverrides: what is refused without a look at the cluster.
Refused(in) ==
    IF in.vendor \notin {"nvidia", "amd"} THEN "UnknownVendor"
    ELSE IF in.override THEN "InvalidConfig" ELSE ""

\* CheckDependencies.
Missing(in, seen) ==
    IF seen.kube # "supported" THEN {seen.kube}
    ELSE IF in.vendor # "nvidia" THEN {}
    ELSE ({"Certificate", "Application"} \cup IF seen.kamaji THEN {"TenantControlPlane"} ELSE {})
            \ seen.present

\* The Argo CD Deployment that counts: the first of the names that is there.
argo(seen) ==
    LET first == {i \in DOMAIN Argos : /\ Argos[i] \in seen.present
                                        /\ \A j \in 1..(i - 1) : Argos[j] \notin seen.present}
    IN  Argos[IF first = {} THEN 1 ELSE CHOOSE i \in first : TRUE]

Required(in, seen) ==
    IF in.vendor = "amd" THEN {"DSCDevice"}
    ELSE CRDs \cup Controllers \cup {"cert-manager", argo(seen)}

Phase(phase, names) == [phase |-> phase, names |-> names]

\* Mutant of classifyOperator: what is there is healthy.
classifyOperatorPresent(in, seen) ==
    IF Required(in, seen) \subseteq seen.present
    THEN Phase("Ready", {in.vendor})
    ELSE Phase("Installing", Required(in, seen) \ seen.present)

\* classifyOperator, and observeAMD with its one CRD.
classifyOperator(in, seen) ==
    LET required == Required(in, seen)
    IN  IF ~(required \subseteq seen.present)
        THEN Phase("Installing", required \ seen.present)
        ELSE IF ~(required \subseteq seen.healthy)
             THEN Phase("Degraded", required \ seen.healthy)
             ELSE Phase("Ready", {in.vendor})

\* A finished DPU keeps the method of its last reset.
nvidiaDPUStalled(d) ==
    \/ d.cycle
    \/ d.phase = "Rebooting"
    \/ d.phase # "Ready" /\ d.method = "SystemLevelReset" /\ d.reboot # "Succeeded"

\* ObserveNVIDIADPUs and dpuCondition.  A failed list is None.
dpuCondition(objects) ==
    IF objects = None THEN Phase("Unknown", {"unread"})
    ELSE IF \A d \in DPUs : objects[d] = None THEN Phase("Unknown", {"none"})
    ELSE LET rebooting == {d \in DPUs : objects[d] # None /\ nvidiaDPUStalled(objects[d])}
         IN  Phase(IF rebooting = {} THEN "Ready" ELSE "Rebooting", rebooting)

\* VendorOperatorSupported: the reason, and the version or the missing items of its message.
Skew(skew, version, missing) == [skew |-> skew, version |-> version, missing |-> missing]

\* An annotated version is classified rather than the installed one.
EvaluatePolicy(in, install) ==
    LET version == IF in.pin = "" THEN install.version ELSE in.pin
        skew == ClassifySkew(in.vendor, version)
    IN  Skew(skew, IF skew = "Unpinned" THEN "" ELSE version, {})

Report(supported, operator, dpu) == [supported |-> supported, operator |-> operator, dpu |-> dpu]

\* setOwnedConditions of the Result that EnsureInstalled makes of what it has seen.
Verdict(in, seen) ==
    LET missing == Missing(in, seen)
    IN  IF Refused(in) # ""
        THEN Report(Skew(Refused(in), "", {}), Phase("Installing", {}), Phase("Unknown", {}))
        ELSE IF missing # {}
             THEN Report(Skew("Blocked", "", missing), Phase("Installing", missing), Phase("Unknown", {}))
             ELSE Report(EvaluatePolicy(in, seen.install), classifyOperator(in, seen),
                         IF in.vendor = "nvidia" THEN dpuCondition(seen.dpus) ELSE Phase("Unknown", {}))

\* AssessReadiness without its look at InstallResult.Present.
Accepted(report) ==
    /\ report.supported.skew \notin {"TooOld", "TooNew", "UnknownVendor", "InvalidConfig", "Blocked"}
    /\ report.operator.phase = "Ready"

--------------------------------------------------------------------------------
(* The reconcile. *)

Env == env < MaxEnv /\ env' = env + 1
Works == UNCHANGED env

\* Reconcile returns; an error, or a RequeueAfter, puts the config back.
Finish(again) == w' = Idle /\ queued' = (queued \/ again)
Errs == Finish(TRUE) /\ UNCHANGED <<cfg, cond, cluster, lately>>

\* Go on to pc with what was seen.
Goes(pc, seen) == w' = [w EXCEPT !.pc = pc, !.seen = seen]
Looked == UNCHANGED <<cfg, cond, queued, lately>>

\* HasAPI asks the REST mapper, which asks discovery only for what it has not found before.
HasAPI(a) == a \in mapped \cup served
Maps(as) == mapped' = mapped \cup (as \cap served)
KeepsMapped == UNCHANGED <<served, deploy, kube, kamaji, dpus, release, sub>>

Healthy == {d \in Deployments : deploy[d] = "healthy"}

\* The config is read.  Without a vendor nothing is written.
Reconcile ==
    /\ w.pc = "idle"
    /\ queued
    /\ \/ /\ Works
          /\ IF cfg.vendor = ""
             THEN w' = Idle /\ queued' = FALSE
             ELSE /\ queued' = FALSE
                  /\ w' = [Idle EXCEPT !.pc = IF Refused(cfg) = "" THEN "version" ELSE "fresh",
                                       !.in = cfg]
       \/ Env /\ UNCHANGED <<w, queued>>
    /\ lately' = Healthy
    /\ UNCHANGED <<cfg, cond, cluster>>

\* What is looked up next, one name per step.
Probes(pc, names, seen) == w' = [w EXCEPT !.pc = pc, !.todo = names, !.seen = seen]

\* A version that cannot be read blocks the install like an unsupported one.
ServerVersion ==
    /\ w.pc = "version"
    /\ LET see(v) == [w.seen EXCEPT !.kube = v]
           next(v) == IF v # "supported" THEN Goes("fresh", see(v))
                      ELSE IF w.in.vendor = "nvidia"
                           THEN Probes("dependencies", <<"Certificate", "Application">>, see(v))
                           ELSE Goes("detect", see(v))
       IN  \/ Works /\ next(kube)
           \/ Env /\ next("down")
    /\ Looked /\ UNCHANGED cluster

See(name, health) ==
    [w.seen EXCEPT !.present = @ \cup (IF health = "absent" THEN {} ELSE {name}),
                   !.healthy = @ \cup (IF health = "healthy" THEN {name} ELSE {})]

Health(name) ==
    IF name \in APIs THEN (IF HasAPI(name) THEN "healthy" ELSE "absent") ELSE deploy[name]

\* observePrereqs looks for Argo CD under the next name while it has not found it.
Remaining(health) ==
    LET rest == Tail(w.todo)
    IN  IF Head(w.todo) \in Range(Argos) /\ health # "absent" THEN << >> ELSE rest

\* What follows the last lookup of a kind.
Onwards(seen) ==
    CASE w.pc = "dependencies" -> "kamaji"
      [] w.pc = "tenants"      -> IF Missing(w.in, seen) = {} THEN "helm" ELSE "fresh"
      [] w.pc = "observe"      -> IF w.in.vendor = "nvidia" THEN "dpus" ELSE "fresh"

\* One lookup; one that fails reads as absent.  Kamaji is required only if a
\* DPUCluster asks for it.
Probe ==
    /\ w.todo # << >>
    /\ LET name == Head(w.todo)
           after(health) ==
              LET rest == Remaining(health)
                  seen == See(name, health)
              IN  w' = [w EXCEPT !.todo = rest, !.seen = seen,
                                 !.pc = IF rest # << >> THEN w.pc ELSE Onwards(seen)]
       IN  \/ Works /\ after(Health(name)) /\ Maps({name})
           \/ Env /\ after("absent") /\ UNCHANGED mapped
    /\ Looked /\ KeepsMapped

\* A list of DPUClusters that fails means that Kamaji is not needed.
NeedsKamaji ==
    /\ w.pc = "kamaji" /\ w.todo = << >>
    /\ LET next(needed) ==
              LET seen == [w.seen EXCEPT !.kamaji = needed]
              IN  IF needed THEN Probes("tenants", <<"TenantControlPlane">>, seen)
                  ELSE Goes(IF Missing(w.in, seen) = {} THEN "helm" ELSE "fresh", seen)
       IN  \/ Works /\ next(kamaji)
           \/ Env /\ next(FALSE)
    /\ Looked /\ UNCHANGED cluster

\* The installer has returned a result: ObserveOperator is next.
Observes(present, version) ==
    Probes("observe",
           IF w.in.vendor = "amd" THEN <<"DSCDevice">>
           ELSE requiredDPFCRDs \o requiredDPFControllers \o <<"cert-manager">> \o Argos,
           [w.seen EXCEPT !.install = [present |-> present, version |-> version]])

\* HelmInstaller.Ensure with the refusing client: an absent release is left to
\* the next installer, a foreign one at the pin is claimed if the config asks
\* for it, and an owned one that is not at the pin is an error.
HelmEnsure ==
    /\ w.pc = "helm"
    /\ \/ /\ Works
          /\ \/ release = None /\ Goes("olm", w.seen) /\ UNCHANGED release
             \/ /\ release # None /\ release.owner # "adapter"
                /\ release' = IF w.in.adopt /\ release.version = "pin"
                              THEN [release EXCEPT !.owner = "adapter"] ELSE release
                /\ Observes(TRUE, release.version)
             \/ /\ release # None /\ release.owner = "adapter" /\ release.version = "pin"
                /\ Observes(TRUE, release.version) /\ UNCHANGED release
          /\ Looked /\ UNCHANGED <<served, mapped, deploy, kube, kamaji, dpus, sub>>
       \/ /\ Works
          /\ release # None /\ release.owner = "adapter" /\ release.version # "pin"
          /\ Errs
       \/ Env /\ Errs

\* OLMInstaller.Ensure up to the claim.
OLMEnsure ==
    /\ w.pc = "olm"
    /\ \/ /\ Works /\ (~HasAPI("Subscription") \/ sub = None)
          /\ Goes("detect", w.seen)
          /\ Maps({"Subscription"}) /\ Looked /\ KeepsMapped
       \/ /\ Works /\ HasAPI("Subscription") /\ sub # None
          /\ IF sub.owner # "adapter" /\ w.in.adopt /\ sub.version = "pin"
             THEN Goes("claim", w.seen)
             ELSE Observes(TRUE, sub.version)
          /\ Maps({"Subscription"}) /\ Looked /\ KeepsMapped
       \/ Env /\ Errs

\* ClaimSubscription checks the pin, reads the object again and stamps that copy.
ClaimSubscription ==
    /\ w.pc = "claim"
    /\ \/ /\ Works /\ sub # None /\ sub.version = "pin"
          /\ Goes("stamp", w.seen) /\ Looked /\ UNCHANGED cluster
       \/ Works /\ ~(sub # None /\ sub.version = "pin") /\ Errs
       \/ Env /\ Errs

ReadSubscription ==
    /\ w.pc = "stamp" /\ w.sub = None
    /\ \/ Works /\ sub # None /\ w' = [w EXCEPT !.sub = sub] /\ Looked /\ UNCHANGED cluster
       \/ Works /\ sub = None /\ Errs
       \/ Env /\ Errs

\* Mutant of StampSubscription: the copy is written whatever happened to the object.
StampSubscriptionBlindly ==
    /\ w.pc = "stamp" /\ w.sub # None
    /\ Works
    /\ sub' = [w.sub EXCEPT !.owner = "adapter"]
    /\ Goes("claimed", w.seen)
    /\ Looked /\ UNCHANGED <<served, mapped, deploy, kube, kamaji, dpus, release>>

\* The Update fails if the object has been written or deleted since.  The version
\* counts as part of the object, although a CSV of its own may hold it.
StampSubscription ==
    /\ w.pc = "stamp" /\ w.sub # None
    /\ \/ /\ Works /\ sub = w.sub
          /\ sub' = [sub EXCEPT !.owner = "adapter"]
          /\ Goes("claimed", w.seen)
          /\ Looked /\ UNCHANGED <<served, mapped, deploy, kube, kamaji, dpus, release>>
       \/ Works /\ sub # w.sub /\ Errs
       \/ Env /\ Errs

\* What was claimed is read once more.
Claimed ==
    /\ w.pc = "claimed"
    /\ \/ /\ Works /\ sub # None /\ sub.owner = "adapter" /\ sub.version = "pin"
          /\ Observes(TRUE, sub.version) /\ Looked /\ UNCHANGED cluster
       \/ Works /\ ~(sub # None /\ sub.owner = "adapter" /\ sub.version = "pin") /\ Errs
       \/ Env /\ Errs

\* DetectingInstaller.Ensure: the version is the annotated one.
Detect ==
    /\ w.pc = "detect"
    /\ LET api == IF w.in.vendor = "amd" THEN "DSCDevice" ELSE "DPU"
       IN  Works /\ Observes(HasAPI(api), w.in.pin) /\ Maps({api})
    /\ Looked /\ KeepsMapped

ObserveNVIDIADPUs ==
    /\ w.pc = "dpus"
    /\ \/ Works /\ Goes("fresh", [w.seen EXCEPT !.dpus = dpus])
       \/ Env /\ Goes("fresh", w.seen)
    /\ Looked /\ UNCHANGED cluster

\* Mutant of mergeOwnedConditions: a condition that is there already stays.
mergeOwnedConditionsOnce(conds) ==
    [conds EXCEPT !.supported = IF @ = None THEN Verdict(w.in, w.seen).supported ELSE @,
                  !.operator = Verdict(w.in, w.seen).operator,
                  !.dpu = Verdict(w.in, w.seen).dpu]

\* The owned conditions replace those of their types; the others are kept.
mergeOwnedConditions(conds) == [conds EXCEPT !.supported = Verdict(w.in, w.seen).supported,
                                             !.operator = Verdict(w.in, w.seen).operator,
                                             !.dpu = Verdict(w.in, w.seen).dpu]

\* Reconcile's RequeueAfter.  Nothing was installed for what was refused or blocked.
Returns ==
    LET report == Verdict(w.in, w.seen)
    IN  Finish(\/ ~Accepted(report) \/ ~w.seen.install.present
               \/ report.dpu.phase = "Rebooting")

\* upsertConditions reads the config again, and writes it if a condition changes.
\* The copy stands for the resourceVersion.
ReadFresh ==
    /\ w.pc = "fresh"
    /\ \/ /\ Works
          /\ IF mergeOwnedConditions(cond) = cond
             THEN Returns
             ELSE w' = [w EXCEPT !.pc = "write", !.fresh = <<cfg, cond>>] /\ UNCHANGED queued
          /\ UNCHANGED <<cfg, cond, cluster, lately>>
       \/ Env /\ Errs

\* Mutant of UpdateStatus: the write has no precondition.
UpdateStatusBlindly ==
    /\ w.pc = "write"
    /\ Works
    /\ cond' = mergeOwnedConditions(w.fresh[2])
    /\ w' = Idle /\ queued' = TRUE
    /\ UNCHANGED <<cfg, cluster, lately>>

\* Status().Update, whose event puts the config back into the queue.
UpdateStatus ==
    /\ w.pc = "write"
    /\ \/ /\ Works /\ w.fresh = <<cfg, cond>>
          /\ cond' = mergeOwnedConditions(cond)
          /\ w' = Idle /\ queued' = TRUE
          /\ UNCHANGED <<cfg, cluster, lately>>
       \/ Env /\ Errs

\* Mutant of Conflict: there is always another attempt.
ConflictForever ==
    /\ w.pc = "write" /\ w.fresh # <<cfg, cond>>
    /\ Works
    /\ w' = [w EXCEPT !.pc = "fresh", !.fresh = None, !.tries = @ + 1]
    /\ UNCHANGED <<cfg, cond, queued, cluster, lately>>

\* RetryOnConflict reads and merges again, and gives up after MaxTries attempts.
Conflict ==
    /\ w.pc = "write" /\ w.fresh # <<cfg, cond>>
    /\ Works
    /\ \/ /\ w.tries + 1 < MaxTries
          /\ w' = [w EXCEPT !.pc = "fresh", !.fresh = None, !.tries = @ + 1]
          /\ UNCHANGED <<cfg, cond, queued, cluster, lately>>
       \/ w.tries + 1 = MaxTries /\ Errs

--------------------------------------------------------------------------------
(* Users, operators, the daemon and restarts. *)

EditConfig ==
    /\ Env
    /\ \E in \in Intents \ {cfg} : cfg' = in
    /\ queued' = TRUE
    /\ UNCHANGED <<cond, w, cluster, lately>>

\* The dpu-operator daemon writes its own condition.
DaemonReports ==
    /\ Env
    /\ cond' = [cond EXCEPT !.ready = ~@]
    /\ queued' = TRUE
    /\ UNCHANGED <<cfg, w, cluster, lately>>

ServeAPI ==
    /\ Env
    /\ \E a \in APIs : served' = (served \ {a}) \cup ({a} \ served)
    /\ UNCHANGED <<cfg, cond, queued, w, mapped, deploy, kube, kamaji, dpus, release, sub, lately>>

Roll ==
    /\ Env
    /\ \E d \in Deployments, h \in {"absent", "unhealthy", "healthy"} :
          h # deploy[d] /\ deploy' = [deploy EXCEPT ![d] = h]
    /\ lately' = lately \cup {d \in Deployments : deploy'[d] = "healthy"}
    /\ UNCHANGED <<cfg, cond, queued, w, served, mapped, kube, kamaji, dpus, release, sub>>

ClusterChanges ==
    /\ Env
    /\ \/ kube' \in {"supported", "unsupported", "down"} \ {kube} /\ UNCHANGED kamaji
       \/ kamaji' = ~kamaji /\ UNCHANGED kube
    /\ UNCHANGED <<cfg, cond, queued, w, served, mapped, deploy, dpus, release, sub, lately>>

\* A DPU event enqueues every config that enqueueDpuOperatorConfigs can list.
DPUChanges ==
    /\ Env
    /\ \E d \in DPUs, s \in DPUStates \cup {None} : s # dpus[d] /\ dpus' = [dpus EXCEPT ![d] = s]
    /\ queued' \in {TRUE, queued}
    /\ UNCHANGED <<cfg, cond, w, served, mapped, deploy, kube, kamaji, release, sub, lately>>

OthersInstall ==
    /\ Env
    /\ \/ release' \in (Installations \cup {None}) \ {release} /\ UNCHANGED sub
       \/ sub' \in (Installations \cup {None}) \ {sub} /\ UNCHANGED release
    /\ UNCHANGED <<cfg, cond, queued, w, served, mapped, deploy, kube, kamaji, dpus, lately>>

\* The informer's resync, which is hours away.
Resync ==
    /\ Works
    /\ ~queued /\ queued' = TRUE
    /\ UNCHANGED <<cfg, cond, w, cluster, lately>>

Restart ==
    /\ Env
    /\ w' = Idle
    /\ queued' = TRUE
    /\ mapped' = {}
    /\ UNCHANGED <<cfg, cond, lately>> /\ KeepsMapped

--------------------------------------------------------------------------------

Init ==
    /\ cfg \in Intents
    /\ cond = [supported |-> None, operator |-> None, dpu |-> None, ready |-> FALSE]
    /\ queued = TRUE
    /\ w = Idle
    /\ served = APIs
    /\ deploy = [d \in Deployments |-> IF d \in Range(Tail(Argos)) THEN "absent" ELSE "healthy"]
    /\ mapped = {}
    /\ kube = "supported"
    /\ kamaji = FALSE
    /\ dpus = [d \in DPUs |-> None]
    /\ release = None
    /\ sub \in Installations \cup {None}
    /\ lately = {}
    /\ env = 0

Work ==
    \/ Reconcile \/ ServerVersion \/ Probe \/ NeedsKamaji
    \/ HelmEnsure \/ OLMEnsure \/ ClaimSubscription \/ ReadSubscription \/ StampSubscription
    \/ Claimed \/ Detect \/ ObserveNVIDIADPUs \/ ReadFresh \/ UpdateStatus \/ Conflict

Next ==
    \/ Work
    \/ EditConfig \/ DaemonReports \/ ServeAPI \/ Roll \/ ClusterChanges
    \/ DPUChanges \/ OthersInstall \/ Resync \/ Restart

\* The one worker keeps working; nothing else has to happen, no resync either.
Spec == Init /\ [][Next]_vars /\ WF_vars(Work)

--------------------------------------------------------------------------------
(* Properties *)

\* Everything keeps its type; a reason is one of those the docs list, and the
\* worker is within the attempts of RetryOnConflict.
TypeOK ==
    /\ cfg \in Intent
    /\ cond.supported = None \/ cond.supported.skew \in
          {"Supported", "TooOld", "TooNew", "Unknown", "Unpinned", "UnknownVendor", "InvalidConfig", "Blocked"}
    /\ cond.operator = None \/ cond.operator.phase \in {"Installing", "Degraded", "Ready"}
    /\ cond.dpu = None \/ cond.dpu.phase \in {"Rebooting", "Ready", "Unknown"}
    /\ cond.ready \in BOOLEAN
    /\ queued \in BOOLEAN
    /\ w.in \in Intent \cup {None}
    /\ w.seen.present \cup w.seen.healthy \subseteq APIs \cup Deployments
    /\ w.tries < MaxTries
    /\ served \subseteq APIs /\ mapped \subseteq APIs
    /\ deploy \in [Deployments -> {"absent", "unhealthy", "healthy"}]
    /\ dpus \in [DPUs -> DPU \cup {None}]
    /\ {release, sub} \subseteq Installation \cup {None}
    /\ lately \subseteq Deployments

\* VendorOperatorReady becomes True for NVIDIA only if every required CRD was
\* served and every required Deployment was healthy at some time since the
\* reconcile began: neither an earlier pass nor another vendor's counts, whatever
\* fails or changes between the lookups.
ReadyIsEarned ==
    [][cond'.operator # cond.operator /\ cond'.operator = Phase("Ready", {"nvidia"})
          => /\ w.in.vendor = "nvidia"
             /\ CRDs \subseteq mapped
             /\ Controllers \cup {"cert-manager"} \subseteq lately
             /\ Range(Argos) \cap lately # {}]_vars

\* The manager never undoes the daemon's Ready condition (the single-writer rule
\* on SupportedConditionType), although it writes the whole status.
DaemonConditionKept ==
    [][env' = env => cond'.ready = cond.ready]_vars

\* The only thing the manager does to a Subscription is to label it, for a config
\* that asked for it: it brings none back and overwrites nobody's change.
SubscriptionOnlyLabelled ==
    [][env' = env /\ sub' # sub
          => /\ w.in.adopt
             /\ sub # None
             /\ sub' = [sub EXCEPT !.owner = "adapter"]]_vars

\* What a pass would see if nothing changed during it.
Present == {a \in APIs : HasAPI(a)} \cup {d \in Deployments : deploy[d] # "absent"}
InstallNow ==
    IF cfg.vendor = "nvidia" /\ release # None THEN release
    ELSE IF cfg.vendor = "nvidia" /\ sub # None /\ HasAPI("Subscription") THEN sub
    ELSE [version |-> cfg.pin]
Now == [kube |-> kube, kamaji |-> kamaji, present |-> Present,
        healthy |-> Present \ {d \in Deployments : deploy[d] = "unhealthy"},
        install |-> InstallNow, dpus |-> dpus]

\* HelmInstaller.Ensure fails for as long as this lasts, and nothing is reported.
Rejected ==
    /\ cfg.vendor = "nvidia" /\ Refused(cfg) = "" /\ Missing(cfg, Now) = {}
    /\ release # None /\ release.owner = "adapter" /\ release.version # "pin"

\* The verdict after which nobody looks again.
Satisfied ==
    /\ Accepted(cond)
    /\ cond.operator.names = {cfg.vendor}
    /\ cond.dpu.phase # "Rebooting"

\* Once the cluster is quiet, the conditions are those of a fresh look at it, or
\* they are good ones that went stale: no Installing, Degraded, Rebooting, Blocked
\* or rejected version outlasts its cause, without any resync.
OnlyGoodNewsIsStale ==
    <>[](\/ cfg.vendor = "" \/ Rejected
         \/ cond.supported # None /\ Satisfied
         \/ \A c \in DOMAIN Verdict(cfg, Now) : cond[c] = Verdict(cfg, Now)[c])

================================================================================
