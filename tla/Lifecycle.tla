----------------------------- MODULE Lifecycle -----------------------------
(***************************************************************************)
(* LifecycleManager (pkg/lifecycle): one worker reconciles the             *)
(* DpuOperatorConfigs.  A live config gets the cleanup finalizer and then  *)
(* an Ensure of the pinned release (module HelmInstaller, run here by the  *)
(* worker); a deleting one runs CleanupInstallations, which decides from   *)
(* the release's ownership labels and the config's policies whether the    *)
(* release and the dataplane objects beside it are deleted, and then lets  *)
(* the config go.  Every read and every write is a step of its own, so     *)
(* other writers, failed calls and restarts come between any two of them.  *)
(***************************************************************************)
EXTENDS HelmInstaller

CONSTANTS
    Worker,         \* the manager's goroutine, the only caller of Ensure
    Configs,        \* names of DpuOperatorConfigs
    Annotated,      \* the specifications a config may be created with
    Objects,        \* names of dataplane objects in the release's namespace
    MaxUserOps,     \* how many times users and OPI controllers act
    MaxListFaults   \* how many lists of dependents may fail

ASSUME LifecycleAssumption ==
    /\ Callers = {Worker}
    /\ Annotated \subseteq [known : BOOLEAN, adopt : BOOLEAN,
                            removal : {"retain", "delete-owned"},
                            adoption : {"retain", "delete-owned"}]
    /\ MaxUserOps \in Nat
    /\ MaxListFaults \in Nat

VARIABLES
    cfg,        \* the DpuOperatorConfigs in the API server
    queue,      \* configs waiting to be reconciled
    w,          \* what the worker is doing
    plane,      \* dataplane objects: absent, or present with what refers to them
    ops,        \* user operations so far
    lists       \* failed lists so far

lifecycleVars == <<cfg, queue, w, plane, ops, lists>>
allVars == <<vars, lifecycleVars>>

Policy == [known : BOOLEAN, adopt : BOOLEAN,
           removal : {"retain", "delete-owned"}, adoption : {"retain", "delete-owned"}]

\* cleanup is the VendorOperatorCleanup condition's reason.
Outcomes == {"", "deleted", "preserved", "failed", "changed", "already-gone"}
Config == [live : BOOLEAN, deleting : BOOLEAN, fin : BOOLEAN, spec : Policy, cleanup : Outcomes]

\* owner: the owner label; source: the translation source annotation is set;
\* opi: an OPI object of the same name exists.
DataplaneObject == [present : BOOLEAN, owner : {"", "adapter", "other"},
                    source : BOOLEAN, opi : BOOLEAN]

WorkerSteps == {"idle", "reconcile", "finalizer", "install", "installing", "conditions",
                "lock", "release", "refs", "recheck", "uninstall", "refsAgain",
                "dataplane", "record", "unfinalize"}

\* spec: the config as read; kind: the planned ownership class; doomed: the
\* dataplane objects planned for deletion; safe: the ones that the second look
\* found referenced; needed: the ones that really were; outcome: the result.
Reconciling == [pc : WorkerSteps, key : Configs \cup {None}, spec : Policy,
                kind : Kinds \cup {""}, doomed : SUBSET Objects, safe : SUBSET Objects,
                needed : SUBSET Objects, outcome : Outcomes]

NoPolicy == [known |-> FALSE, adopt |-> FALSE, removal |-> "retain", adoption |-> "retain"]

Absent == [live |-> FALSE, deleting |-> FALSE, fin |-> FALSE, spec |-> NoPolicy, cleanup |-> ""]

Waiting == [pc |-> "idle", key |-> None, spec |-> NoPolicy, kind |-> "",
            doomed |-> {}, safe |-> {}, needed |-> {}, outcome |-> ""]

-----------------------------------------------------------------------------
(* The API server and the work queue                                        *)

\* A write of config n; its watch event puts n in the queue.  A config without
\* finalizers that is being deleted is gone.
Store(n, c) ==
    /\ cfg' = [cfg EXCEPT ![n] = IF c.deleting /\ ~c.fin THEN Absent ELSE c]
    /\ queue' = queue \cup {n}

Goes(pc) == w' = [w EXCEPT !.pc = pc]

\* Reconcile returns; an error or RequeueAfter puts the config back.
Done == w' = Waiting
Again == Done /\ queue' = queue \cup {w.key}

\* Mutant of CallFails: the error is logged instead of returned.
CallFailsQuietly == Fails /\ Done /\ UNCHANGED <<cfg, queue>>

CallFails == Fails /\ Again /\ UNCHANGED cfg

referencedByOPI(d) == plane[d].source \/ plane[d].opi

Referenced == {d \in Objects : plane[d].present /\ referencedByOPI(d)}

-----------------------------------------------------------------------------
(* Reconcile of a live config                                               *)

Dequeue(n) ==
    /\ w.pc = "idle"
    /\ n \in queue
    /\ queue' = queue \ {n}
    /\ w' = [Waiting EXCEPT !.pc = "reconcile", !.key = n]
    /\ UNCHANGED <<vars, cfg, plane, ops, lists>>

Reconcile ==
    /\ w.pc = "reconcile"
    /\ LET c == cfg[w.key]
       IN  \/ Succeeds /\ ~c.live /\ Done /\ UNCHANGED <<cfg, queue>>
           \/ /\ Succeeds /\ c.live /\ c.deleting
              /\ IF c.fin THEN w' = [w EXCEPT !.pc = "lock", !.spec = c.spec] ELSE Done
              /\ UNCHANGED <<cfg, queue>>
           \/ /\ Succeeds /\ c.live /\ ~c.deleting
              /\ w' = [w EXCEPT !.pc = IF c.spec.known /\ ~c.fin THEN "finalizer" ELSE "install",
                                !.spec = c.spec]
              /\ UNCHANGED <<cfg, queue>>
           \/ CallFails
    /\ UNCHANGED <<rel, good, revisions, refuses, holder, p, edits, plane, ops, lists>>

\* Mutant of ensureCleanupFinalizer: the install comes first, the finalizer later.
ensureCleanupFinalizerLate ==
    /\ w.pc = "finalizer"
    /\ Goes("install")
    /\ UNCHANGED <<vars, cfg, queue, plane, ops, lists>>

\* The finalizer goes on a fresh copy of the config, and the rest of the
\* reconcile uses that copy.  A conflicting write is read and tried again; the
\* API server refuses a new finalizer on a config that is being deleted.
ensureCleanupFinalizer ==
    /\ w.pc = "finalizer"
    /\ LET c == cfg[w.key]
       IN  \/ Succeeds /\ (~c.live \/ c.deleting) /\ Again /\ UNCHANGED cfg
           \/ /\ Succeeds /\ c.live /\ ~c.deleting
              /\ w' = [w EXCEPT !.pc = "install", !.spec = c.spec]
              /\ IF c.spec.known /\ ~c.fin
                 THEN Store(w.key, [c EXCEPT !.fin = TRUE])
                 ELSE UNCHANGED <<cfg, queue>>
           \/ CallFails
    /\ UNCHANGED <<rel, good, revisions, refuses, holder, p, edits, plane, ops, lists>>

\* EnsureInstalled: no known vendor, or missing prerequisites, skip the installer.
EnsureInstalled ==
    /\ w.pc = "install"
    /\ \/ ~w.spec.known /\ Done /\ UNCHANGED p
       \/ w.spec.known /\ Goes("conditions") /\ UNCHANGED p
       \/ /\ w.spec.known
          /\ Goes("installing")
          /\ p' = [p EXCEPT ![Worker] = [Idle EXCEPT !.pc = "acquire", !.adopt = w.spec.adopt]]
    /\ UNCHANGED <<rel, good, revisions, refuses, holder, faults, edits, cfg, queue, plane, ops, lists>>

\* The installer at work; its steps are HelmInstaller's.
Installing ==
    /\ w.pc = "installing"
    /\ Work(Worker)
    /\ UNCHANGED lifecycleVars

\* The installer has returned: an error ends the reconcile, except a refused
\* install, after which the next installer only looks for the operator.
Installed ==
    /\ w.pc = "installing"
    /\ p[Worker].pc = "idle"
    /\ \/ /\ p[Worker].status \in {"succeeded", "noop", "rolled_back", "refused"}
          /\ Goes("conditions")
          /\ UNCHANGED queue
       \/ /\ p[Worker].status \notin {"succeeded", "noop", "rolled_back"}
          /\ Again
    /\ UNCHANGED <<vars, cfg, plane, ops, lists>>

\* setOwnedConditions, then RequeueAfter unless the operator is ready.  What the
\* three conditions say, and when they are written, is module VendorStatus.
SetConditions ==
    /\ w.pc = "conditions"
    /\ \/ Succeeds /\ Done /\ UNCHANGED <<cfg, queue>>
       \/ Succeeds /\ Again /\ UNCHANGED cfg
       \/ CallFails
    /\ UNCHANGED <<rel, good, revisions, refuses, holder, p, edits, plane, ops, lists>>

-----------------------------------------------------------------------------
(* CleanupInstallations of a deleting config, under the release's lock      *)

LockRelease ==
    /\ w.pc = "lock"
    /\ holder = None
    /\ holder' = Worker
    /\ Goes("release")
    /\ UNCHANGED <<rel, good, revisions, refuses, p, faults, edits, cfg, queue, plane, ops, lists>>

\* CleanupInstallations returns: unlock, and go on to record the outcome.
Conclude(outcome) ==
    /\ w' = [w EXCEPT !.pc = "record", !.outcome = outcome]
    /\ holder' = None

\* The first read of the release.
ReadRelease ==
    /\ w.pc = "release"
    /\ \/ Succeeds /\ rel = None /\ Conclude("already-gone")
       \/ /\ Succeeds /\ rel # None
          /\ w' = [w EXCEPT !.pc = "refs", !.kind = ClassifyReleaseOwnership(rel)]
          /\ UNCHANGED holder
       \/ Hidden /\ Conclude("already-gone")
       \/ Fails /\ Conclude("failed")
    /\ UNCHANGED <<rel, good, revisions, refuses, p, edits, cfg, queue, plane, ops, lists>>

\* The policy that governs a release of this ownership class.
policyFor(spec, kind) == IF kind = "adopted" THEN spec.adoption ELSE spec.removal

DecideCleanup(spec, kind) ==
    CASE kind = "invalid"  -> "failed"
      [] kind = "external" -> "preserved"
      [] AllowsDelete(kind) ->
            IF policyFor(spec, kind) = "delete-owned" THEN "deleted" ELSE "preserved"

ListFails == lists < MaxListFaults /\ lists' = lists + 1

\* Objects that others own, or that the lists show to be referenced, are kept.
Unprotected(opiSeen) ==
    {d \in Objects : /\ plane[d].present
                     /\ plane[d].owner # "other"
                     /\ ~plane[d].source
                     /\ d \notin opiSeen}

OPINames == {d \in Objects : plane[d].opi}

\* ClientResourceIndex.Refs, then DecideCleanup.  A failed list of configs fails
\* the cleanup; a failed list of OPI or dataplane objects reads as an empty one.
Plan(doomed) ==
    IF DecideCleanup(w.spec, w.kind) = "deleted"
    THEN w' = [w EXCEPT !.pc = "recheck", !.doomed = doomed] /\ UNCHANGED holder
    ELSE Conclude(DecideCleanup(w.spec, w.kind))

FirstRefs ==
    /\ w.pc = "refs"
    /\ \/ Plan(Unprotected(OPINames)) /\ UNCHANGED lists
       \/ ListFails /\ Plan(Unprotected({}))
       \/ ListFails /\ Plan({})
       \/ ListFails /\ Conclude("failed")
    /\ UNCHANGED <<rel, good, revisions, refuses, p, faults, edits, cfg, queue, plane, ops>>

\* The release is read again immediately before the uninstall.
Recheck ==
    /\ w.pc = "recheck"
    /\ \/ Succeeds /\ rel = None /\ Conclude("already-gone")
       \/ /\ Succeeds /\ rel # None
          /\ IF ClassifyReleaseOwnership(rel) = w.kind
             THEN Goes("uninstall") /\ UNCHANGED holder
             ELSE Conclude("changed")
       \/ Hidden /\ Conclude("already-gone")
       \/ Fails /\ Conclude("failed")
    /\ UNCHANGED <<rel, good, revisions, refuses, p, edits, cfg, queue, plane, ops, lists>>

\* Uninstall reads the release once more and refuses one that is not ours.
Uninstall ==
    /\ w.pc = "uninstall"
    /\ \/ /\ Succeeds
          /\ ~CanUninstall
          /\ Conclude(IF rel = None /\ ~refuses THEN "already-gone" ELSE "failed")
          /\ UNCHANGED rel
       \/ /\ Succeeds
          /\ CanUninstall
          /\ rel' = None
          /\ Goes("refsAgain")
          /\ UNCHANGED holder
       \/ /\ Fails
          /\ CanUninstall
          /\ rel' \in AfterError(None)
          /\ Conclude("failed")
       \/ /\ Hidden
          /\ ~refuses
          /\ Conclude("already-gone")
          /\ UNCHANGED rel
    /\ Revised
    /\ UNCHANGED <<good, refuses, p, edits, cfg, queue, plane, ops, lists>>

\* Mutant of LookAgain: the plan is carried out as it was made.
LookAgainSkipped(safe) ==
    w' = [w EXCEPT !.pc = "dataplane", !.needed = Referenced]

\* stillProtected for every planned object, from a second look whose error is
\* dropped: whatever could not be listed protects nothing.
LookAgain(safe) ==
    w' = [w EXCEPT !.pc = "dataplane", !.safe = safe, !.needed = Referenced]

Sourced == {d \in Objects : plane[d].present /\ plane[d].source}

SecondRefs ==
    /\ w.pc = "refsAgain"
    /\ \/ LookAgain(Sourced \cup OPINames) /\ UNCHANGED lists
       \/ ListFails /\ \E safe \in {Sourced, OPINames, {}} : LookAgain(safe)
    /\ UNCHANGED <<vars, cfg, queue, plane, ops>>

\* One planned object after the other; a failed delete is skipped.
DeleteDataplane ==
    /\ w.pc = "dataplane"
    /\ IF w.doomed \ w.safe = {}
       THEN Conclude("deleted") /\ UNCHANGED <<plane, faults>>
       ELSE \E d \in w.doomed \ w.safe :
               /\ w' = [w EXCEPT !.doomed = @ \ {d}]
               /\ \/ Succeeds /\ plane' = [plane EXCEPT ![d].present = FALSE]
                  \/ Fails /\ UNCHANGED plane
               /\ UNCHANGED holder
    /\ UNCHANGED <<rel, good, revisions, refuses, p, edits, cfg, queue, ops, lists>>

\* The VendorOperatorCleanup condition.  Only a release that changed hands
\* during the cleanup makes reconcileCleanup try again.
RecordOutcome ==
    /\ w.pc = "record"
    /\ \/ /\ Succeeds
          /\ IF w.outcome = "changed" THEN w' = Waiting ELSE Goes("unfinalize")
          /\ IF cfg[w.key].live
             THEN Store(w.key, [cfg[w.key] EXCEPT !.cleanup = w.outcome])
             ELSE UNCHANGED cfg /\ queue' = queue \cup {w.key}
       \/ CallFails
    /\ UNCHANGED <<rel, good, revisions, refuses, holder, p, edits, plane, ops, lists>>

removeCleanupFinalizer ==
    /\ w.pc = "unfinalize"
    /\ \/ /\ Succeeds
          /\ IF cfg[w.key].live
             THEN Store(w.key, [cfg[w.key] EXCEPT !.fin = FALSE])
             ELSE UNCHANGED <<cfg, queue>>
          /\ Done
       \/ CallFails
    /\ UNCHANGED <<rel, good, revisions, refuses, holder, p, edits, plane, ops, lists>>

-----------------------------------------------------------------------------
(* Users, the API server and other controllers                              *)

UserOp == ops < MaxUserOps /\ ops' = ops + 1

CreateConfig(n) ==
    /\ UserOp
    /\ ~cfg[n].live
    /\ \E spec \in Annotated : Store(n, [Absent EXCEPT !.live = TRUE, !.spec = spec])
    /\ UNCHANGED <<vars, w, plane, lists>>

EditConfig(n) ==
    /\ UserOp
    /\ cfg[n].live
    /\ \E spec \in Annotated \ {cfg[n].spec} : Store(n, [cfg[n] EXCEPT !.spec = spec])
    /\ UNCHANGED <<vars, w, plane, lists>>

DeleteConfig(n) ==
    /\ UserOp
    /\ cfg[n].live
    /\ ~cfg[n].deleting
    /\ Store(n, [cfg[n] EXCEPT !.deleting = TRUE])
    /\ UNCHANGED <<vars, w, plane, lists>>

\* An OPI object of d's name comes or goes, or a translation claims d.
ReferenceChanges(d) ==
    /\ UserOp
    /\ \/ plane' = [plane EXCEPT ![d].opi = ~@]
       \/ plane[d].present /\ ~plane[d].source /\ plane' = [plane EXCEPT ![d].source = TRUE]
    /\ UNCHANGED <<vars, cfg, queue, w, lists>>

OthersEditRelease == ThirdPartyEdit /\ UNCHANGED lifecycleVars

\* The manager restarts: its informer lists every config again.
RestartManager ==
    /\ Restart
    /\ w' = Waiting
    /\ queue' = {n \in Configs : cfg[n].live}
    /\ UNCHANGED <<cfg, plane, ops, lists>>

-----------------------------------------------------------------------------

FirstObjects == {o \in DataplaneObject : o.present /\ ~o.opi /\ ~(o.owner = "other" /\ o.source)}

LifecycleInit ==
    /\ Init
    /\ cfg = [n \in Configs |-> Absent]
    /\ queue = {}
    /\ w = Waiting
    /\ plane \in [Objects -> FirstObjects]
    /\ ops = 0
    /\ lists = 0

Cleanup ==
    \/ LockRelease
    \/ ReadRelease
    \/ FirstRefs
    \/ Recheck
    \/ Uninstall
    \/ SecondRefs
    \/ DeleteDataplane
    \/ RecordOutcome
    \/ removeCleanupFinalizer

WorkerStep ==
    \/ Reconcile
    \/ ensureCleanupFinalizer
    \/ EnsureInstalled
    \/ Installing
    \/ Installed
    \/ SetConditions
    \/ Cleanup

LifecycleNext ==
    \/ \E n \in Configs : Dequeue(n) \/ CreateConfig(n) \/ EditConfig(n) \/ DeleteConfig(n)
    \/ WorkerStep
    \/ \E d \in Objects : ReferenceChanges(d)
    \/ OthersEditRelease
    \/ RestartManager

\* The worker goroutine keeps running, and the work queue is first in first out.
LifecycleFairness ==
    /\ WF_allVars(WorkerStep)
    /\ \A n \in Configs : SF_allVars(Dequeue(n))

LifecycleSpec == LifecycleInit /\ [][LifecycleNext]_allVars /\ LifecycleFairness

-----------------------------------------------------------------------------
(* Properties                                                               *)

\* Configs, worker, dataplane objects and release keep their shape; the release's
\* labels stay within the values the classification knows (stampAdoptedLabels,
\* ClassifyReleaseOwnership).
LifecycleTypeOK ==
    /\ TypeOK
    /\ cfg \in [Configs -> Config]
    /\ queue \subseteq Configs
    /\ w \in Reconciling
    /\ plane \in [Objects -> DataplaneObject]
    /\ ops \in Nat
    /\ lists \in Nat

\* While the installer works for a config, that config is still stored and holds
\* the cleanup finalizer, so whatever is installed for it is looked at again when
\* the config is deleted, also after a crash.
InstallGuarded ==
    w.pc = "installing" => cfg[w.key].live /\ cfg[w.key].fin

\* The adapter uninstalls a release only while the labels in the store make it
\* the adapter's, and only when the policy for the ownership class the cleanup
\* planned for says delete-owned: a release relabelled between the reads and the
\* uninstall is never lost.
UninstallsOnlyOwned ==
    [][rel # None /\ rel' = None /\ edits' = edits
          => /\ ClassifyReleaseOwnership(rel) \in {"controller", "adopted"}
             /\ w.kind \in {"controller", "adopted"}
             /\ policyFor(w.spec, w.kind) = "delete-owned"]_allVars

\* The client that cmd/main.go wires up refuses to mutate the pinned release, so
\* the manager as shipped never installs, upgrades, rolls back or uninstalls it:
\* the only thing it ever writes is the adoption labels, on a deployed pin, for a
\* config that asks to adopt it.
ShippedOnlyAdopts ==
    [][refuses /\ rel' # rel /\ edits' = edits
          => /\ w.spec.adopt
             /\ rel # None /\ AtPin(rel)
             /\ rel' = stampAdoptedLabels(rel)]_allVars

\* No dataplane object is deleted that an OPI object or a translation source
\* referred to when the release had just been uninstalled ("Dataplane objects
\* stay if ... an OPI object still references them").
ReferencedKept ==
    [][\A d \in Objects :
          plane[d].present /\ ~plane'[d].present => d \notin w.needed]_allVars

\* The same for as long as no listing has failed: a reference that appears while
\* the release is being uninstalled is seen by the second look at the references.
ListedReferencesKept ==
    [][\A d \in Objects :
          lists = 0 /\ plane[d].present /\ ~plane'[d].present
              => d \notin w.needed]_allVars

\* The finalizer keeps a config until its cleanup has deleted the adapter's
\* resources or decided to preserve them (the comment on CleanupFinalizer).
FinalizerHeldUntilDecided ==
    [][\A n \in Configs :
          cfg[n].fin /\ ~cfg'[n].fin
              => w.outcome \in {"deleted", "preserved", "already-gone"}]_allVars

\* A config whose deletion has begun disappears: cleanup never wedges it,
\* whatever fails and whoever changes the release.
ConfigDeletionCompletes ==
    \A n \in Configs : cfg[n].deleting ~> ~cfg[n].deleting

=============================================================================
