--------------------------- MODULE LifecycleProofs ---------------------------
(***************************************************************************)
(* What the LifecycleManager guarantees for any number of configs,         *)
(* dataplane objects, faults, failed lists, edits and restarts, whichever  *)
(* client it is wired to and whether or not its lists are forbidden.  The  *)
(* worker runs HelmInstaller's steps, so their type lemmas are used again. *)
(***************************************************************************)
EXTENDS Lifecycle, HelmInstallerProofs

LEMMA WorkerCalls == Worker \in Callers /\ Callers = {Worker}
  BY LifecycleAssumption

LEMMA WaitingType == Waiting \in Reconciling
  BY DEF Waiting, Reconciling, WorkerSteps, NoPolicy, Policy, Outcomes

LEMMA AbsentType == Absent \in Config
  BY DEF Absent, Config, NoPolicy, Policy, Outcomes

-----------------------------------------------------------------------------
(* What the worker knows at each of its steps                               *)

\* A reconcile is always about a config.
Keyed == w.pc # "idle" => w.key \in Configs

\* Once a known vendor's config is past the finalizer, it is stored and has it.
Guarded ==
    w.pc \in {"install", "installing"} /\ w.spec.known => cfg[w.key].live /\ cfg[w.key].fin

\* The installer runs for the config the worker holds, with that config's wish to
\* adopt, and gets to ClaimRelease only when it was asked to.
Asked ==
    /\ w.pc = "installing" => w.spec.known
    /\ p[Worker].pc # "idle" => w.pc = "installing" /\ p[Worker].adopt = w.spec.adopt
    /\ p[Worker].pc = "claim" => p[Worker].adopt

\* The second read and the uninstall come only after a decision to delete.
Decided ==
    /\ w.pc = "refs" => w.kind \in Kinds
    /\ w.pc \in {"recheck", "uninstall"} =>
          AllowsDelete(w.kind) /\ policyFor(w.spec, w.kind) = "delete-owned"

\* With no list failed, the second look has seen every reference there was.
SeenTwice == w.pc = "dataplane" /\ lists = 0 => w.needed \subseteq w.safe

Typed == LifecycleTypeOK /\ Keyed

LifecycleInv == Typed /\ Guarded /\ Asked /\ Decided /\ SeenTwice

-----------------------------------------------------------------------------
(* Types                                                                    *)

LEMMA StoreType ==
  ASSUME LifecycleTypeOK, NEW n \in Configs, NEW c \in Config, Store(n, c)
  PROVE  cfg' \in [Configs -> Config] /\ queue' \subseteq Configs
  BY AbsentType DEF Store, LifecycleTypeOK

\* The worker's record after a step that moves it, or ends the reconcile.
LEMMA RecordType ==
  ASSUME NEW v \in Reconciling
  PROVE  /\ \A pc \in WorkerSteps : [v EXCEPT !.pc = pc] \in Reconciling
         /\ \A pc \in WorkerSteps, spec \in Policy : [v EXCEPT !.pc = pc, !.spec = spec] \in Reconciling
         /\ \A pc \in WorkerSteps, o \in Outcomes : [v EXCEPT !.pc = pc, !.outcome = o] \in Reconciling
         /\ \A pc \in WorkerSteps, k \in Kinds : [v EXCEPT !.pc = pc, !.kind = k] \in Reconciling
         /\ \A pc \in WorkerSteps, n \in Configs : [v EXCEPT !.pc = pc, !.key = n] \in Reconciling
         /\ \A pc \in WorkerSteps, ds \in SUBSET Objects :
               [v EXCEPT !.pc = pc, !.doomed = ds] \in Reconciling
         /\ \A ds \in SUBSET Objects : [v EXCEPT !.doomed = ds] \in Reconciling
         /\ \A pc \in WorkerSteps, s, ds \in SUBSET Objects :
               [v EXCEPT !.pc = pc, !.safe = s, !.needed = ds] \in Reconciling
<1>1. \A pc \in WorkerSteps : [v EXCEPT !.pc = pc] \in Reconciling
  BY Zenon DEF Reconciling
<1>2. \A pc \in WorkerSteps, spec \in Policy : [v EXCEPT !.pc = pc, !.spec = spec] \in Reconciling
  BY Zenon DEF Reconciling
<1>3. \A pc \in WorkerSteps, o \in Outcomes : [v EXCEPT !.pc = pc, !.outcome = o] \in Reconciling
  BY Zenon DEF Reconciling
<1>4. \A pc \in WorkerSteps, k \in Kinds : [v EXCEPT !.pc = pc, !.kind = k] \in Reconciling
  BY Zenon DEF Reconciling
<1>5. \A pc \in WorkerSteps, n \in Configs : [v EXCEPT !.pc = pc, !.key = n] \in Reconciling
  BY Zenon DEF Reconciling
<1>6. \A pc \in WorkerSteps, ds \in SUBSET Objects :
         [v EXCEPT !.pc = pc, !.doomed = ds] \in Reconciling
  BY Zenon DEF Reconciling
<1>7. \A ds \in SUBSET Objects : [v EXCEPT !.doomed = ds] \in Reconciling
  BY Zenon DEF Reconciling
<1>8. \A pc \in WorkerSteps, s, ds \in SUBSET Objects :
         [v EXCEPT !.pc = pc, !.safe = s, !.needed = ds] \in Reconciling
  BY Zenon DEF Reconciling
<1> QED
  BY Zenon, <1>1, <1>2, <1>3, <1>4, <1>5, <1>6, <1>7, <1>8

\* A step that leaves the installer and the store alone, but for a fault.
LEMMA QuietType ==
  ASSUME TypeOK, UNCHANGED <<rel, good, revisions, refuses, p, edits>>,
         holder' \in Callers \cup {None}, faults' \in Nat
  PROVE  TypeOK'
  BY DEF TypeOK

LEMMA ClassifyType ==
  ASSUME NEW r PROVE ClassifyReleaseOwnership(r) \in Kinds
  BY DEF ClassifyReleaseOwnership, Kinds

LEMMA DecideType ==
  ASSUME NEW spec, NEW kind \in Kinds
  PROVE  DecideCleanup(spec, kind) \in Outcomes
  BY Zenon DEF DecideCleanup, Kinds, AllowsDelete, Outcomes

LEMMA EndsType ==
  ASSUME Typed, w.key \in Configs
  PROVE  /\ Done => w' \in Reconciling /\ w'.pc = "idle"
         /\ Again => w' \in Reconciling /\ w'.pc = "idle" /\ queue' \subseteq Configs
         /\ CallFails => /\ w' \in Reconciling /\ w'.pc = "idle" /\ queue' \subseteq Configs
                         /\ faults' \in Nat /\ cfg' = cfg
<1>1. Waiting.pc = "idle"
  BY DEF Waiting
<1>2. CallFails => faults' \in Nat /\ cfg' = cfg /\ Again
  BY FaultsType DEF CallFails, Typed, LifecycleTypeOK
<1> QED
  BY <1>1, <1>2, WaitingType DEF Done, Again, Typed, LifecycleTypeOK

-----------------------------------------------------------------------------
(* One lemma per kind of step                                               *)

\* A worker that has gone back to its queue owes nothing.
LEMMA IdleKnows ==
  ASSUME Asked, w.pc # "installing", p' = p, w'.pc = "idle"
  PROVE  Keyed' /\ Guarded' /\ Asked' /\ Decided' /\ SeenTwice'
  BY DEF Keyed, Guarded, Asked, Decided, SeenTwice

\* A step of the worker's own, outside the installer, that leaves dataplane, user
\* operations and lists alone, and the release to the proof of its type.
LEMMA EndInv ==
  ASSUME LifecycleInv, w.pc \notin {"idle", "installing"}, TypeOK',
         Done \/ Again, cfg' \in [Configs -> Config], queue' \subseteq Configs,
         UNCHANGED <<p, plane, ops, lists>>
  PROVE  LifecycleInv'
<1>1. w.key \in Configs
  BY DEF LifecycleInv, Typed, Keyed
<1>2. w' \in Reconciling /\ w'.pc = "idle"
  BY <1>1, EndsType DEF LifecycleInv
<1>3. LifecycleTypeOK'
  BY <1>2 DEF LifecycleInv, Typed, LifecycleTypeOK
<1> QED
  BY <1>2, <1>3, IdleKnows DEF LifecycleInv, Typed

\* The same for a failed call.
LEMMA FailInv ==
  ASSUME LifecycleInv, w.pc \notin {"idle", "installing"}, CallFails,
         UNCHANGED <<rel, good, revisions, refuses, holder, p, edits, plane, ops, lists>>
  PROVE  LifecycleInv'
<1>1. w.key \in Configs
  BY DEF LifecycleInv, Typed, Keyed
<1>2. Again /\ queue' \subseteq Configs /\ faults' \in Nat /\ cfg' = cfg
  BY <1>1, EndsType DEF LifecycleInv, CallFails
<1>3. TypeOK'
  BY <1>2, QuietType DEF LifecycleInv, Typed, LifecycleTypeOK, TypeOK
<1> QED
  BY <1>2, <1>3, EndInv DEF LifecycleInv, Typed, LifecycleTypeOK

LEMMA DequeueInv ==
  ASSUME LifecycleInv, NEW n \in Configs, Dequeue(n)
  PROVE  LifecycleInv'
<1>1. w' \in Reconciling /\ w'.pc = "reconcile" /\ w'.key = n
  BY Zenon, WaitingType, RecordType DEF Dequeue, WorkerSteps, Waiting
<1>2. TypeOK'
  BY DEF LifecycleInv, Typed, LifecycleTypeOK, Dequeue, vars, TypeOK
<1>3. LifecycleTypeOK'
  BY <1>1, <1>2 DEF LifecycleInv, Typed, LifecycleTypeOK, Dequeue
<1>4. p' = p /\ p[Worker].pc = "idle"
  BY DEF LifecycleInv, Asked, Dequeue, vars
<1> QED
  BY <1>1, <1>3, <1>4 DEF LifecycleInv, Typed, Keyed, Guarded, Asked, Decided, SeenTwice

LEMMA ReconcileInv ==
  ASSUME LifecycleInv, Reconcile
  PROVE  LifecycleInv'
<1>1. w.key \in Configs /\ w.pc = "reconcile" /\ w \in Reconciling
  BY DEF LifecycleInv, Typed, Keyed, Reconcile, LifecycleTypeOK
<1>2. cfg[w.key] \in Config /\ cfg[w.key].spec \in Policy
  BY <1>1 DEF LifecycleInv, Typed, LifecycleTypeOK, Config
<1>3. UNCHANGED <<rel, good, revisions, refuses, holder, p, edits, plane, ops, lists>>
  BY DEF Reconcile
<1>4. CASE CallFails
  BY <1>1, <1>3, <1>4, FailInv
<1>5. CASE Succeeds /\ UNCHANGED <<cfg, queue>>
  <2>1. TypeOK' /\ p[Worker].pc = "idle"
    BY <1>1, <1>3, <1>5 DEF LifecycleInv, Typed, LifecycleTypeOK, TypeOK, Succeeds, Asked
  <2>2. CASE Done
    BY <1>1, <1>3, <1>5, <2>1, <2>2, EndInv DEF LifecycleInv, Typed, LifecycleTypeOK
  <2>3. CASE w' = [w EXCEPT !.pc = "lock", !.spec = cfg[w.key].spec]
    <3>1. w' \in Reconciling
      BY Zenon, <1>1, <1>2, <2>3, RecordType DEF WorkerSteps
    <3>2. w'.pc = "lock" /\ w'.key = w.key
      BY Zenon, <1>1, <2>3 DEF Reconciling
    <3> QED
      BY <1>1, <1>3, <1>5, <2>1, <3>1, <3>2
         DEF LifecycleInv, Typed, LifecycleTypeOK, Keyed, Guarded, Asked, Decided, SeenTwice
  <2>4. CASE /\ cfg[w.key].live
             /\ w' = [w EXCEPT !.pc = IF cfg[w.key].spec.known /\ ~cfg[w.key].fin
                                      THEN "finalizer" ELSE "install",
                               !.spec = cfg[w.key].spec]
    <3>1. /\ w' \in Reconciling /\ w'.key = w.key /\ w'.spec = cfg[w.key].spec
          /\ w'.pc \in {"finalizer", "install"}
          /\ w'.pc = "install" /\ w'.spec.known => cfg[w.key].fin
      <4> DEFINE pc == IF cfg[w.key].spec.known /\ ~cfg[w.key].fin THEN "finalizer" ELSE "install"
      <4>1. pc \in WorkerSteps
        BY DEF WorkerSteps
      <4>2. w' = [w EXCEPT !.pc = pc, !.spec = cfg[w.key].spec]
        BY <2>4
      <4>3. w' \in Reconciling
        BY Zenon, <1>1, <1>2, <4>1, <4>2, RecordType
      <4>4. w'.pc = pc /\ w'.key = w.key /\ w'.spec = cfg[w.key].spec
        BY Zenon, <1>1, <4>2 DEF Reconciling
      <4> QED
        BY <4>3, <4>4, <1>2 DEF Config
    <3> QED
      BY <1>1, <1>3, <1>5, <2>1, <2>4, <3>1
         DEF LifecycleInv, Typed, LifecycleTypeOK, Keyed, Guarded, Asked, Decided, SeenTwice
  <2> QED
    BY <1>5, <1>1, <2>2, <2>3, <2>4 DEF Reconcile, CallFails, Again
<1> QED
  BY <1>4, <1>5 DEF Reconcile

LEMMA FinalizerInv ==
  ASSUME LifecycleInv, ensureCleanupFinalizer
  PROVE  LifecycleInv'
<1>1. w.key \in Configs /\ w.pc = "finalizer" /\ w \in Reconciling
  BY DEF LifecycleInv, Typed, Keyed, ensureCleanupFinalizer, LifecycleTypeOK
<1>2. /\ cfg \in [Configs -> Config] /\ queue \subseteq Configs
      /\ cfg[w.key] \in Config /\ cfg[w.key].spec \in Policy
  BY <1>1 DEF LifecycleInv, Typed, LifecycleTypeOK, Config
<1>3. UNCHANGED <<rel, good, revisions, refuses, holder, p, edits, plane, ops, lists>>
  BY DEF ensureCleanupFinalizer
<1>4. CASE CallFails
  BY <1>1, <1>3, <1>4, FailInv
<1>5. CASE Succeeds
  <2>1. TypeOK' /\ p[Worker].pc = "idle"
    BY <1>1, <1>3, <1>5 DEF LifecycleInv, Typed, LifecycleTypeOK, TypeOK, Succeeds, Asked
  <2>2. CASE Again /\ UNCHANGED cfg
    BY <1>1, <1>2, <1>3, <2>1, <2>2, EndInv DEF Again
  <2>3. CASE /\ cfg[w.key].live /\ ~cfg[w.key].deleting
             /\ w' = [w EXCEPT !.pc = "install", !.spec = cfg[w.key].spec]
             /\ IF cfg[w.key].spec.known /\ ~cfg[w.key].fin
                THEN Store(w.key, [cfg[w.key] EXCEPT !.fin = TRUE])
                ELSE UNCHANGED <<cfg, queue>>
    <3>1. w' \in Reconciling
      BY Zenon, <1>1, <1>2, <2>3, RecordType DEF WorkerSteps
    <3>2. w'.pc = "install" /\ w'.key = w.key /\ w'.spec = cfg[w.key].spec
      BY Zenon, <1>1, <2>3 DEF Reconciling
    <3> DEFINE finalized == [cfg[w.key] EXCEPT !.fin = TRUE]
    <3>3. /\ finalized \in Config /\ finalized.live /\ finalized.fin
          /\ finalized.spec = cfg[w.key].spec
      BY Zenon, <1>2, <2>3 DEF Config
    <3>4. /\ cfg' \in [Configs -> Config] /\ queue' \subseteq Configs
          /\ cfg'[w.key].live
          /\ w'.spec.known => cfg'[w.key].fin
      <4>1. CASE Store(w.key, finalized)
        <5>1. cfg'[w.key] = finalized
          BY Zenon, <1>1, <1>2, <3>3, <4>1 DEF Store
        <5> QED
          BY <1>1, <3>3, <4>1, <5>1, StoreType DEF LifecycleInv, Typed
      <4>2. CASE ~(cfg[w.key].spec.known /\ ~cfg[w.key].fin) /\ UNCHANGED <<cfg, queue>>
        BY <1>2, <2>3, <3>2, <4>2 DEF Config
      <4> QED
        BY <2>3, <4>1, <4>2
    <3> QED
      BY <1>1, <1>3, <2>1, <3>1, <3>2, <3>4
         DEF LifecycleInv, Typed, LifecycleTypeOK, Keyed, Guarded, Asked, Decided, SeenTwice
  <2> QED
    BY <1>1, <1>5, <2>2, <2>3 DEF ensureCleanupFinalizer, CallFails
<1> QED
  BY <1>4, <1>5 DEF ensureCleanupFinalizer

LEMMA EnsureInstalledInv ==
  ASSUME LifecycleInv, EnsureInstalled
  PROVE  LifecycleInv'
<1>1. w.key \in Configs /\ w.pc = "install" /\ w \in Reconciling /\ p[Worker].pc = "idle"
  BY DEF LifecycleInv, Typed, Keyed, Asked, EnsureInstalled, LifecycleTypeOK
<1>2. UNCHANGED <<rel, good, revisions, refuses, holder, faults, edits, cfg, queue, plane, ops, lists>>
  BY DEF EnsureInstalled
<1>3. CASE ~w.spec.known /\ Done /\ UNCHANGED p
  <2>1. TypeOK'
    BY <1>2, <1>3 DEF LifecycleInv, Typed, LifecycleTypeOK, TypeOK
  <2> QED
    BY <1>1, <1>2, <1>3, <2>1, EndInv DEF LifecycleInv, Typed, LifecycleTypeOK
<1>4. CASE w.spec.known /\ Goes("conditions") /\ UNCHANGED p
  <2>1. TypeOK'
    BY <1>2, <1>4 DEF LifecycleInv, Typed, LifecycleTypeOK, TypeOK
  <2>2. w' \in Reconciling
    BY Zenon, <1>1, <1>4, RecordType DEF Goes, WorkerSteps
  <2>3. w'.pc = "conditions" /\ w'.key = w.key
    BY Zenon, <1>1, <1>4 DEF Goes, Reconciling
  <2> QED
    BY <1>1, <1>2, <1>4, <2>1, <2>2, <2>3
       DEF LifecycleInv, Typed, LifecycleTypeOK, Keyed, Guarded, Asked, Decided, SeenTwice
<1>5. CASE /\ w.spec.known
           /\ Goes("installing")
           /\ p' = [p EXCEPT ![Worker] = [Idle EXCEPT !.pc = "acquire", !.adopt = w.spec.adopt]]
  <2>1. w' \in Reconciling
    BY Zenon, <1>1, <1>5, RecordType DEF Goes, WorkerSteps
  <2>2. w'.pc = "installing" /\ w'.key = w.key /\ w'.spec = w.spec
    BY Zenon, <1>1, <1>5 DEF Goes, Reconciling
  <2>3. w.spec.adopt \in BOOLEAN
    BY Zenon, <1>1 DEF Reconciling, Policy
  <2> DEFINE started == [Idle EXCEPT !.pc = "acquire", !.adopt = w.spec.adopt]
  <2>4. started \in Ensuring
    BY Zenon, <2>3, IdleType DEF Ensuring, Steps
  <2>5. started.pc = "acquire" /\ started.adopt = w.spec.adopt
    BY DEF Idle
  <2>6. p' \in [Callers -> Ensuring] /\ p'[Worker] = started
    BY <1>5, <2>4, WorkerCalls DEF LifecycleInv, Typed, LifecycleTypeOK, TypeOK
  <2>7. TypeOK'
    BY <1>2, <2>6 DEF LifecycleInv, Typed, LifecycleTypeOK, TypeOK
  <2> QED
    BY <1>1, <1>2, <1>5, <2>1, <2>2, <2>5, <2>6, <2>7
       DEF LifecycleInv, Typed, LifecycleTypeOK, Keyed, Guarded, Asked, Decided, SeenTwice
<1> QED
  BY <1>3, <1>4, <1>5 DEF EnsureInstalled

\* A call keeps the wish it was started with, and only that wish leads to a claim.
LEMMA WorkKeepsWish ==
  ASSUME TypeOK, NEW c \in Callers, Work(c)
  PROVE  /\ p[c].pc # "idle"
         /\ p'[c].pc # "idle" => p'[c].adopt = p[c].adopt
         /\ p'[c].pc = "claim" => p[c].adopt
<1>1. p[c].pc # "idle" /\ p[c] \in Ensuring
  BY Zenon DEF TypeOK, Work, Acquire, GetRelease, Install, ClaimRelease, Upgrade, AfterFailure, Rollback
<1>2. ASSUME NEW a, NEW s, Return(c, a, s)
      PROVE  p'[c].pc = "idle"
  BY <1>2, ReturnIdle
<1>3. ASSUME NEW pc \in {"get", "install"}, Goto(c, pc)
      PROVE  p'[c].pc = pc /\ p'[c].adopt = p[c].adopt
  BY <1>1, <1>3 DEF Goto, TypeOK, Ensuring
<1>4. ASSUME p[c].adopt, Goto(c, "claim")
      PROVE  p'[c].adopt = p[c].adopt
  BY Zenon, <1>1, <1>4 DEF Goto, TypeOK, Ensuring
<1>5. ASSUME StartUpgrade(c)
      PROVE  p'[c].pc = "upgrade" /\ p'[c].adopt = p[c].adopt
  BY <1>1, <1>5 DEF StartUpgrade, TypeOK, Ensuring
<1>6. ASSUME NEW cause, Observe(c, cause)
      PROVE  p'[c].pc = "observe" /\ p'[c].adopt = p[c].adopt
  BY <1>1, <1>6 DEF Observe, TypeOK, Ensuring
<1>7. ASSUME NextAttempt(c)
      PROVE  p'[c].pc \in {"upgrade", "rollback"} /\ p'[c].adopt = p[c].adopt
  <2>1. \/ p'[c] = [p[c] EXCEPT !.pc = "upgrade", !.attempt = p[c].attempt + 1]
        \/ p'[c] = [p[c] EXCEPT !.pc = "rollback"]
    BY <1>7 DEF NextAttempt, TypeOK
  <2> QED
    BY Zenon, <1>1, <2>1 DEF Ensuring
<1>8. CASE Acquire(c)
  BY <1>1, <1>3, <1>8 DEF Acquire
<1>9. CASE GetRelease(c)
  <2>1. \/ Goto(c, "install") \/ (p[c].adopt /\ Goto(c, "claim"))
        \/ StartUpgrade(c) \/ \E a, s : Return(c, a, s)
    BY <1>9 DEF GetRelease
  <2> QED
    BY <1>1, <1>2, <1>3, <1>4, <1>5, <2>1
<1>10. CASE Install(c) \/ ClaimRelease(c) \/ Rollback(c)
  <2>1. \E a, s : Return(c, a, s)
    BY <1>10 DEF Install, InstallOver, ClaimRelease, Rollback
  <2> QED
    BY <1>1, <1>2, <2>1
<1>11. CASE Upgrade(c) \/ AfterFailure(c)
  <2>1. \/ \E a, s : Return(c, a, s)
        \/ \E cause : Observe(c, cause)
        \/ NextAttempt(c)
    BY Zenon, <1>11 DEF Upgrade, AfterFailure
  <2> QED
    BY <1>1, <1>2, <1>6, <1>7, <2>1
<1> QED
  BY <1>8, <1>9, <1>10, <1>11 DEF Work

LEMMA InstallingInv ==
  ASSUME LifecycleInv, Installing
  PROVE  LifecycleInv'
<1>1. Worker \in Callers /\ Work(Worker) /\ w.pc = "installing" /\ UNCHANGED <<cfg, queue, w, plane, ops, lists>>
  BY WorkerCalls DEF Installing, lifecycleVars
<1>2. TypeOK
  BY DEF LifecycleInv, Typed, LifecycleTypeOK
<1>3. TypeOK'
  BY <1>1, <1>2, StepType DEF Next
<1>4. Asked'
  BY <1>1, <1>2, WorkKeepsWish DEF LifecycleInv, Asked
<1> QED
  BY <1>1, <1>3, <1>4
     DEF LifecycleInv, Typed, LifecycleTypeOK, Keyed, Guarded, Decided, SeenTwice

LEMMA InstalledInv ==
  ASSUME LifecycleInv, Installed
  PROVE  LifecycleInv'
<1>1. /\ w.key \in Configs /\ w.pc = "installing" /\ w \in Reconciling /\ p[Worker].pc = "idle"
      /\ UNCHANGED <<rel, good, revisions, refuses, holder, p, faults, edits, cfg, plane, ops, lists>>
  BY DEF LifecycleInv, Typed, Keyed, Installed, LifecycleTypeOK, vars
<1>2. TypeOK'
  BY <1>1 DEF LifecycleInv, Typed, LifecycleTypeOK, TypeOK
<1>3. CASE Goes("conditions") /\ UNCHANGED queue
  <2>1. w' \in Reconciling
    BY Zenon, <1>1, <1>3, RecordType DEF Goes, WorkerSteps
  <2>2. w'.pc = "conditions" /\ w'.key = w.key
    BY Zenon, <1>1, <1>3 DEF Goes, Reconciling
  <2> QED
    BY <1>1, <1>2, <1>3, <2>1, <2>2
       DEF LifecycleInv, Typed, LifecycleTypeOK, Keyed, Guarded, Asked, Decided, SeenTwice
<1>4. CASE Again
  <2>1. w' \in Reconciling /\ w'.pc = "idle" /\ queue' \subseteq Configs
    BY <1>1, <1>4, EndsType DEF LifecycleInv
  <2> QED
    BY <1>1, <1>2, <1>4, <2>1
       DEF LifecycleInv, Typed, LifecycleTypeOK, Keyed, Guarded, Asked, Decided, SeenTwice
<1> QED
  BY <1>3, <1>4 DEF Installed

LEMMA SetConditionsInv ==
  ASSUME LifecycleInv, SetConditions
  PROVE  LifecycleInv'
<1>1. /\ w.key \in Configs /\ w.pc = "conditions"
      /\ UNCHANGED <<rel, good, revisions, refuses, holder, p, edits, plane, ops, lists>>
  BY DEF LifecycleInv, Typed, Keyed, SetConditions
<1>2. CASE CallFails
  BY <1>1, <1>2, FailInv
<1>3. CASE Succeeds /\ UNCHANGED cfg /\ (Again \/ (Done /\ UNCHANGED queue))
  <2>1. TypeOK'
    BY <1>1, <1>3 DEF LifecycleInv, Typed, LifecycleTypeOK, TypeOK, Succeeds
  <2>2. queue' \subseteq Configs
    BY <1>1, <1>3 DEF Again, LifecycleInv, Typed, LifecycleTypeOK
  <2> QED
    BY <1>1, <1>3, <2>1, <2>2, EndInv DEF LifecycleInv, Typed, LifecycleTypeOK
<1> QED
  BY <1>2, <1>3 DEF SetConditions

-----------------------------------------------------------------------------
(* The same for the steps of a cleanup                                      *)

\* What is left to show of a step of the cleanup: the installer is not running,
\* so only the decision and the second look at the references can be disturbed.
LEMMA CleanupInv ==
  ASSUME LifecycleInv, w.pc \notin {"idle", "installing"}, TypeOK',
         w' \in Reconciling, w'.key = w.key, w'.pc \notin {"install", "installing"},
         Decided', SeenTwice',
         cfg' \in [Configs -> Config], queue' \subseteq Configs,
         plane' \in [Objects -> DataplaneObject], lists' \in Nat,
         UNCHANGED <<p, ops>>
  PROVE  LifecycleInv'
  BY DEF LifecycleInv, Typed, LifecycleTypeOK, Keyed, Guarded, Asked

LEMMA ConcludeType ==
  ASSUME w \in Reconciling, NEW o \in Outcomes, Conclude(o)
  PROVE  w' \in Reconciling /\ w'.pc = "record" /\ w'.key = w.key /\ holder' = None
<1>1. w' \in Reconciling
  BY Zenon, RecordType DEF Conclude, WorkerSteps
<1>2. w'.pc = "record" /\ w'.key = w.key
  BY Zenon DEF Conclude, Reconciling
<1> QED
  BY <1>1, <1>2 DEF Conclude

\* A cleanup that returns early.
LEMMA ConcludeInv ==
  ASSUME LifecycleInv, w.pc \notin {"idle", "installing"}, TypeOK',
         NEW o \in Outcomes, Conclude(o),
         plane' \in [Objects -> DataplaneObject], lists' \in Nat,
         UNCHANGED <<p, cfg, queue, ops>>
  PROVE  LifecycleInv'
<1>1. w' \in Reconciling /\ w'.pc = "record" /\ w'.key = w.key
  BY ConcludeType DEF LifecycleInv, Typed, LifecycleTypeOK
<1>2. Decided' /\ SeenTwice'
  BY <1>1 DEF Decided, SeenTwice
<1> QED
  BY <1>1, <1>2, CleanupInv DEF LifecycleInv, Typed, LifecycleTypeOK

LEMMA LockReleaseInv ==
  ASSUME LifecycleInv, LockRelease
  PROVE  LifecycleInv'
<1>1. /\ w.pc = "lock" /\ w \in Reconciling /\ holder' = Worker
      /\ UNCHANGED <<rel, good, revisions, refuses, p, faults, edits, cfg, queue, plane, ops, lists>>
  BY DEF LifecycleInv, Typed, LifecycleTypeOK, LockRelease
<1>2. TypeOK'
  BY <1>1, WorkerCalls DEF LifecycleInv, Typed, LifecycleTypeOK, TypeOK
<1>3. w' \in Reconciling
  BY Zenon, <1>1, RecordType DEF LockRelease, Goes, WorkerSteps
<1>4. w'.pc = "release" /\ w'.key = w.key
  BY Zenon, <1>1 DEF LockRelease, Goes, Reconciling
<1>5. Decided' /\ SeenTwice'
  BY <1>4 DEF Decided, SeenTwice
<1> QED
  BY <1>1, <1>2, <1>3, <1>4, <1>5, CleanupInv DEF LifecycleInv, Typed, LifecycleTypeOK

LEMMA ReadReleaseInv ==
  ASSUME LifecycleInv, ReadRelease
  PROVE  LifecycleInv'
<1>1. /\ w.pc = "release" /\ w \in Reconciling
      /\ UNCHANGED <<rel, good, revisions, refuses, p, edits, cfg, queue, plane, ops, lists>>
  BY DEF LifecycleInv, Typed, LifecycleTypeOK, ReadRelease
<1>2. faults' \in Nat
  BY FaultsType DEF LifecycleInv, Typed, LifecycleTypeOK, ReadRelease
<1>3. ASSUME NEW o \in Outcomes, Conclude(o) PROVE LifecycleInv'
  <2>1. TypeOK'
    BY <1>1, <1>2, <1>3, QuietType DEF Conclude, LifecycleInv, Typed, LifecycleTypeOK
  <2> QED
    BY <1>1, <1>3, <2>1, ConcludeInv DEF LifecycleInv, Typed, LifecycleTypeOK
<1>4. CASE w' = [w EXCEPT !.pc = "refs", !.kind = ClassifyReleaseOwnership(rel)] /\ UNCHANGED holder
  <2>1. w' \in Reconciling
    BY Zenon, <1>1, <1>4, RecordType, ClassifyType DEF WorkerSteps
  <2>2. w'.pc = "refs" /\ w'.key = w.key /\ w'.kind \in Kinds
    BY Zenon, <1>1, <1>4, ClassifyType DEF Reconciling
  <2>3. TypeOK'
    BY <1>1, <1>2, <1>4, QuietType DEF LifecycleInv, Typed, LifecycleTypeOK, TypeOK
  <2>4. Decided' /\ SeenTwice'
    BY <2>2 DEF Decided, SeenTwice
  <2> QED
    BY <1>1, <2>1, <2>2, <2>3, <2>4, CleanupInv DEF LifecycleInv, Typed, LifecycleTypeOK
<1> QED
  BY Zenon, <1>3, <1>4 DEF ReadRelease, Outcomes

\* The first look at the references decides: a plan to delete is made only for an
\* ownership class and a policy that allow it.
LEMMA PlanDecides ==
  ASSUME w \in Reconciling, w.kind \in Kinds, NEW ds \in SUBSET Objects, Plan(ds)
  PROVE  \/ \E o \in Outcomes : Conclude(o)
         \/ /\ w' \in Reconciling /\ w'.pc = "recheck" /\ w'.key = w.key
            /\ AllowsDelete(w'.kind) /\ policyFor(w'.spec, w'.kind) = "delete-owned"
            /\ UNCHANGED holder
<1>1. CASE DecideCleanup(w.spec, w.kind) = "deleted"
  <2>1. w' = [w EXCEPT !.pc = "recheck", !.doomed = ds] /\ UNCHANGED holder
    BY <1>1 DEF Plan
  <2>2. w' \in Reconciling
    BY Zenon, <2>1, RecordType DEF WorkerSteps
  <2>3. w'.pc = "recheck" /\ w'.key = w.key /\ w'.kind = w.kind /\ w'.spec = w.spec
    BY Zenon, <2>1 DEF Reconciling
  <2>4. AllowsDelete(w.kind) /\ policyFor(w.spec, w.kind) = "delete-owned"
    BY <1>1 DEF DecideCleanup, Kinds, AllowsDelete
  <2> QED
    BY <2>1, <2>2, <2>3, <2>4
<1>2. CASE DecideCleanup(w.spec, w.kind) # "deleted"
  BY <1>2, DecideType DEF Plan
<1> QED
  BY <1>1, <1>2

LEMMA FirstRefsInv ==
  ASSUME LifecycleInv, FirstRefs
  PROVE  LifecycleInv'
<1>1. /\ w.pc = "refs" /\ w \in Reconciling /\ w.kind \in Kinds
      /\ UNCHANGED <<rel, good, revisions, refuses, p, faults, edits, cfg, queue, plane, ops>>
  BY DEF LifecycleInv, Typed, LifecycleTypeOK, Decided, FirstRefs
<1>2. lists' \in Nat
  BY DEF FirstRefs, ListFails, LifecycleInv, Typed, LifecycleTypeOK
<1>3. \/ \E ds \in SUBSET Objects : Plan(ds)
      \/ Conclude("failed")
  BY DEF FirstRefs, Unprotected
<1>4. \/ \E o \in Outcomes : Conclude(o)
      \/ /\ w' \in Reconciling /\ w'.pc = "recheck" /\ w'.key = w.key
         /\ AllowsDelete(w'.kind) /\ policyFor(w'.spec, w'.kind) = "delete-owned"
         /\ UNCHANGED holder
  BY Zenon, <1>1, <1>3, PlanDecides DEF Outcomes
<1>5. TypeOK'
  BY Zenon, <1>1, <1>4 DEF Conclude, LifecycleInv, Typed, LifecycleTypeOK, TypeOK
<1>6. CASE \E o \in Outcomes : Conclude(o)
  BY <1>1, <1>2, <1>5, <1>6, ConcludeInv DEF LifecycleInv, Typed, LifecycleTypeOK
<1>7. CASE /\ w' \in Reconciling /\ w'.pc = "recheck" /\ w'.key = w.key
           /\ AllowsDelete(w'.kind) /\ policyFor(w'.spec, w'.kind) = "delete-owned"
  <2>1. Decided' /\ SeenTwice'
    BY <1>7 DEF Decided, SeenTwice, AllowsDelete, policyFor
  <2> QED
    BY <1>1, <1>2, <1>5, <1>7, <2>1, CleanupInv DEF LifecycleInv, Typed, LifecycleTypeOK
<1> QED
  BY <1>4, <1>6, <1>7

LEMMA RecheckInv ==
  ASSUME LifecycleInv, Recheck
  PROVE  LifecycleInv'
<1>1. /\ w.pc = "recheck" /\ w \in Reconciling
      /\ UNCHANGED <<rel, good, revisions, refuses, p, edits, cfg, queue, plane, ops, lists>>
  BY DEF LifecycleInv, Typed, LifecycleTypeOK, Recheck
<1>2. faults' \in Nat
  BY FaultsType DEF LifecycleInv, Typed, LifecycleTypeOK, Recheck
<1>3. ASSUME NEW o \in Outcomes, Conclude(o) PROVE LifecycleInv'
  <2>1. TypeOK'
    BY <1>1, <1>2, <1>3, QuietType DEF Conclude, LifecycleInv, Typed, LifecycleTypeOK
  <2> QED
    BY <1>1, <1>3, <2>1, ConcludeInv DEF LifecycleInv, Typed, LifecycleTypeOK
<1>4. CASE Goes("uninstall") /\ UNCHANGED holder
  <2>1. w' \in Reconciling
    BY Zenon, <1>1, <1>4, RecordType DEF Goes, WorkerSteps
  <2>2. w'.pc = "uninstall" /\ w'.key = w.key /\ w'.kind = w.kind /\ w'.spec = w.spec
    BY Zenon, <1>1, <1>4 DEF Goes, Reconciling
  <2>3. TypeOK'
    BY <1>1, <1>2, <1>4, QuietType DEF LifecycleInv, Typed, LifecycleTypeOK, TypeOK
  <2>4. Decided' /\ SeenTwice'
    BY <1>1, <2>2 DEF LifecycleInv, Decided, SeenTwice, AllowsDelete, policyFor
  <2> QED
    BY <1>1, <2>1, <2>2, <2>3, <2>4, CleanupInv DEF LifecycleInv, Typed, LifecycleTypeOK
<1> QED
  BY Zenon, <1>3, <1>4 DEF Recheck, Outcomes

LEMMA UninstallInv ==
  ASSUME LifecycleInv, Uninstall
  PROVE  LifecycleInv'
<1>1. /\ w.pc = "uninstall" /\ w \in Reconciling /\ TypeOK
      /\ UNCHANGED <<good, refuses, p, edits, cfg, queue, plane, ops, lists>>
  BY DEF LifecycleInv, Typed, LifecycleTypeOK, Uninstall
<1>2. faults' \in Nat
  BY <1>1, FaultsType DEF Uninstall
<1>3. rel' \in Release \cup {None}
  BY <1>1, AfterErrorType DEF Uninstall, TypeOK
<1>4. revisions' \subseteq Version
  BY <1>1, <1>3, RevisedType DEF Uninstall
<1>5. ASSUME NEW o \in Outcomes, Conclude(o) PROVE LifecycleInv'
  <2>1. TypeOK'
    BY <1>1, <1>2, <1>3, <1>4, <1>5 DEF Conclude, TypeOK
  <2> QED
    BY <1>1, <1>5, <2>1, ConcludeInv DEF LifecycleInv, Typed, LifecycleTypeOK
<1>6. CASE Goes("refsAgain") /\ UNCHANGED holder
  <2>1. w' \in Reconciling
    BY Zenon, <1>1, <1>6, RecordType DEF Goes, WorkerSteps
  <2>2. w'.pc = "refsAgain" /\ w'.key = w.key
    BY Zenon, <1>1, <1>6 DEF Goes, Reconciling
  <2>3. TypeOK'
    BY <1>1, <1>2, <1>3, <1>4, <1>6 DEF TypeOK
  <2>4. Decided' /\ SeenTwice'
    BY <2>2 DEF Decided, SeenTwice
  <2> QED
    BY <1>1, <2>1, <2>2, <2>3, <2>4, CleanupInv DEF LifecycleInv, Typed, LifecycleTypeOK
<1> QED
  BY Zenon, <1>5, <1>6 DEF Uninstall, Outcomes

\* The second look sees every reference, or a list has failed.
LEMMA SecondRefsInv ==
  ASSUME LifecycleInv, SecondRefs
  PROVE  LifecycleInv'
<1>1. /\ w.pc = "refsAgain" /\ w \in Reconciling /\ lists \in Nat
      /\ UNCHANGED <<rel, good, revisions, refuses, holder, p, faults, edits, cfg, queue, plane, ops>>
  BY DEF LifecycleInv, Typed, LifecycleTypeOK, SecondRefs, vars
<1>2. PICK safe \in SUBSET Objects :
         /\ LookAgain(safe)
         /\ \/ safe = Sourced \cup OPINames /\ UNCHANGED lists
            \/ lists' = lists + 1
  BY DEF SecondRefs, ListFails, Sourced, OPINames
<1>3. Referenced \subseteq Sourced \cup OPINames /\ Referenced \subseteq Objects
  BY DEF Referenced, referencedByOPI, Sourced, OPINames
<1>4. w' \in Reconciling
  BY Zenon, <1>1, <1>2, <1>3, RecordType DEF LookAgain, WorkerSteps
<1>5. w'.pc = "dataplane" /\ w'.key = w.key /\ w'.safe = safe /\ w'.needed = Referenced
  BY Zenon, <1>1, <1>2 DEF LookAgain, Reconciling
<1>6. lists' \in Nat /\ (lists' = 0 => safe = Sourced \cup OPINames)
  BY <1>1, <1>2
<1>7. Decided' /\ SeenTwice'
  BY <1>3, <1>5, <1>6 DEF Decided, SeenTwice
<1>8. TypeOK'
  BY <1>1 DEF LifecycleInv, Typed, LifecycleTypeOK, TypeOK
<1> QED
  BY Zenon, <1>1, <1>4, <1>5, <1>6, <1>7, <1>8, CleanupInv DEF LifecycleInv, Typed, LifecycleTypeOK

LEMMA DeleteDataplaneInv ==
  ASSUME LifecycleInv, DeleteDataplane
  PROVE  LifecycleInv'
<1>1. /\ w.pc = "dataplane" /\ w \in Reconciling /\ TypeOK /\ plane \in [Objects -> DataplaneObject]
      /\ UNCHANGED <<rel, good, revisions, refuses, p, edits, cfg, queue, ops, lists>>
  BY DEF LifecycleInv, Typed, LifecycleTypeOK, DeleteDataplane
<1>2. CASE Conclude("deleted") /\ UNCHANGED <<plane, faults>>
  <2>1. TypeOK'
    BY <1>1, <1>2 DEF Conclude, TypeOK
  <2> QED
    BY Zenon, <1>1, <1>2, <2>1, ConcludeInv DEF LifecycleInv, Typed, LifecycleTypeOK, Outcomes
<1>3. CASE \E d \in w.doomed \ w.safe :
              /\ w' = [w EXCEPT !.doomed = @ \ {d}]
              /\ \/ Succeeds /\ plane' = [plane EXCEPT ![d].present = FALSE]
                 \/ Fails /\ UNCHANGED plane
              /\ UNCHANGED holder
  <2>1. PICK d \in w.doomed \ w.safe :
              /\ w' = [w EXCEPT !.doomed = @ \ {d}]
              /\ \/ Succeeds /\ plane' = [plane EXCEPT ![d].present = FALSE]
                 \/ Fails /\ UNCHANGED plane
              /\ UNCHANGED holder
    BY Zenon, <1>3
  <2>2. w.doomed \ {d} \in SUBSET Objects /\ d \in Objects
    BY Zenon, <1>1 DEF Reconciling
  <2>3. w' = [w EXCEPT !.doomed = w.doomed \ {d}]
    BY Zenon, <1>1, <2>1 DEF Reconciling
  <2>4. w' \in Reconciling
    BY Zenon, <1>1, <2>2, <2>3, RecordType
  <2>5. w'.pc = "dataplane" /\ w'.key = w.key /\ w'.safe = w.safe /\ w'.needed = w.needed
    BY Zenon, <1>1, <2>3 DEF Reconciling
  <2>6. faults' \in Nat
    BY <1>1, <2>1, FaultsType
  <2>7. TypeOK'
    BY <1>1, <2>1, <2>6 DEF TypeOK
  <2>8. plane' \in [Objects -> DataplaneObject]
    <3>1. plane[d] \in DataplaneObject
      BY Zenon, <1>1, <2>2
    <3>2. [plane[d] EXCEPT !.present = FALSE] \in DataplaneObject
      BY Zenon, <3>1 DEF DataplaneObject
    <3>3. plane' = plane \/ plane' = [plane EXCEPT ![d] = [plane[d] EXCEPT !.present = FALSE]]
      BY <1>1, <2>1, <2>2
    <3> QED
      BY Zenon, <1>1, <2>2, <3>2, <3>3
  <2>9. Decided' /\ SeenTwice'
    BY <1>1, <2>5 DEF LifecycleInv, Decided, SeenTwice
  <2> QED
    BY <1>1, <2>4, <2>5, <2>7, <2>8, <2>9, CleanupInv DEF LifecycleInv, Typed, LifecycleTypeOK
<1> QED
  BY <1>2, <1>3 DEF DeleteDataplane

LEMMA RecordOutcomeInv ==
  ASSUME LifecycleInv, RecordOutcome
  PROVE  LifecycleInv'
<1>1. /\ w.pc = "record" /\ w \in Reconciling /\ w.key \in Configs /\ LifecycleTypeOK
      /\ UNCHANGED <<rel, good, revisions, refuses, holder, p, edits, plane, ops, lists>>
  BY DEF LifecycleInv, Typed, Keyed, LifecycleTypeOK, RecordOutcome
<1>2. CASE CallFails
  BY <1>1, <1>2, FailInv
<1>3. CASE /\ Succeeds
           /\ IF w.outcome = "changed" THEN w' = Waiting ELSE Goes("unfinalize")
           /\ IF cfg[w.key].live
              THEN Store(w.key, [cfg[w.key] EXCEPT !.cleanup = w.outcome])
              ELSE UNCHANGED cfg /\ queue' = queue \cup {w.key}
  <2>1. cfg[w.key] \in Config /\ w.outcome \in Outcomes
    BY Zenon, <1>1 DEF LifecycleTypeOK, Reconciling
  <2>2. [cfg[w.key] EXCEPT !.cleanup = w.outcome] \in Config
    BY <2>1 DEF Config
  <2>3. cfg' \in [Configs -> Config] /\ queue' \subseteq Configs
    BY <1>1, <1>3, <2>2, StoreType DEF LifecycleTypeOK
  <2>4. TypeOK'
    BY <1>1, <1>3 DEF LifecycleTypeOK, TypeOK, Succeeds
  <2>5. CASE w' = Waiting
    BY <1>1, <2>3, <2>4, <2>5, EndInv DEF Done
  <2>6. CASE Goes("unfinalize")
    <3>1. w' \in Reconciling
      BY Zenon, <1>1, <2>6, RecordType DEF Goes, WorkerSteps
    <3>2. w'.pc = "unfinalize" /\ w'.key = w.key
      BY Zenon, <1>1, <2>6 DEF Goes, Reconciling
    <3>3. Decided' /\ SeenTwice'
      BY <3>2 DEF Decided, SeenTwice
    <3> QED
      BY <1>1, <2>3, <2>4, <3>1, <3>2, <3>3, CleanupInv DEF LifecycleTypeOK
  <2> QED
    BY <1>3, <2>5, <2>6
<1> QED
  BY <1>2, <1>3 DEF RecordOutcome

LEMMA RemoveFinalizerInv ==
  ASSUME LifecycleInv, removeCleanupFinalizer
  PROVE  LifecycleInv'
<1>1. /\ w.pc = "unfinalize" /\ w.key \in Configs /\ LifecycleTypeOK
      /\ UNCHANGED <<rel, good, revisions, refuses, holder, p, edits, plane, ops, lists>>
  BY DEF LifecycleInv, Typed, Keyed, removeCleanupFinalizer
<1>2. CASE CallFails
  BY <1>1, <1>2, FailInv
<1>3. CASE /\ Succeeds
           /\ IF cfg[w.key].live
              THEN Store(w.key, [cfg[w.key] EXCEPT !.fin = FALSE])
              ELSE UNCHANGED <<cfg, queue>>
           /\ Done
  <2>1. [cfg[w.key] EXCEPT !.fin = FALSE] \in Config
    BY Zenon, <1>1 DEF LifecycleTypeOK, Config
  <2>2. cfg' \in [Configs -> Config] /\ queue' \subseteq Configs
    BY <1>1, <1>3, <2>1, StoreType DEF LifecycleTypeOK
  <2>3. TypeOK'
    BY <1>1, <1>3 DEF LifecycleTypeOK, TypeOK, Succeeds
  <2> QED
    BY <1>1, <1>3, <2>2, <2>3, EndInv
<1> QED
  BY <1>2, <1>3 DEF removeCleanupFinalizer

-----------------------------------------------------------------------------
(* Users, other writers, restarts                                           *)

\* A user's write keeps the finalizer of a live config, so the config stays.
LEMMA UserInv ==
  ASSUME LifecycleInv, NEW n \in Configs, CreateConfig(n) \/ EditConfig(n) \/ DeleteConfig(n)
  PROVE  LifecycleInv'
<1>1. /\ LifecycleTypeOK /\ ops' \in Nat /\ cfg[n] \in Config
      /\ UNCHANGED <<rel, good, revisions, refuses, holder, p, faults, edits, w, plane, lists>>
  <2>1. LifecycleTypeOK /\ ops \in Nat /\ cfg[n] \in Config
    BY DEF LifecycleInv, Typed, LifecycleTypeOK
  <2>2. UserOp /\ UNCHANGED <<vars, w, plane, lists>>
    BY Zenon DEF CreateConfig, EditConfig, DeleteConfig
  <2> QED
    BY <2>1, <2>2 DEF UserOp, vars
<1>2. PICK c \in Config : Store(n, c) /\ (cfg[n].live => c.live /\ c.fin = cfg[n].fin)
  <2>1. CASE CreateConfig(n)
    <3>1. PICK spec \in Annotated : Store(n, [Absent EXCEPT !.live = TRUE, !.spec = spec])
      BY Zenon, <2>1 DEF CreateConfig
    <3>2. [Absent EXCEPT !.live = TRUE, !.spec = spec] \in Config
      BY Zenon, AbsentType, LifecycleAssumption DEF Config, Policy
    <3> QED
      BY Zenon, <2>1, <3>1, <3>2 DEF CreateConfig
  <2>2. CASE EditConfig(n)
    <3>1. PICK spec \in Annotated : Store(n, [cfg[n] EXCEPT !.spec = spec])
      BY <2>2 DEF EditConfig
    <3>2. [cfg[n] EXCEPT !.spec = spec] \in Config
      BY <1>1, LifecycleAssumption DEF Config, Policy
    <3>3. [cfg[n] EXCEPT !.spec = spec].live = cfg[n].live /\ [cfg[n] EXCEPT !.spec = spec].fin = cfg[n].fin
      BY <1>1 DEF Config
    <3> QED
      BY Zenon, <3>1, <3>2, <3>3
  <2>3. CASE DeleteConfig(n)
    <3>1. Store(n, [cfg[n] EXCEPT !.deleting = TRUE])
      BY <2>3 DEF DeleteConfig
    <3>2. [cfg[n] EXCEPT !.deleting = TRUE] \in Config
      BY Zenon, <1>1 DEF Config
    <3>3. /\ [cfg[n] EXCEPT !.deleting = TRUE].live = cfg[n].live
          /\ [cfg[n] EXCEPT !.deleting = TRUE].fin = cfg[n].fin
      BY <1>1 DEF Config
    <3> QED
      BY Zenon, <3>1, <3>2, <3>3
  <2> QED
    BY <2>1, <2>2, <2>3
<1>3. cfg' \in [Configs -> Config] /\ queue' \subseteq Configs
  BY <1>1, <1>2, StoreType
<1>4. LifecycleTypeOK'
  BY <1>1, <1>3 DEF LifecycleTypeOK, TypeOK
<1>5. \A k \in Configs : cfg[k].live /\ cfg[k].fin => cfg'[k].live /\ cfg'[k].fin
  <2>1. \A k \in Configs \ {n} : cfg'[k] = cfg[k]
    BY <1>1, <1>2 DEF Store, LifecycleTypeOK
  <2>2. cfg[n].live /\ cfg[n].fin => cfg'[n] = c
    BY Zenon, <1>1, <1>2 DEF Store, LifecycleTypeOK
  <2> QED
    BY Zenon, <1>2, <2>1, <2>2
<1>6. Guarded'
  BY <1>1, <1>5 DEF LifecycleInv, Typed, Keyed, Guarded
<1> QED
  BY Zenon, <1>1, <1>4, <1>6 DEF LifecycleInv, Typed, Keyed, Asked, Decided, SeenTwice, policyFor

LEMMA ReferenceInv ==
  ASSUME LifecycleInv, NEW d \in Objects, ReferenceChanges(d)
  PROVE  LifecycleInv'
<1>1. /\ LifecycleTypeOK /\ ops' \in Nat
      /\ UNCHANGED <<rel, good, revisions, refuses, holder, p, faults, edits, cfg, queue, w, lists>>
  BY DEF LifecycleInv, Typed, LifecycleTypeOK, ReferenceChanges, UserOp, vars
<1>2. plane' \in [Objects -> DataplaneObject]
  <2>1. /\ [plane[d] EXCEPT !.opi = ~plane[d].opi] \in DataplaneObject
        /\ [plane[d] EXCEPT !.source = TRUE] \in DataplaneObject
    BY Zenon, <1>1 DEF LifecycleTypeOK, DataplaneObject
  <2>2. \/ plane' = [plane EXCEPT ![d] = [plane[d] EXCEPT !.opi = ~plane[d].opi]]
        \/ plane' = [plane EXCEPT ![d] = [plane[d] EXCEPT !.source = TRUE]]
    BY Zenon, <1>1 DEF LifecycleTypeOK, ReferenceChanges, DataplaneObject
  <2> QED
    BY Zenon, <1>1, <2>1, <2>2 DEF LifecycleTypeOK
<1>3. LifecycleTypeOK'
  BY <1>1, <1>2 DEF LifecycleTypeOK, TypeOK
<1> QED
  BY Zenon, <1>1, <1>3 DEF LifecycleInv, Typed, Keyed, Guarded, Asked, Decided, SeenTwice, policyFor

LEMMA OthersInv ==
  ASSUME LifecycleInv, OthersEditRelease
  PROVE  LifecycleInv'
<1>1. TypeOK'
  BY StepType DEF OthersEditRelease, Next, LifecycleInv, Typed, LifecycleTypeOK
<1>2. UNCHANGED <<p, cfg, queue, w, plane, ops, lists>>
  BY DEF OthersEditRelease, ThirdPartyEdit, lifecycleVars
<1> QED
  BY Zenon, <1>1, <1>2 DEF LifecycleInv, Typed, LifecycleTypeOK, Keyed, Guarded, Asked, Decided,
                    SeenTwice, policyFor

LEMMA RestartInv ==
  ASSUME LifecycleInv, RestartManager
  PROVE  LifecycleInv'
<1>1. TypeOK'
  BY StepType DEF RestartManager, Next, LifecycleInv, Typed, LifecycleTypeOK
<1>2. p'[Worker].pc = "idle"
  BY Zenon, WorkerCalls DEF RestartManager, Restart, Idle
<1>3. w' \in Reconciling /\ w'.pc = "idle"
  BY Zenon, WaitingType DEF RestartManager, Waiting
<1>4. LifecycleTypeOK'
  BY <1>1, <1>3 DEF RestartManager, LifecycleInv, Typed, LifecycleTypeOK
<1> QED
  BY Zenon, <1>2, <1>3, <1>4 DEF LifecycleInv, Typed, Keyed, Guarded, Asked, Decided, SeenTwice

LEMMA InitInv == LifecycleInit => LifecycleInv
<1> SUFFICES ASSUME LifecycleInit PROVE LifecycleInv
  OBVIOUS
<1>1. TypeOK /\ p[Worker].pc = "idle"
  BY Zenon, InitType, WorkerCalls DEF LifecycleInit, Init, Idle
<1>2. w.pc = "idle" /\ w \in Reconciling
  BY Zenon, WaitingType DEF LifecycleInit, Waiting
<1>3. LifecycleTypeOK
  BY <1>1, <1>2, AbsentType DEF LifecycleInit, LifecycleTypeOK, FirstObjects
<1> QED
  BY <1>1, <1>2, <1>3 DEF LifecycleInv, Typed, Keyed, Guarded, Asked, Decided, SeenTwice

LEMMA NextInv ==
  ASSUME LifecycleInv, [LifecycleNext]_allVars
  PROVE  LifecycleInv'
<1>1. CASE Cleanup
  BY <1>1, LockReleaseInv, ReadReleaseInv, FirstRefsInv, RecheckInv, UninstallInv, SecondRefsInv,
     DeleteDataplaneInv, RecordOutcomeInv, RemoveFinalizerInv DEF Cleanup
<1>2. CASE WorkerStep
  BY <1>1, <1>2, ReconcileInv, FinalizerInv, EnsureInstalledInv, InstallingInv, InstalledInv,
     SetConditionsInv DEF WorkerStep
<1>3. CASE UNCHANGED allVars
  <2>1. /\ rel' = rel /\ good' = good /\ revisions' = revisions /\ refuses' = refuses
        /\ holder' = holder /\ p' = p /\ faults' = faults /\ edits' = edits /\ cfg' = cfg
        /\ queue' = queue /\ w' = w /\ plane' = plane /\ ops' = ops /\ lists' = lists
    BY <1>3 DEF allVars, vars, lifecycleVars
  <2>2. Typed'
    BY Zenon, <2>1 DEF LifecycleInv, Typed, LifecycleTypeOK, TypeOK, Keyed
  <2>3. Guarded' /\ Asked'
    BY Zenon, <2>1 DEF LifecycleInv, Guarded, Asked
  <2>4. Decided' /\ SeenTwice'
    BY Zenon, <2>1 DEF LifecycleInv, Decided, SeenTwice
  <2> QED
    BY <2>2, <2>3, <2>4 DEF LifecycleInv
<1> QED
  BY <1>2, <1>3, DequeueInv, UserInv, ReferenceInv, OthersInv, RestartInv DEF LifecycleNext

LEMMA InvAlways == LifecycleSpec => []LifecycleInv
<1>1. LifecycleInv /\ [LifecycleNext]_allVars => LifecycleInv'
  BY NextInv
<1> QED
  BY <1>1, InitInv, PTL DEF LifecycleSpec

-----------------------------------------------------------------------------
(* The theorems                                                             *)

\* Every config, the worker, the dataplane objects and the release stay in their
\* domains, through failed calls, users' edits and restarts.
THEOREM LifecycleTypeCorrect == LifecycleSpec => []LifecycleTypeOK
<1>1. LifecycleInv => LifecycleTypeOK
  BY DEF LifecycleInv, Typed
<1> QED
  BY <1>1, InvAlways, PTL

\* Whatever users do while the installer is at work (EnsureInstalled), the config
\* it works for is stored and has the cleanup finalizer.
THEOREM InstallIsGuarded == LifecycleSpec => []InstallGuarded
<1>1. LifecycleInv => InstallGuarded
  BY DEF LifecycleInv, Guarded, Asked, InstallGuarded
<1> QED
  BY <1>1, InvAlways, PTL

\* What a step of the installer leaves in the store, when nobody else edits it: a
\* release, never none, and with a client that refuses to mutate only the stamp of
\* ClaimRelease.
LEMMA InstallerWrites ==
  ASSUME TypeOK, NEW c \in Callers, Work(c), rel' # rel, edits' = edits
  PROVE  /\ rel' \in Release
         /\ refuses => /\ p[c].pc = "claim"
                       /\ CanClaim
                       /\ rel' = stampAdoptedLabels(rel)
<1>1. ~Edited
  BY DEF Edited, TypeOK
<1>2. CASE Acquire(c) \/ GetRelease(c) \/ AfterFailure(c)
  BY Zenon, <1>2 DEF Acquire, GetRelease, AfterFailure
<1>3. CASE Install(c)
  BY Zenon, <1>1, <1>3, OwnedType DEF Install, InstallOver, Written, AfterError, CanInstall
<1>4. CASE ClaimRelease(c)
  <2>1. CanClaim /\ rel' = stampAdoptedLabels(rel) /\ p[c].pc = "claim"
    BY <1>1, <1>4 DEF ClaimRelease, Written, AfterError
  <2>2. rel \in Release
    BY <2>1 DEF CanClaim, TypeOK
  <2> QED
    BY <2>1, <2>2, StampType
<1>5. CASE Upgrade(c)
  BY Zenon, <1>1, <1>5, OwnedType DEF Upgrade, Written, AfterError, CanUpgrade
<1>6. CASE Rollback(c)
  <2>1. CanRollback(p[c].lastGood) /\ rel' = Restored(p[c].lastGood)
    BY Zenon, <1>1, <1>6 DEF Rollback, Written, AfterError
  <2>2. p[c].lastGood \in Version
    BY DEF TypeOK, Ensuring
  <2> QED
    BY <2>1, <2>2, RestoredType DEF CanRollback
<1> QED
  BY Zenon, <1>2, <1>3, <1>4, <1>5, <1>6 DEF Work

\* When nobody else edits the release, the worker does it, in the installer or in
\* the uninstall.
LEMMA WhoWrites ==
  ASSUME LifecycleInv, [LifecycleNext]_allVars, rel' # rel, edits' = edits
  PROVE  Installing \/ (Uninstall /\ rel' = None /\ CanUninstall)
<1>1. ~Edited
  BY DEF Edited, LifecycleInv, Typed, LifecycleTypeOK, TypeOK
<1>2. ~UNCHANGED vars
  BY DEF vars
<1>3. ~OthersEditRelease /\ ~RestartManager
  BY <1>1 DEF OthersEditRelease, ThirdPartyEdit, RestartManager, Restart
<1>4. \A n \in Configs : ~(Dequeue(n) \/ CreateConfig(n) \/ EditConfig(n) \/ DeleteConfig(n))
  BY Zenon, <1>2 DEF Dequeue, CreateConfig, EditConfig, DeleteConfig
<1>5. \A d \in Objects : ~ReferenceChanges(d)
  BY <1>2 DEF ReferenceChanges
<1>6. WorkerStep
  BY <1>2, <1>3, <1>4, <1>5 DEF LifecycleNext, allVars
<1>7. ~(Reconcile \/ ensureCleanupFinalizer \/ EnsureInstalled \/ Installed \/ SetConditions)
  BY <1>2 DEF Reconcile, ensureCleanupFinalizer, EnsureInstalled, Installed, SetConditions
<1>8. ~(LockRelease \/ ReadRelease \/ FirstRefs \/ Recheck)
  BY DEF LockRelease, ReadRelease, FirstRefs, Recheck
<1>9. ~(SecondRefs \/ DeleteDataplane \/ RecordOutcome \/ removeCleanupFinalizer)
  BY <1>2 DEF SecondRefs, DeleteDataplane, RecordOutcome, removeCleanupFinalizer
<1>10. Uninstall => rel' = None /\ CanUninstall
  BY DEF Uninstall, AfterError
<1> QED
  BY <1>6, <1>7, <1>8, <1>9, <1>10 DEF WorkerStep, Cleanup

\* No release is ever uninstalled but the adapter's own, under a policy that says
\* delete-owned for what the plan took it to be (CleanupInstallations, Uninstall):
\* also when others relabel it between the three reads.
THEOREM OnlyOwnedAreUninstalled == LifecycleSpec => UninstallsOnlyOwned
<1>1. ASSUME LifecycleInv, [LifecycleNext]_allVars, rel # None, rel' = None, edits' = edits
      PROVE  /\ ClassifyReleaseOwnership(rel) \in {"controller", "adopted"}
             /\ w.kind \in {"controller", "adopted"}
             /\ policyFor(w.spec, w.kind) = "delete-owned"
  <2>1. Installing \/ (Uninstall /\ CanUninstall)
    BY <1>1, WhoWrites
  <2>2. ~Installing
    <3>1. SUFFICES ASSUME Installing PROVE FALSE
      OBVIOUS
    <3>2. TypeOK /\ Worker \in Callers /\ Work(Worker)
      BY <3>1, <1>1, WorkerCalls DEF Installing, LifecycleInv, Typed, LifecycleTypeOK
    <3>3. rel' \in Release
      BY <1>1, <3>2, InstallerWrites
    <3> QED
      BY <1>1, <3>3, InstallerAssumption
  <2> QED
    BY <1>1, <2>1, <2>2 DEF Uninstall, CanUninstall, AllowsDelete, LifecycleInv, Decided
<1> QED
  BY <1>1, InvAlways, PTL DEF LifecycleSpec, UninstallsOnlyOwned

\* Wired as cmd/main.go wires it, the manager never writes a release except to
\* stamp the adoption labels on a deployed pin, for a config that asks for it.
THEOREM ShippedManagerOnlyAdopts == LifecycleSpec => ShippedOnlyAdopts
<1>1. ASSUME LifecycleInv, [LifecycleNext]_allVars, refuses, rel' # rel, edits' = edits
      PROVE  /\ w.spec.adopt
             /\ rel # None /\ AtPin(rel)
             /\ rel' = stampAdoptedLabels(rel)
  <2>1. Installing
    BY <1>1, WhoWrites DEF CanUninstall
  <2>2. TypeOK /\ Worker \in Callers /\ Work(Worker)
    BY <1>1, <2>1, WorkerCalls DEF Installing, LifecycleInv, Typed, LifecycleTypeOK
  <2>3. p[Worker].pc = "claim" /\ CanClaim /\ rel' = stampAdoptedLabels(rel)
    BY <1>1, <2>2, InstallerWrites
  <2> QED
    BY <1>1, <2>3 DEF CanClaim, matchesPinnedRelease, LifecycleInv, Asked
<1> QED
  BY <1>1, InvAlways, PTL DEF LifecycleSpec, ShippedOnlyAdopts

\* As long as every list of dependents succeeds, the cleanup deletes no dataplane
\* object that was referenced when the release had just been uninstalled
\* (stillProtected).
THEOREM ListedReferencesAreKept == LifecycleSpec => ListedReferencesKept
<1>1. ASSUME LifecycleInv, [LifecycleNext]_allVars, NEW d \in Objects,
             lists = 0, plane[d].present, ~plane'[d].present
      PROVE  d \notin w.needed
  <2>1. plane \in [Objects -> DataplaneObject]
    BY <1>1 DEF LifecycleInv, Typed, LifecycleTypeOK
  <2>2. plane' # plane
    BY <1>1
  <2>3. ASSUME NEW e \in Objects, ReferenceChanges(e) PROVE FALSE
    <3>1. \/ plane' = [plane EXCEPT ![e] = [plane[e] EXCEPT !.opi = ~plane[e].opi]]
          \/ plane' = [plane EXCEPT ![e] = [plane[e] EXCEPT !.source = TRUE]]
      BY <2>1, <2>3 DEF ReferenceChanges
    <3>2. /\ plane[d] \in DataplaneObject
          /\ [plane[d] EXCEPT !.opi = ~plane[d].opi].present = plane[d].present
          /\ [plane[d] EXCEPT !.source = TRUE].present = plane[d].present
      BY Zenon, <2>1 DEF DataplaneObject
    <3>3. \/ plane'[d] = plane[d]
          \/ plane'[d] = [plane[d] EXCEPT !.opi = ~plane[d].opi]
          \/ plane'[d] = [plane[d] EXCEPT !.source = TRUE]
      BY Zenon, <2>1, <3>1
    <3> QED
      BY Zenon, <1>1, <3>2, <3>3
  <2>4. DeleteDataplane
    <3>1. ~WorkerStep => FALSE
      BY Zenon, <1>1, <2>2, <2>3
         DEF LifecycleNext, allVars, lifecycleVars, Dequeue, CreateConfig, EditConfig, DeleteConfig,
             OthersEditRelease, RestartManager
    <3>2. ~(Reconcile \/ ensureCleanupFinalizer \/ EnsureInstalled \/ Installing \/ Installed \/ SetConditions)
      BY <2>2 DEF Reconcile, ensureCleanupFinalizer, EnsureInstalled, Installing, Installed,
                  SetConditions, lifecycleVars
    <3>3. ~(LockRelease \/ ReadRelease \/ FirstRefs \/ Recheck \/ Uninstall \/ SecondRefs
            \/ RecordOutcome \/ removeCleanupFinalizer)
      BY <2>2 DEF LockRelease, ReadRelease, FirstRefs, Recheck, Uninstall, SecondRefs,
                  RecordOutcome, removeCleanupFinalizer
    <3> QED
      BY <3>1, <3>2, <3>3 DEF WorkerStep, Cleanup
  <2>5. PICK e \in w.doomed \ w.safe : plane' = [plane EXCEPT ![e].present = FALSE]
    BY <2>2, <2>4 DEF DeleteDataplane
  <2>6. d = e
    BY <1>1, <2>1, <2>5
  <2>7. w.needed \subseteq w.safe
    BY <1>1, <2>4 DEF DeleteDataplane, LifecycleInv, SeenTwice
  <2> QED
    BY <2>5, <2>6, <2>7
<1>2. LifecycleInv /\ [LifecycleNext]_allVars
         => [\A d \in Objects :
                lists = 0 /\ plane[d].present /\ ~plane'[d].present => d \notin w.needed]_allVars
  BY <1>1
<1> QED
  BY <1>2, InvAlways, PTL DEF LifecycleSpec, ListedReferencesKept

=============================================================================
