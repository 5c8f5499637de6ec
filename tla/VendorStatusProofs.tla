-------------------------- MODULE VendorStatusProofs --------------------------
(***************************************************************************)
(* What the reported conditions are worth for any lists of CRDs and        *)
(* controllers, any DPUs, any number of places of Argo CD, and any number  *)
(* of changes, faults, conflicts and restarts.                             *)
(***************************************************************************)
EXTENDS VendorStatus, TLAPS

\* What can be looked up.
Names == APIs \cup Deployments

Steps == {"idle", "version", "dependencies", "kamaji", "tenants", "helm", "olm", "claim", "stamp",
          "claimed", "detect", "observe", "dpus", "fresh", "write"}

Kubes == {"supported", "unsupported", "down"}

Seen == [kube : Kubes, kamaji : BOOLEAN,
         present : SUBSET Names, healthy : SUBSET Names,
         install : [present : BOOLEAN, version : Versions] \cup {None},
         dpus : [DPUs -> DPU \cup {None}] \cup {None}]

\* Only the copy of the config that upsertConditions works on has no type here.
Reconciling(fresh) ==
    [pc : Steps, in : Intent \cup {None}, seen : Seen, todo : Seq(Names),
     sub : Installation \cup {None}, fresh : {fresh}, tries : Nat]

Conds(c) == [supported : {c.supported}, operator : {c.operator}, dpu : {c.dpu}, ready : BOOLEAN]

--------------------------------------------------------------------------------
(* The inductive invariant *)

Typed ==
    /\ TypeOK
    /\ w \in Reconciling(w.fresh)
    /\ cond \in Conds(cond)
    /\ kube \in Kubes
    /\ kamaji \in BOOLEAN
    /\ env \in Nat

\* A reconcile has read the config, and one that has ended left nothing behind.
Begun ==
    /\ w.pc = "idle" => w = Idle
    /\ w.pc # "idle" => w.in # None

\* Names are looked up in three places only.
Probing == w.todo # << >> => w.pc \in {"dependencies", "tenants", "observe"}

\* What this reconcile has seen healthy was, in its time: the REST mapper does not
\* forget an API, and every Deployment that is healthy now counts as lately healthy.
Observed ==
    /\ w.seen.healthy \cap APIs \subseteq mapped
    /\ w.seen.healthy \cap Deployments \subseteq lately
    /\ w.pc # "idle" => Healthy \subseteq lately

\* Only a config that asks to adopt gets to the claim.
Wanted == w.pc \in {"claim", "stamp"} => w.in.adopt

Inv == Typed /\ Begun /\ Probing /\ Observed /\ Wanted

--------------------------------------------------------------------------------
(* The operators the verdict is built from *)

\* A list is a sequence of what is on it.
LEMMA ListType ==
  ASSUME NEW l \in Seq(STRING)
  PROVE  l \in Seq(Range(l))
<1>1. Len(l) \in Nat /\ DOMAIN l = 1..Len(l)
  OBVIOUS
<1>2. \A i \in 1..Len(l) : l[i] \in Range(l)
  BY <1>1 DEF Range
<1> QED
  BY <1>1, <1>2

LEMMA ArgosType == Argos \in Seq(Deployments) /\ 1 \in DOMAIN Argos
<1>1. Argos \in Seq(STRING) /\ Len(Argos) > 0
  BY VendorStatusAssumption
<1>2. DOMAIN Argos = 1..Len(Argos) /\ Len(Argos) \in Nat
  BY <1>1
<1>3. \A i \in 1..Len(Argos) : Argos[i] \in Deployments
  BY <1>2 DEF Deployments, Range
<1> QED
  BY <1>1, <1>2, <1>3

\* The Argo CD Deployment that counts is always one of the names looked for.
LEMMA ArgoIsListed ==
  ASSUME NEW seen
  PROVE  argo(seen) \in Range(Argos)
<1> DEFINE first == {i \in DOMAIN Argos : /\ Argos[i] \in seen.present
                                        /\ \A j \in 1..(i - 1) : Argos[j] \notin seen.present}
           place == IF first = {} THEN 1 ELSE CHOOSE i \in first : TRUE
<1>1. first # {} => (CHOOSE i \in first : TRUE) \in first
  <2> HIDE DEF first
  <2> QED
    OBVIOUS
<1>2. place \in DOMAIN Argos
  BY <1>1, ArgosType
<1>3. argo(seen) = Argos[place]
  BY DEF argo
<1> QED
  BY Zenon, <1>2, <1>3 DEF Range

\* A verdict's reasons are the documented ones.
LEMMA VerdictType ==
  ASSUME NEW in, NEW seen
  PROVE  /\ Verdict(in, seen).supported.skew \in
               {"Supported", "TooOld", "TooNew", "Unknown", "Unpinned", "UnknownVendor",
                "InvalidConfig", "Blocked"}
         /\ Verdict(in, seen).operator.phase \in {"Installing", "Degraded", "Ready"}
         /\ Verdict(in, seen).dpu.phase \in {"Rebooting", "Ready", "Unknown"}
<1>1. Refused(in) \in {"UnknownVendor", "InvalidConfig", ""}
  BY DEF Refused
<1>2. EvaluatePolicy(in, seen.install).skew \in
         {"Supported", "TooOld", "TooNew", "Unknown", "Unpinned"}
  BY DEF EvaluatePolicy, Skew, ClassifySkew
<1>3. classifyOperator(in, seen).phase \in {"Installing", "Degraded", "Ready"}
  BY DEF classifyOperator, Phase
<1>4. dpuCondition(seen.dpus).phase \in {"Rebooting", "Ready", "Unknown"}
  BY DEF dpuCondition, Phase
<1> QED
  BY Zenon, <1>1, <1>2, <1>3, <1>4 DEF Verdict, Report, Skew, Phase

\* A verdict is Ready for NVIDIA only if all that is required was seen healthy.
LEMMA ReadyVerdict ==
  ASSUME NEW in, NEW seen, Verdict(in, seen).operator = Phase("Ready", {"nvidia"})
  PROVE  /\ in.vendor = "nvidia"
         /\ CRDs \cup Controllers \cup {"cert-manager", argo(seen)} \subseteq seen.healthy
<1>1. Verdict(in, seen).operator = classifyOperator(in, seen)
  BY Zenon DEF Verdict, Report, Phase
<1>2. /\ Required(in, seen) \subseteq seen.healthy
      /\ classifyOperator(in, seen) = Phase("Ready", {in.vendor})
  BY <1>1 DEF classifyOperator, Phase
<1>3. in.vendor = "nvidia"
  BY <1>1, <1>2 DEF Phase
<1> QED
  BY <1>2, <1>3 DEF Required

--------------------------------------------------------------------------------
(* Types *)

LEMMA IdleType == Idle \in Reconciling(None) /\ Idle.fresh = None /\ Idle.pc = "idle"
<1>1. Nothing \in Seen
  BY DEF Nothing, Seen, Kubes
<1>2. << >> \in Seq(Names)
  OBVIOUS
<1>3. Idle \in Reconciling(None)
  BY <1>1, <1>2 DEF Idle, Reconciling, Steps
<1> QED
  BY <1>3 DEF Idle

LEMMA IdleSees == Idle.seen.healthy = {} /\ Idle.todo = << >> /\ Idle.tries = 0 /\ Idle.in = None
  BY DEF Idle, Nothing

\* What is looked up is a sequence of names.
LEMMA LookupTypes ==
  /\ <<"Certificate", "Application">> \in Seq(Names)
  /\ <<"TenantControlPlane">> \in Seq(Names)
  /\ <<"DSCDevice">> \in Seq(Names)
  /\ requiredDPFCRDs \o requiredDPFControllers \o <<"cert-manager">> \o Argos \in Seq(Names)
<1>1. requiredDPFCRDs \in Seq(CRDs) /\ requiredDPFControllers \in Seq(Controllers)
  BY ListType, VendorStatusAssumption DEF CRDs, Controllers
<1>2. CRDs \subseteq Names /\ Controllers \subseteq Names /\ Deployments \subseteq Names
  BY DEF Names, APIs, Deployments
<1>3. requiredDPFCRDs \in Seq(Names) /\ requiredDPFControllers \in Seq(Names) /\ Argos \in Seq(Names)
  BY <1>1, <1>2, ArgosType
<1>4. <<"cert-manager">> \in Seq(Names)
  BY DEF Names, Deployments
<1>5. /\ <<"Certificate", "Application">> \in Seq(Names)
      /\ <<"TenantControlPlane">> \in Seq(Names)
      /\ <<"DSCDevice">> \in Seq(Names)
  BY DEF Names, APIs
<1> QED
  BY <1>3, <1>4, <1>5

\* The ways a step changes what was seen, but for a lookup.
LEMMA SeenType ==
  ASSUME NEW s \in Seen
  PROVE  /\ \A v \in Kubes : [s EXCEPT !.kube = v] \in Seen /\ [s EXCEPT !.kube = v].healthy = s.healthy
         /\ \A b \in BOOLEAN : [s EXCEPT !.kamaji = b] \in Seen /\ [s EXCEPT !.kamaji = b].healthy = s.healthy
         /\ \A b \in BOOLEAN, v \in Versions :
               /\ [s EXCEPT !.install = [present |-> b, version |-> v]] \in Seen
               /\ [s EXCEPT !.install = [present |-> b, version |-> v]].healthy = s.healthy
         /\ \A ds \in [DPUs -> DPU \cup {None}] :
               [s EXCEPT !.dpus = ds] \in Seen /\ [s EXCEPT !.dpus = ds].healthy = s.healthy
<1>1. \A v \in Kubes : [s EXCEPT !.kube = v] \in Seen /\ [s EXCEPT !.kube = v].healthy = s.healthy
  BY DEF Seen
<1>2. \A b \in BOOLEAN : [s EXCEPT !.kamaji = b] \in Seen /\ [s EXCEPT !.kamaji = b].healthy = s.healthy
  BY DEF Seen
<1>3. ASSUME NEW b \in BOOLEAN, NEW v \in Versions
      PROVE  /\ [s EXCEPT !.install = [present |-> b, version |-> v]] \in Seen
             /\ [s EXCEPT !.install = [present |-> b, version |-> v]].healthy = s.healthy
  <2>1. [present |-> b, version |-> v] \in [present : BOOLEAN, version : Versions]
    OBVIOUS
  <2>2. \A x \in [present : BOOLEAN, version : Versions] :
           [s EXCEPT !.install = x] \in Seen /\ [s EXCEPT !.install = x].healthy = s.healthy
    BY DEF Seen
  <2> QED
    BY Zenon, <2>1, <2>2
<1>4. \A ds \in [DPUs -> DPU \cup {None}] :
         [s EXCEPT !.dpus = ds] \in Seen /\ [s EXCEPT !.dpus = ds].healthy = s.healthy
  BY DEF Seen
<1> QED
  BY <1>1, <1>2, <1>3, <1>4

\* The ways a step moves the worker on.
LEMMA GoesType ==
  ASSUME w \in Reconciling(w.fresh), NEW pc \in Steps, NEW seen \in Seen, Goes(pc, seen)
  PROVE  /\ w' \in Reconciling(w'.fresh)
         /\ w'.pc = pc /\ w'.seen = seen /\ w'.in = w.in /\ w'.todo = w.todo /\ w'.tries = w.tries
<1>1. w' = [w EXCEPT !.pc = pc, !.seen = seen]
  BY DEF Goes
<1>2. w' \in Reconciling(w.fresh)
  BY Zenon, <1>1 DEF Reconciling
<1>3. /\ w'.pc = pc /\ w'.seen = seen /\ w'.in = w.in /\ w'.todo = w.todo /\ w'.tries = w.tries
      /\ w'.fresh = w.fresh
  BY <1>1 DEF Reconciling
<1> QED
  BY <1>2, <1>3

LEMMA ProbesType ==
  ASSUME w \in Reconciling(w.fresh), NEW pc \in Steps, NEW names \in Seq(Names), NEW seen \in Seen,
         Probes(pc, names, seen)
  PROVE  /\ w' \in Reconciling(w'.fresh)
         /\ w'.pc = pc /\ w'.seen = seen /\ w'.in = w.in /\ w'.tries = w.tries
<1>1. w' = [w EXCEPT !.pc = pc, !.todo = names, !.seen = seen]
  BY DEF Probes
<1>2. w' \in Reconciling(w.fresh)
  BY Zenon, <1>1 DEF Reconciling
<1>3. w'.pc = pc /\ w'.seen = seen /\ w'.in = w.in /\ w'.tries = w.tries /\ w'.fresh = w.fresh
  BY <1>1 DEF Reconciling
<1> QED
  BY <1>2, <1>3

\* A step of a reconcile that goes on and looks nothing up.
LEMMA GoesOn ==
  ASSUME Inv, w.pc # "idle", env' \in Nat,
         w' \in Reconciling(w'.fresh), w'.pc # "idle", w'.in = w.in, w'.tries < MaxTries,
         w'.todo # << >> => w'.pc \in {"dependencies", "tenants", "observe"},
         w'.seen.healthy = w.seen.healthy,
         w'.pc \in {"claim", "stamp"} => w.in.adopt,
         mapped \subseteq mapped', mapped' \subseteq APIs,
         {release', sub'} \subseteq Installation \cup {None},
         UNCHANGED <<cfg, cond, queued, served, deploy, kube, kamaji, dpus, lately>>
  PROVE  Inv'
<1>1. w'.seen \in Seen
  BY DEF Reconciling
<1>2. w'.seen.present \cup w'.seen.healthy \subseteq APIs \cup Deployments
  BY <1>1 DEF Seen, Names
<1>3. TypeOK'
  BY <1>2 DEF Inv, Typed, TypeOK
<1>4. Typed'
  BY <1>3 DEF Inv, Typed
<1>5. Observed'
  BY DEF Inv, Observed, Healthy
<1> QED
  BY <1>4, <1>5 DEF Inv, Begun, Probing, Wanted

\* A step that ends the reconcile.
LEMMA EndsInv ==
  ASSUME Inv, env' \in Nat, w' = Idle, queued' \in BOOLEAN,
         {release', sub'} \subseteq Installation \cup {None},
         mapped' \subseteq APIs,
         UNCHANGED <<cfg, cond, served, deploy, kube, kamaji, dpus, lately>>
  PROVE  Inv'
<1>1. w' \in Reconciling(w'.fresh) /\ w'.pc = "idle"
  BY IdleType
<1>2. w'.seen.healthy = {} /\ w'.todo = << >> /\ w'.tries = 0 /\ w'.in = None
  BY IdleSees
<1>3. w'.seen \in Seen
  BY <1>1 DEF Reconciling
<1>4. TypeOK'
  BY <1>2, <1>3, VendorStatusAssumption DEF Inv, Typed, TypeOK, Seen, Names
<1>5. Typed'
  BY <1>1, <1>4 DEF Inv, Typed
<1> QED
  BY <1>1, <1>2, <1>5 DEF Inv, Begun, Probing, Observed, Wanted

LEMMA EnvType ==
  ASSUME env \in Nat PROVE (Works => env' \in Nat) /\ (Env => env' \in Nat)
  BY DEF Works, Env

LEMMA ErrsInv ==
  ASSUME Inv, Errs, Works \/ Env
  PROVE  Inv'
<1>1. env' \in Nat
  BY EnvType DEF Inv, Typed
<1>2. w' = Idle /\ queued' \in BOOLEAN
  BY DEF Errs, Finish
<1>3. UNCHANGED <<cfg, cond, served, mapped, deploy, kube, kamaji, dpus, release, sub, lately>>
  BY DEF Errs, cluster
<1> QED
  BY <1>1, <1>2, <1>3, EndsInv DEF Inv, Typed, TypeOK

--------------------------------------------------------------------------------
(* One lemma per step of the reconcile *)

LEMMA ReconcileInv ==
  ASSUME Inv, Reconcile
  PROVE  Inv'
<1>1. /\ w = Idle /\ env' \in Nat /\ lately' = Healthy
      /\ UNCHANGED <<cfg, cond, served, mapped, deploy, kube, kamaji, dpus, release, sub>>
  BY Zenon, EnvType DEF Inv, Begun, Reconcile, cluster, Typed
<1>2. w' = Idle \/ w' = [Idle EXCEPT !.pc = IF Refused(cfg) = "" THEN "version" ELSE "fresh", !.in = cfg]
  BY Zenon, <1>1 DEF Reconcile
<1>3. queued' \in BOOLEAN /\ cfg \in Intent
  BY Zenon DEF Reconcile, Inv, Typed, TypeOK
<1>4. cfg # None
  BY <1>3, ObjectsAssumption
<1>5. /\ w' \in Reconciling(w'.fresh)
      /\ w'.seen = Idle.seen /\ w'.todo = << >> /\ w'.tries = 0
      /\ w'.pc \notin {"claim", "stamp"}
      /\ w'.pc = "idle" => w' = Idle
      /\ w'.pc # "idle" => w'.in # None
  <2>1. CASE w' = Idle
    BY <2>1, IdleType, IdleSees
  <2>2. CASE w' = [Idle EXCEPT !.pc = IF Refused(cfg) = "" THEN "version" ELSE "fresh", !.in = cfg]
    <3> DEFINE pc == IF Refused(cfg) = "" THEN "version" ELSE "fresh"
    <3>1. pc \in {"version", "fresh"}
      OBVIOUS
    <3>2. w' = [Idle EXCEPT !.pc = pc, !.in = cfg]
      BY <2>2
    <3> HIDE DEF pc
    <3>3. w' \in Reconciling(None)
      BY Zenon, <1>3, <3>1, <3>2, IdleType DEF Reconciling, Steps
    <3>4. /\ w'.pc = pc /\ w'.in = cfg /\ w'.seen = Idle.seen /\ w'.todo = Idle.todo
          /\ w'.tries = Idle.tries /\ w'.fresh = Idle.fresh
      BY <3>2, IdleType DEF Reconciling
    <3> QED
      BY <1>4, <3>1, <3>3, <3>4, IdleType, IdleSees
  <2> QED
    BY <1>2, <2>1, <2>2
<1>6. w'.seen \in Seen /\ w'.seen.healthy = {}
  BY <1>5, IdleSees, IdleType DEF Reconciling
<1>7. Healthy \subseteq Deployments
  BY DEF Healthy
<1>8. Healthy' = Healthy
  BY <1>1 DEF Healthy
<1>9. TypeOK'
  <2>1. w'.in \in Intent \cup {None}
    BY <1>5 DEF Reconciling
  <2>2. w'.seen.present \cup w'.seen.healthy \subseteq APIs \cup Deployments
    BY <1>6 DEF Seen, Names
  <2>3. w'.tries < MaxTries
    BY <1>5, VendorStatusAssumption
  <2> QED
    BY <1>1, <1>3, <1>7, <2>1, <2>2, <2>3 DEF Inv, Typed, TypeOK
<1>10. Typed'
  BY <1>1, <1>5, <1>9 DEF Inv, Typed
<1> QED
  BY <1>1, <1>5, <1>6, <1>8, <1>10 DEF Inv, Begun, Probing, Observed, Wanted

\* What every step past the read of the config may assume.
LEMMA AtWork ==
  ASSUME Inv, w.pc # "idle"
  PROVE  /\ w \in Reconciling(w.fresh) /\ w.seen \in Seen /\ w.in \in Intent /\ w.tries < MaxTries
         /\ w.todo \in Seq(Names)
         /\ w.pc \notin {"dependencies", "tenants", "observe"} => w.todo = << >>
         /\ mapped \subseteq APIs /\ {release, sub} \subseteq Installation \cup {None}
         /\ env \in Nat
         /\ deploy \in [Deployments -> {"absent", "unhealthy", "healthy"}]
  BY DEF Inv, Typed, TypeOK, Begun, Probing, Reconciling

LEMMA ServerVersionInv ==
  ASSUME Inv, ServerVersion
  PROVE  Inv'
<1>1. w.pc = "version" /\ w.pc # "idle" /\ w.todo = << >>
  BY AtWork DEF ServerVersion
<1>2. env' \in Nat /\ kube \in Kubes
  BY EnvType DEF ServerVersion, Inv, Typed
<1>3. UNCHANGED <<cfg, cond, queued, served, mapped, deploy, kube, kamaji, dpus, release, sub, lately>>
  BY DEF ServerVersion, Looked, cluster
<1>4. PICK v \in Kubes :
         \/ Goes("fresh", [w.seen EXCEPT !.kube = v])
         \/ Goes("detect", [w.seen EXCEPT !.kube = v])
         \/ Probes("dependencies", <<"Certificate", "Application">>, [w.seen EXCEPT !.kube = v])
  <2>1. "down" \in Kubes
    BY DEF Kubes
  <2> QED
    BY <1>2, <2>1 DEF ServerVersion
<1>5. [w.seen EXCEPT !.kube = v] \in Seen /\ [w.seen EXCEPT !.kube = v].healthy = w.seen.healthy
  BY <1>1, AtWork, SeenType
<1>6. /\ w' \in Reconciling(w'.fresh) /\ w'.pc \in {"fresh", "detect", "dependencies"}
      /\ w'.seen.healthy = w.seen.healthy /\ w'.in = w.in /\ w'.tries = w.tries
      /\ w'.pc # "dependencies" => w'.todo = << >>
  <2>1. {"fresh", "detect", "dependencies"} \subseteq Steps
    BY DEF Steps
  <2>2. w \in Reconciling(w.fresh)
    BY <1>1, AtWork
  <2> QED
    BY Zenon, <1>1, <1>4, <1>5, <2>1, <2>2, GoesType, ProbesType, LookupTypes
<1> QED
  BY <1>1, <1>2, <1>3, <1>6, GoesOn, AtWork

LEMMA NeedsKamajiInv ==
  ASSUME Inv, NeedsKamaji
  PROVE  Inv'
<1>1. w.pc = "kamaji" /\ w.pc # "idle" /\ w.todo = << >>
  BY DEF NeedsKamaji
<1>2. env' \in Nat /\ kamaji \in BOOLEAN
  BY EnvType DEF NeedsKamaji, Inv, Typed
<1>3. UNCHANGED <<cfg, cond, queued, served, mapped, deploy, kube, kamaji, dpus, release, sub, lately>>
  BY DEF NeedsKamaji, Looked, cluster
<1>4. PICK b \in BOOLEAN :
         \/ Goes("helm", [w.seen EXCEPT !.kamaji = b])
         \/ Goes("fresh", [w.seen EXCEPT !.kamaji = b])
         \/ Probes("tenants", <<"TenantControlPlane">>, [w.seen EXCEPT !.kamaji = b])
  BY Zenon, <1>2 DEF NeedsKamaji
<1>5. [w.seen EXCEPT !.kamaji = b] \in Seen /\ [w.seen EXCEPT !.kamaji = b].healthy = w.seen.healthy
  BY <1>1, AtWork, SeenType
<1>6. /\ w' \in Reconciling(w'.fresh) /\ w'.pc \in {"helm", "fresh", "tenants"}
      /\ w'.seen.healthy = w.seen.healthy /\ w'.in = w.in /\ w'.tries = w.tries
      /\ w'.pc # "tenants" => w'.todo = << >>
  <2>1. {"helm", "fresh", "tenants"} \subseteq Steps
    BY DEF Steps
  <2>2. w \in Reconciling(w.fresh)
    BY <1>1, AtWork
  <2> QED
    BY Zenon, <1>1, <1>4, <1>5, <2>1, <2>2, GoesType, ProbesType, LookupTypes
<1> QED
  BY <1>1, <1>2, <1>3, <1>6, GoesOn, AtWork

LEMMA ObservesType ==
  ASSUME Inv, w.pc # "idle", NEW b \in BOOLEAN, NEW v \in Versions, Observes(b, v)
  PROVE  /\ w' \in Reconciling(w'.fresh) /\ w'.pc = "observe"
         /\ w'.seen.healthy = w.seen.healthy /\ w'.in = w.in /\ w'.tries = w.tries
<1> DEFINE seen == [w.seen EXCEPT !.install = [present |-> b, version |-> v]]
<1>1. seen \in Seen /\ seen.healthy = w.seen.healthy
  BY AtWork, SeenType
<1>2. PICK names \in Seq(Names) : Probes("observe", names, seen)
  BY Zenon, LookupTypes DEF Observes
<1>3. "observe" \in Steps
  BY DEF Steps
<1> HIDE DEF seen
<1> QED
  BY <1>1, <1>2, <1>3, AtWork, ProbesType

\* A step to another call of the installer, with nothing new seen.
LEMMA MovesType ==
  ASSUME Inv, w.pc # "idle", NEW pc \in Steps, Goes(pc, w.seen)
  PROVE  /\ w' \in Reconciling(w'.fresh) /\ w'.pc = pc
         /\ w'.seen.healthy = w.seen.healthy /\ w'.in = w.in /\ w'.tries = w.tries
         /\ w'.todo = w.todo
  BY AtWork, GoesType

LEMMA InstallationType ==
  ASSUME NEW r \in Installation
  PROVE  r.version \in Versions /\ [r EXCEPT !.owner = "adapter"] \in Installation
  BY Zenon DEF Installation, Versions

LEMMA HelmEnsureInv ==
  ASSUME Inv, HelmEnsure
  PROVE  Inv'
<1>1. w.pc = "helm" /\ w.pc # "idle" /\ w.todo = << >>
  BY AtWork DEF HelmEnsure
<1>2. CASE Errs /\ (Works \/ Env)
  BY <1>2, ErrsInv
<1>3. CASE /\ Works /\ UNCHANGED <<cfg, cond, queued, served, mapped, deploy, kube, kamaji, dpus, sub, lately>>
           /\ \/ Goes("olm", w.seen) /\ UNCHANGED release
              \/ /\ release # None
                 /\ release' \in {release, [release EXCEPT !.owner = "adapter"]}
                 /\ Observes(TRUE, release.version)
  <2>1. env' \in Nat
    BY <1>3, EnvType DEF Inv, Typed
  <2>2. {release', sub'} \subseteq Installation \cup {None}
    <3>1. {release, sub} \subseteq Installation \cup {None}
      BY <1>1, AtWork
    <3>2. release # None => [release EXCEPT !.owner = "adapter"] \in Installation
      BY <3>1, InstallationType
    <3>3. release' = release \/ (release # None /\ release' = [release EXCEPT !.owner = "adapter"])
      BY Zenon, <1>3
    <3> QED
      BY <1>3, <3>1, <3>2, <3>3
  <2>3. release # None => release.version \in Versions
    BY Zenon, <1>1, AtWork, InstallationType
  <2>4. /\ w' \in Reconciling(w'.fresh) /\ w'.pc \in {"olm", "observe"}
        /\ w'.seen.healthy = w.seen.healthy /\ w'.in = w.in /\ w'.tries = w.tries
        /\ w'.pc # "observe" => w'.todo = << >>
    <3>1. "olm" \in Steps
      BY DEF Steps
    <3> QED
      BY Zenon, <1>1, <1>3, <2>3, <3>1, MovesType, ObservesType
  <2> QED
    BY <1>1, <1>3, <2>1, <2>2, <2>4, GoesOn, AtWork
<1> QED
  BY Zenon, <1>2, <1>3 DEF HelmEnsure, Looked

LEMMA OLMEnsureInv ==
  ASSUME Inv, OLMEnsure
  PROVE  Inv'
<1>1. w.pc = "olm" /\ w.pc # "idle" /\ w.todo = << >>
  BY AtWork DEF OLMEnsure
<1>2. CASE Errs /\ (Works \/ Env)
  BY <1>2, ErrsInv
<1>3. CASE /\ Works /\ Maps({"Subscription"}) /\ Looked /\ KeepsMapped
           /\ \/ Goes("detect", w.seen)
              \/ w.in.adopt /\ Goes("claim", w.seen)
              \/ sub # None /\ Observes(TRUE, sub.version)
  <2>1. env' \in Nat
    BY <1>3, EnvType DEF Inv, Typed
  <2>2. mapped \subseteq mapped' /\ mapped' \subseteq APIs
    BY <1>1, <1>3, AtWork DEF Maps, APIs
  <2>3. UNCHANGED <<cfg, cond, queued, served, deploy, kube, kamaji, dpus, release, sub, lately>>
    BY <1>3 DEF Looked, KeepsMapped
  <2>4. sub # None => sub.version \in Versions
    BY Zenon, <1>1, AtWork, InstallationType
  <2>5. /\ w' \in Reconciling(w'.fresh) /\ w'.pc \in {"detect", "claim", "observe"}
        /\ w'.seen.healthy = w.seen.healthy /\ w'.in = w.in /\ w'.tries = w.tries
        /\ w'.pc # "observe" => w'.todo = << >>
        /\ w'.pc = "claim" => w.in.adopt
    <3>1. {"detect", "claim"} \subseteq Steps
      BY DEF Steps
    <3>2. CASE Goes("detect", w.seen)
      BY <1>1, <3>1, <3>2, MovesType
    <3>3. CASE w.in.adopt /\ Goes("claim", w.seen)
      BY <1>1, <3>1, <3>3, MovesType
    <3>4. CASE sub # None /\ Observes(TRUE, sub.version)
      BY Zenon, <1>1, <2>4, <3>4, ObservesType
    <3> QED
      BY Zenon, <1>3, <3>2, <3>3, <3>4
  <2> QED
    BY <1>1, <2>1, <2>2, <2>3, <2>5, GoesOn, AtWork
<1> QED
  BY Zenon, <1>2, <1>3 DEF OLMEnsure

LEMMA ClaimInv ==
  ASSUME Inv, ClaimSubscription \/ ReadSubscription \/ StampSubscription \/ Claimed
  PROVE  Inv'
<1>1. w.pc \in {"claim", "stamp", "claimed"} /\ w.pc # "idle" /\ w.todo = << >>
  BY Zenon, AtWork DEF ClaimSubscription, ReadSubscription, StampSubscription, Claimed
<1>2. CASE Errs /\ (Works \/ Env)
  BY <1>2, ErrsInv
<1>3. CASE /\ Works
           /\ UNCHANGED <<cfg, cond, queued, served, mapped, deploy, kube, kamaji, dpus, release, lately>>
           /\ \/ w.pc = "claim" /\ Goes("stamp", w.seen) /\ UNCHANGED sub
              \/ w.pc = "stamp" /\ w' = [w EXCEPT !.sub = sub] /\ UNCHANGED sub
              \/ Goes("claimed", w.seen) /\ sub # None /\ sub' = [sub EXCEPT !.owner = "adapter"]
              \/ sub # None /\ Observes(TRUE, sub.version) /\ UNCHANGED sub
  <2>1. env' \in Nat
    BY <1>3, EnvType DEF Inv, Typed
  <2>2. {release', sub'} \subseteq Installation \cup {None}
    <3>1. {release, sub} \subseteq Installation \cup {None}
      BY <1>1, AtWork
    <3>2. sub # None => [sub EXCEPT !.owner = "adapter"] \in Installation
      BY <3>1, InstallationType
    <3>3. sub' = sub \/ (sub # None /\ sub' = [sub EXCEPT !.owner = "adapter"])
      BY Zenon, <1>3
    <3> QED
      BY <1>3, <3>1, <3>2, <3>3
  <2>3. sub # None => sub.version \in Versions
    BY Zenon, <1>1, AtWork, InstallationType
  <2>4. /\ w' \in Reconciling(w'.fresh) /\ w'.pc \in {"stamp", "claimed", "observe"}
        /\ w'.seen.healthy = w.seen.healthy /\ w'.in = w.in /\ w'.tries = w.tries
        /\ w'.pc # "observe" => w'.todo = << >>
        /\ w'.pc = "stamp" => w.in.adopt
    <3>1. {"stamp", "claimed"} \subseteq Steps
      BY DEF Steps
    <3>2. CASE w.pc = "claim" /\ Goes("stamp", w.seen)
      BY <1>1, <3>1, <3>2, MovesType DEF Inv, Wanted
    <3>3. CASE w.pc = "stamp" /\ w' = [w EXCEPT !.sub = sub]
      <4>1. w \in Reconciling(w.fresh) /\ sub \in Installation \cup {None}
        BY <1>1, AtWork
      <4>2. w' \in Reconciling(w.fresh)
        BY <3>3, <4>1 DEF Reconciling
      <4>3. /\ w'.fresh = w.fresh /\ w'.pc = w.pc /\ w'.seen = w.seen /\ w'.in = w.in
            /\ w'.tries = w.tries /\ w'.todo = w.todo
        BY <3>3, <4>1 DEF Reconciling
      <4> QED
        BY <1>1, <3>3, <4>2, <4>3 DEF Inv, Wanted
    <3>4. CASE Goes("claimed", w.seen)
      BY <1>1, <3>1, <3>4, MovesType
    <3>5. CASE sub # None /\ Observes(TRUE, sub.version)
      BY Zenon, <1>1, <2>3, <3>5, ObservesType
    <3> QED
      BY Zenon, <1>3, <3>2, <3>3, <3>4, <3>5
  <2> QED
    BY <1>1, <1>3, <2>1, <2>2, <2>4, GoesOn, AtWork
<1>4. CASE ClaimSubscription
  BY Zenon, <1>2, <1>3, <1>4 DEF ClaimSubscription, Looked, cluster
<1>5. CASE ReadSubscription
  BY Zenon, <1>2, <1>3, <1>5 DEF ReadSubscription, Looked, cluster
<1>6. CASE StampSubscription
  BY Zenon, <1>2, <1>3, <1>6 DEF StampSubscription, Looked
<1>7. CASE Claimed
  BY Zenon, <1>2, <1>3, <1>7 DEF Claimed, Looked, cluster
<1> QED
  BY <1>4, <1>5, <1>6, <1>7

LEMMA DetectInv ==
  ASSUME Inv, Detect
  PROVE  Inv'
<1>1. w.pc = "detect" /\ w.pc # "idle"
  BY DEF Detect
<1>2. PICK api \in {"DSCDevice", "DPU"} :
         Works /\ Observes(HasAPI(api), w.in.pin) /\ Maps({api})
  BY DEF Detect
<1>3. env' \in Nat /\ w.in.pin \in Versions /\ HasAPI(api) \in BOOLEAN
  <2>1. env' \in Nat
    BY <1>1, <1>2, AtWork, EnvType
  <2>2. w.in.pin \in Versions
    BY Zenon, <1>1, AtWork DEF Intent
  <2> QED
    BY <2>1, <2>2 DEF HasAPI
<1>4. mapped \subseteq mapped' /\ mapped' \subseteq APIs
  BY <1>1, <1>2, AtWork, VendorStatusAssumption DEF Maps, APIs, CRDs
<1>5. UNCHANGED <<cfg, cond, queued, served, deploy, kube, kamaji, dpus, release, sub, lately>>
  BY DEF Detect, Looked, KeepsMapped
<1>6. /\ w' \in Reconciling(w'.fresh) /\ w'.pc = "observe"
      /\ w'.seen.healthy = w.seen.healthy /\ w'.in = w.in /\ w'.tries = w.tries
  BY <1>1, <1>2, <1>3, ObservesType
<1> QED
  BY <1>1, <1>3, <1>4, <1>5, <1>6, GoesOn, AtWork

LEMMA ObserveDPUsInv ==
  ASSUME Inv, ObserveNVIDIADPUs
  PROVE  Inv'
<1>1. w.pc = "dpus" /\ w.pc # "idle" /\ w.todo = << >>
  BY AtWork DEF ObserveNVIDIADPUs
<1>2. env' \in Nat /\ dpus \in [DPUs -> DPU \cup {None}]
  BY EnvType DEF ObserveNVIDIADPUs, Inv, Typed, TypeOK
<1>3. UNCHANGED <<cfg, cond, queued, served, mapped, deploy, kube, kamaji, dpus, release, sub, lately>>
  BY DEF ObserveNVIDIADPUs, Looked, cluster
<1>4. [w.seen EXCEPT !.dpus = dpus] \in Seen /\ [w.seen EXCEPT !.dpus = dpus].healthy = w.seen.healthy
  BY <1>1, <1>2, AtWork, SeenType
<1>5. PICK seen \in Seen : Goes("fresh", seen) /\ seen.healthy = w.seen.healthy
  BY Zenon, <1>1, <1>4, AtWork DEF ObserveNVIDIADPUs
<1>6. /\ w' \in Reconciling(w'.fresh) /\ w'.pc = "fresh"
      /\ w'.seen.healthy = w.seen.healthy /\ w'.in = w.in /\ w'.tries = w.tries /\ w'.todo = << >>
  BY <1>1, <1>5, AtWork, GoesType DEF Steps
<1> QED
  BY <1>1, <1>2, <1>3, <1>6, GoesOn, AtWork

\* A lookup adds a name to what was seen healthy only if it is: an API that the
\* REST mapper has found by then, or a Deployment that is healthy now.
LEMMA SeeHealthy ==
  ASSUME Inv, w.pc # "idle", NEW name \in Names, NEW health \in {"absent", "unhealthy", "healthy"}
  PROVE  /\ See(name, health) \in Seen
         /\ See(name, health).healthy =
               IF health = "healthy" THEN w.seen.healthy \cup {name} ELSE w.seen.healthy
<1>1. w.seen \in Seen
  BY AtWork
<1> DEFINE ps == w.seen.present \cup (IF health = "absent" THEN {} ELSE {name})
           hs == w.seen.healthy \cup (IF health = "healthy" THEN {name} ELSE {})
<1>2. ps \in SUBSET Names /\ hs \in SUBSET Names
  BY <1>1 DEF Seen
<1>3. See(name, health) = [w.seen EXCEPT !.present = ps, !.healthy = hs]
  BY <1>1 DEF See, Seen
<1>4. hs = IF health = "healthy" THEN w.seen.healthy \cup {name} ELSE w.seen.healthy
  OBVIOUS
<1> HIDE DEF ps, hs
<1>5. See(name, health) \in Seen /\ See(name, health).healthy = hs
  BY Zenon, <1>1, <1>2, <1>3 DEF Seen
<1> QED
  BY <1>4, <1>5

LEMMA ProbeInv ==
  ASSUME Inv, Probe
  PROVE  Inv'
<1>1. /\ w.todo # << >> /\ w.pc \in {"dependencies", "tenants", "observe"} /\ w.pc # "idle"
      /\ w.todo \in Seq(Names)
  BY AtWork DEF Probe, Inv, Probing
<1> DEFINE name == Head(w.todo)
<1>2. name \in Names /\ Tail(w.todo) \in Seq(Names)
  BY <1>1
<1>3. Health(name) \in {"absent", "unhealthy", "healthy"}
  BY <1>1, <1>2, AtWork DEF Health, Names
<1>4. PICK health \in {"absent", "unhealthy", "healthy"} :
         /\ \/ Works /\ health = Health(name) /\ Maps({name})
            \/ Env /\ health = "absent" /\ UNCHANGED mapped
         /\ w' = [w EXCEPT !.todo = Remaining(health), !.seen = See(name, health),
                    !.pc = IF Remaining(health) # << >> THEN w.pc ELSE Onwards(See(name, health))]
  BY Zenon, <1>3 DEF Probe
<1> DEFINE rest == Remaining(health)
           seen == See(name, health)
           pc == IF rest # << >> THEN w.pc ELSE Onwards(seen)
<1>5. w' = [w EXCEPT !.todo = rest, !.seen = seen, !.pc = pc]
  BY <1>4
<1>6. rest \in Seq(Names)
  BY <1>2 DEF Remaining
<1>7. pc \in {"dependencies", "tenants", "observe", "kamaji", "helm", "fresh", "dpus"}
      /\ (rest # << >> => pc = w.pc)
  BY <1>1 DEF Onwards
<1>8. /\ seen \in Seen
      /\ seen.healthy = IF health = "healthy" THEN w.seen.healthy \cup {name} ELSE w.seen.healthy
  BY Zenon, <1>1, <1>2, SeeHealthy
<1> HIDE DEF rest, seen, pc
<1>9. w \in Reconciling(w.fresh)
  BY <1>1, AtWork
<1>10. w' \in Reconciling(w.fresh)
  BY Zenon, <1>5, <1>6, <1>7, <1>8, <1>9 DEF Reconciling, Steps
<1>11. /\ w'.fresh = w.fresh /\ w'.pc = pc /\ w'.seen = seen /\ w'.todo = rest
       /\ w'.in = w.in /\ w'.tries = w.tries
  BY <1>5, <1>9 DEF Reconciling
<1>12. UNCHANGED <<cfg, cond, queued, served, deploy, kube, kamaji, dpus, release, sub, lately>>
  BY DEF Probe, Looked, KeepsMapped
<1>13. env' \in Nat
  BY <1>1, <1>4, AtWork, EnvType
<1>14. mapped \subseteq mapped' /\ mapped' \subseteq mapped \cup ({name} \cap served)
  BY <1>4 DEF Maps
<1>15. TypeOK'
  <2>1. w'.seen.present \cup w'.seen.healthy \subseteq APIs \cup Deployments
    BY <1>8, <1>11 DEF Seen, Names
  <2>2. mapped' \subseteq APIs
    BY <1>14 DEF Inv, Typed, TypeOK
  <2> QED
    BY <1>11, <1>12, <2>1, <2>2 DEF Inv, Typed, TypeOK
<1>16. Typed'
  BY <1>10, <1>11, <1>12, <1>13, <1>15 DEF Inv, Typed
<1>17. Observed'
  <2>1. Healthy' = Healthy /\ Healthy \subseteq lately
    BY <1>1, <1>12 DEF Healthy, Inv, Observed
  <2>2. CASE health = "healthy"
    <3>1. Health(name) = "healthy" /\ Maps({name})
      BY <1>4, <2>2
    <3>2. name \in APIs => name \in mapped'
      BY <3>1 DEF Health, HasAPI, Maps
    <3>3. name \in Deployments => name \in lately
      BY <2>1, <3>1, ObjectsAssumption DEF Health, Healthy
    <3> QED
      BY <1>8, <1>11, <1>12, <1>14, <2>1, <2>2, <3>2, <3>3 DEF Inv, Observed
  <2>3. CASE health # "healthy"
    BY <1>8, <1>11, <1>12, <1>14, <2>1, <2>3 DEF Inv, Observed
  <2> QED
    BY <2>2, <2>3
<1>18. Begun' /\ Probing' /\ Wanted'
  BY <1>1, <1>7, <1>11 DEF Inv, Begun, Probing, Wanted
<1> QED
  BY <1>16, <1>17, <1>18 DEF Inv

LEMMA ReadFreshInv ==
  ASSUME Inv, ReadFresh
  PROVE  Inv'
<1>1. w.pc = "fresh" /\ w.pc # "idle" /\ w.todo = << >>
  BY AtWork DEF ReadFresh
<1>2. CASE Env /\ Errs
  BY <1>2, ErrsInv
<1>3. CASE Works /\ Returns /\ UNCHANGED <<cfg, cond, cluster, lately>>
  <2>1. w' = Idle /\ queued' \in BOOLEAN /\ env' \in Nat
    BY <1>1, <1>3, AtWork, EnvType DEF Returns, Finish
  <2> QED
    BY <1>3, <2>1, EndsInv DEF cluster, Inv, Typed, TypeOK
<1>4. CASE /\ Works /\ UNCHANGED <<cfg, cond, queued, cluster, lately>>
           /\ w' = [w EXCEPT !.pc = "write", !.fresh = <<cfg, cond>>]
  <2>1. w \in Reconciling(w.fresh)
    BY <1>1, AtWork
  <2>2. w' \in Reconciling(<<cfg, cond>>)
    BY Zenon, <1>4, <2>1 DEF Reconciling, Steps
  <2>3. /\ w'.fresh = <<cfg, cond>> /\ w'.pc = "write" /\ w'.seen = w.seen /\ w'.in = w.in
        /\ w'.tries = w.tries /\ w'.todo = w.todo
    BY <1>4, <2>1 DEF Reconciling
  <2>4. env' \in Nat
    BY <1>1, <1>4, AtWork, EnvType
  <2> QED
    BY <1>1, <1>4, <2>2, <2>3, <2>4, GoesOn, AtWork DEF cluster
<1> QED
  BY <1>2, <1>3, <1>4 DEF ReadFresh

\* The merge leaves the daemon's condition alone, and reports documented reasons.
LEMMA MergeType ==
  ASSUME NEW c, c \in Conds(c)
  PROVE  LET m == mergeOwnedConditions(c)
         IN  /\ m \in Conds(m)
             /\ m.ready = c.ready
             /\ m.supported = Verdict(w.in, w.seen).supported
             /\ m.operator = Verdict(w.in, w.seen).operator
             /\ m.dpu = Verdict(w.in, w.seen).dpu
  BY Zenon DEF mergeOwnedConditions, Conds

LEMMA UpdateStatusInv ==
  ASSUME Inv, UpdateStatus
  PROVE  Inv'
<1>1. w.pc = "write" /\ w.pc # "idle"
  BY DEF UpdateStatus
<1>2. CASE Env /\ Errs
  BY <1>2, ErrsInv
<1>3. CASE Works /\ cond' = mergeOwnedConditions(cond) /\ w' = Idle /\ queued' = TRUE
           /\ UNCHANGED <<cfg, cluster, lately>>
  <2>1. cond \in Conds(cond) /\ env' \in Nat
    BY <1>1, <1>3, AtWork, EnvType DEF Inv, Typed
  <2>2. /\ cond' \in Conds(cond') /\ cond'.ready = cond.ready
        /\ cond'.supported = Verdict(w.in, w.seen).supported
        /\ cond'.operator = Verdict(w.in, w.seen).operator
        /\ cond'.dpu = Verdict(w.in, w.seen).dpu
    BY <1>3, <2>1, MergeType
  <2>3. w' \in Reconciling(w'.fresh) /\ w'.pc = "idle"
    BY <1>3, IdleType
  <2>4. w'.seen.healthy = {} /\ w'.todo = << >> /\ w'.tries = 0 /\ w'.in = None
    BY <1>3, IdleSees
  <2>5. w'.seen \in Seen
    BY <2>3 DEF Reconciling
  <2>6. TypeOK'
    <3>1. UNCHANGED <<cfg, served, mapped, deploy, dpus, release, sub, lately>> /\ queued' \in BOOLEAN
      BY <1>3 DEF cluster
    <3>2. w'.seen.present \cup w'.seen.healthy \subseteq APIs \cup Deployments
      BY <2>5 DEF Seen, Names
    <3>3. w'.tries < MaxTries
      BY <2>4, VendorStatusAssumption
    <3>4. /\ cond'.supported.skew \in {"Supported", "TooOld", "TooNew", "Unknown", "Unpinned",
                                       "UnknownVendor", "InvalidConfig", "Blocked"}
          /\ cond'.operator.phase \in {"Installing", "Degraded", "Ready"}
          /\ cond'.dpu.phase \in {"Rebooting", "Ready", "Unknown"}
      <4> DEFINE v == Verdict(w.in, w.seen)
      <4>1. /\ v.supported.skew \in {"Supported", "TooOld", "TooNew", "Unknown", "Unpinned",
                                     "UnknownVendor", "InvalidConfig", "Blocked"}
            /\ v.operator.phase \in {"Installing", "Degraded", "Ready"}
            /\ v.dpu.phase \in {"Rebooting", "Ready", "Unknown"}
        BY VerdictType
      <4>2. cond'.supported = v.supported /\ cond'.operator = v.operator /\ cond'.dpu = v.dpu
        BY <2>2
      <4> HIDE DEF v
      <4> QED
        BY <4>1, <4>2
    <3>5. cond'.ready \in BOOLEAN
      BY <2>1, <2>2 DEF Conds
    <3>6. /\ cfg' \in Intent /\ served' \subseteq APIs /\ mapped' \subseteq APIs
          /\ deploy' \in [Deployments -> {"absent", "unhealthy", "healthy"}]
          /\ dpus' \in [DPUs -> DPU \cup {None}]
          /\ {release', sub'} \subseteq Installation \cup {None}
          /\ lately' \subseteq Deployments
      BY Zenon, <3>1 DEF Inv, Typed, TypeOK
    <3>7. w'.in \in Intent \cup {None}
      BY <2>4
    <3> QED
      BY Zenon, <3>1, <3>2, <3>3, <3>4, <3>5, <3>6, <3>7 DEF TypeOK
  <2>7. Typed'
    BY <1>3, <2>1, <2>2, <2>3, <2>6 DEF Inv, Typed, cluster
  <2> QED
    BY <1>3, <2>3, <2>4, <2>7 DEF Inv, Begun, Probing, Observed, Wanted, cluster
<1> QED
  BY Zenon, <1>2, <1>3 DEF UpdateStatus

LEMMA ConflictInv ==
  ASSUME Inv, Conflict
  PROVE  Inv'
<1>1. w.pc = "write" /\ w.pc # "idle" /\ w.todo = << >> /\ Works
  BY AtWork DEF Conflict
<1>2. CASE Errs
  BY <1>1, <1>2, ErrsInv
<1>3. CASE /\ w.tries + 1 < MaxTries /\ UNCHANGED <<cfg, cond, queued, cluster, lately>>
           /\ w' = [w EXCEPT !.pc = "fresh", !.fresh = None, !.tries = @ + 1]
  <2>1. w \in Reconciling(w.fresh) /\ w.tries + 1 \in Nat
    BY <1>1, AtWork DEF Reconciling
  <2>2. w' = [w EXCEPT !.pc = "fresh", !.fresh = None, !.tries = w.tries + 1]
    BY <1>3, <2>1 DEF Reconciling
  <2> DEFINE k == w.tries + 1
  <2>3. k \in Nat /\ k < MaxTries /\ w' = [w EXCEPT !.pc = "fresh", !.fresh = None, !.tries = k]
    BY <1>3, <2>1, <2>2
  <2> HIDE DEF k
  <2>4. w' \in Reconciling(None)
    BY Zenon, <2>1, <2>3 DEF Reconciling, Steps
  <2>5. /\ w'.fresh = None /\ w'.pc = "fresh" /\ w'.seen = w.seen /\ w'.in = w.in
        /\ w'.tries = k /\ w'.todo = w.todo
    BY <2>1, <2>3 DEF Reconciling
  <2>6. env' \in Nat
    BY <1>1, AtWork, EnvType
  <2> QED
    BY <1>1, <1>3, <2>3, <2>4, <2>5, <2>6, GoesOn, AtWork DEF cluster
<1> QED
  BY <1>2, <1>3 DEF Conflict

--------------------------------------------------------------------------------
(* Users, operators, the daemon and restarts *)

\* A step that leaves the worker and the conditions alone.
LEMMA AroundInv ==
  ASSUME Inv, env' \in Nat, UNCHANGED <<w, cond, mapped>>,
         cfg' \in Intent, queued' \in BOOLEAN, served' \subseteq APIs,
         deploy' \in [Deployments -> {"absent", "unhealthy", "healthy"}],
         kube' \in Kubes, kamaji' \in BOOLEAN,
         dpus' \in [DPUs -> DPU \cup {None}],
         {release', sub'} \subseteq Installation \cup {None},
         lately \subseteq lately', lately' \subseteq Deployments,
         deploy' = deploy \/ Healthy' \subseteq lately'
  PROVE  Inv'
<1>1. TypeOK'
  BY DEF Inv, Typed, TypeOK
<1>2. Typed'
  BY <1>1 DEF Inv, Typed
<1>3. Observed'
  BY DEF Inv, Observed, Healthy
<1> QED
  BY <1>2, <1>3 DEF Inv, Begun, Probing, Wanted

LEMMA EnvironmentInv ==
  ASSUME Inv,
         \/ EditConfig \/ ServeAPI \/ Roll \/ ClusterChanges \/ DPUChanges \/ OthersInstall \/ Resync
  PROVE  Inv'
<1>1. /\ cfg \in Intent /\ queued \in BOOLEAN /\ served \subseteq APIs
      /\ deploy \in [Deployments -> {"absent", "unhealthy", "healthy"}]
      /\ kube \in Kubes /\ kamaji \in BOOLEAN
      /\ dpus \in [DPUs -> DPU \cup {None}]
      /\ {release, sub} \subseteq Installation \cup {None}
      /\ lately \subseteq Deployments /\ env \in Nat
  BY DEF Inv, Typed, TypeOK
<1>2. CASE EditConfig
  BY <1>1, <1>2, EnvType, ObjectsAssumption, AroundInv DEF EditConfig, cluster
<1>3. CASE ServeAPI
  BY <1>1, <1>3, EnvType, AroundInv DEF ServeAPI
<1>4. CASE Roll
  <2>1. deploy' \in [Deployments -> {"absent", "unhealthy", "healthy"}]
    BY <1>1, <1>4 DEF Roll
  <2>2. Healthy' \subseteq lately' /\ lately \subseteq lately' /\ lately' \subseteq Deployments
    BY <1>1, <1>4 DEF Roll, Healthy
  <2> QED
    BY <1>1, <1>4, <2>1, <2>2, EnvType, AroundInv DEF Roll
<1>5. CASE ClusterChanges
  BY Zenon, <1>1, <1>5, EnvType, AroundInv DEF ClusterChanges, Kubes
<1>6. CASE DPUChanges
  <2>1. dpus' \in [DPUs -> DPU \cup {None}]
    BY <1>1, <1>6, ObjectsAssumption DEF DPUChanges
  <2> QED
    BY Zenon, <1>1, <1>6, <2>1, EnvType, AroundInv DEF DPUChanges
<1>7. CASE OthersInstall
  <2>1. {release', sub'} \subseteq Installation \cup {None}
    BY <1>1, <1>7, ObjectsAssumption DEF OthersInstall
  <2> QED
    BY <1>1, <1>7, <2>1, EnvType, AroundInv DEF OthersInstall
<1>8. CASE Resync
  BY <1>1, <1>8, EnvType, AroundInv DEF Resync, cluster
<1> QED
  BY <1>2, <1>3, <1>4, <1>5, <1>6, <1>7, <1>8

LEMMA DaemonReportsInv ==
  ASSUME Inv, DaemonReports
  PROVE  Inv'
<1>1. cond \in Conds(cond) /\ env' \in Nat
  <2>1. env \in Nat /\ Env /\ cond \in Conds(cond)
    BY DEF Inv, Typed, DaemonReports
  <2> QED
    BY <2>1, EnvType
<1>2. cond' = [cond EXCEPT !.ready = ~cond.ready]
  BY <1>1 DEF DaemonReports, Conds
<1>3. /\ cond' \in Conds(cond)
      /\ cond'.supported = cond.supported /\ cond'.operator = cond.operator /\ cond'.dpu = cond.dpu
      /\ cond'.ready \in BOOLEAN
  BY Zenon, <1>1, <1>2 DEF Conds
<1>4. /\ queued' \in BOOLEAN
      /\ UNCHANGED <<cfg, w, served, mapped, deploy, kube, kamaji, dpus, release, sub, lately>>
  BY DEF DaemonReports, cluster
<1>5. TypeOK'
  BY <1>3, <1>4 DEF Inv, Typed, TypeOK
<1>6. cond' \in Conds(cond')
  BY <1>3 DEF Conds
<1>7. Typed'
  BY <1>1, <1>4, <1>5, <1>6 DEF Inv, Typed
<1> QED
  BY <1>4, <1>7 DEF Inv, Begun, Probing, Observed, Wanted, Healthy

LEMMA RestartInv ==
  ASSUME Inv, Restart
  PROVE  Inv'
<1>1. env' \in Nat
  BY EnvType DEF Inv, Typed, Restart
<1>2. {release', sub'} \subseteq Installation \cup {None}
  BY DEF Restart, KeepsMapped, Inv, Typed, TypeOK
<1> QED
  BY <1>1, <1>2, EndsInv DEF Restart, KeepsMapped

--------------------------------------------------------------------------------
(* The invariant *)

LEMMA InitInv ==
  ASSUME Init
  PROVE  Inv
<1>1. w \in Reconciling(w.fresh) /\ w.pc = "idle" /\ w = Idle
  BY IdleType DEF Init
<1>2. w.seen.healthy = {} /\ w.todo = << >> /\ w.tries = 0 /\ w.in = None
  BY IdleSees DEF Init
<1>3. w.seen \in Seen
  BY <1>1 DEF Reconciling
<1>4. TypeOK
  <2>1. cfg \in Intent /\ {release, sub} \subseteq Installation \cup {None}
    BY ObjectsAssumption DEF Init
  <2>2. w.seen.present \cup w.seen.healthy \subseteq APIs \cup Deployments
    BY <1>3 DEF Seen, Names
  <2>3. deploy \in [Deployments -> {"absent", "unhealthy", "healthy"}]
    BY DEF Init
  <2>4. w.tries < MaxTries
    BY <1>2, VendorStatusAssumption
  <2> QED
    BY <1>2, <2>1, <2>2, <2>3, <2>4 DEF Init, TypeOK
<1>5. cond \in Conds(cond) /\ kube \in Kubes /\ kamaji \in BOOLEAN /\ env \in Nat
  BY Zenon DEF Init, Conds, Kubes
<1> QED
  BY <1>1, <1>2, <1>4, <1>5 DEF Inv, Typed, Begun, Probing, Observed, Wanted

LEMMA NextInv ==
  ASSUME Inv, [Next]_vars
  PROVE  Inv'
<1>1. CASE Work
  BY <1>1, ReconcileInv, ServerVersionInv, ProbeInv, NeedsKamajiInv, HelmEnsureInv, OLMEnsureInv,
     ClaimInv, DetectInv, ObserveDPUsInv, ReadFreshInv, UpdateStatusInv, ConflictInv
     DEF Work
<1>2. CASE \/ EditConfig \/ ServeAPI \/ Roll \/ ClusterChanges \/ DPUChanges \/ OthersInstall \/ Resync
  BY <1>2, EnvironmentInv
<1>3. CASE DaemonReports \/ Restart
  BY <1>3, DaemonReportsInv, RestartInv
<1>4. CASE UNCHANGED vars
  <2>1. /\ cfg' = cfg /\ cond' = cond /\ queued' = queued /\ w' = w /\ lately' = lately
        /\ env' = env /\ served' = served /\ mapped' = mapped /\ deploy' = deploy
        /\ kube' = kube /\ kamaji' = kamaji /\ dpus' = dpus /\ release' = release /\ sub' = sub
    BY <1>4 DEF vars, cluster
  <2>2. TypeOK'
    BY Zenon, <2>1 DEF Inv, Typed, TypeOK
  <2>3. Typed'
    BY Zenon, <2>1, <2>2 DEF Inv, Typed
  <2>4. Begun' /\ Probing' /\ Wanted'
    BY Zenon, <2>1 DEF Inv, Begun, Probing, Wanted
  <2>5. Observed'
    BY Zenon, <2>1 DEF Inv, Observed, Healthy
  <2> QED
    BY <2>3, <2>4, <2>5 DEF Inv
<1> QED
  BY <1>1, <1>2, <1>3, <1>4 DEF Next

LEMMA InvAlways == Spec => []Inv
<1>1. Init => Inv
  BY InitInv
<1>2. Inv /\ [Next]_vars => Inv'
  BY NextInv
<1> QED
  BY <1>1, <1>2, PTL DEF Spec

--------------------------------------------------------------------------------
(* The theorems *)

\* Everything keeps its type; every reason that is written is a documented one, and
\* no write is tried more often than RetryOnConflict allows.
THEOREM StatusTypeCorrect == Spec => []TypeOK
<1>1. Inv => TypeOK
  BY DEF Inv, Typed
<1> QED
  BY <1>1, InvAlways, PTL

\* Only Status().Update and the daemon write conditions.
LEMMA WhoReports ==
  ASSUME Inv, [Next]_vars, cond' # cond
  PROVE  \/ /\ cond' = mergeOwnedConditions(cond) /\ w.pc = "write" /\ env' = env
         \/ DaemonReports
<1>1. CASE Work
  <2>1. UpdateStatus
    BY Zenon, <1>1 DEF Work, Reconcile, ServerVersion, Probe, NeedsKamaji, HelmEnsure, OLMEnsure,
       ClaimSubscription, ReadSubscription, StampSubscription, Claimed, Detect, ObserveNVIDIADPUs,
       ReadFresh, Conflict, Looked, Errs
  <2> QED
    BY Zenon, <2>1 DEF UpdateStatus, Errs, Works
<1>2. CASE ~Work
  BY Zenon, <1>2 DEF Next, vars, EditConfig, ServeAPI, Roll, ClusterChanges, DPUChanges, OthersInstall,
     Resync, Restart
<1> QED
  BY <1>1, <1>2

\* VendorOperatorReady becomes True for NVIDIA only if every required CRD was
\* served and every required Deployment was healthy since the reconcile began.
THEOREM ReadyHasBeenSeen == Spec => ReadyIsEarned
<1>1. ASSUME Inv, [Next]_vars,
             cond'.operator # cond.operator, cond'.operator = Phase("Ready", {"nvidia"})
      PROVE  /\ w.in.vendor = "nvidia"
             /\ CRDs \subseteq mapped
             /\ Controllers \cup {"cert-manager"} \subseteq lately
             /\ Range(Argos) \cap lately # {}
  <2>1. cond \in Conds(cond)
    BY <1>1 DEF Inv, Typed
  <2>2. cond' = mergeOwnedConditions(cond)
    <3>1. cond' = mergeOwnedConditions(cond) \/ DaemonReports
      BY <1>1, WhoReports
    <3>2. ASSUME DaemonReports PROVE FALSE
      BY <1>1, <2>1, <3>2 DEF DaemonReports, Conds
    <3> QED
      BY <3>1, <3>2
  <2>3. Verdict(w.in, w.seen).operator = Phase("Ready", {"nvidia"})
    BY <1>1, <2>1, <2>2, MergeType
  <2>4. /\ w.in.vendor = "nvidia"
        /\ CRDs \cup Controllers \cup {"cert-manager", argo(w.seen)} \subseteq w.seen.healthy
    BY <2>3, ReadyVerdict
  <2>5. /\ w.seen.healthy \cap APIs \subseteq mapped
        /\ w.seen.healthy \cap Deployments \subseteq lately
    BY <1>1 DEF Inv, Observed
  <2>6. CRDs \subseteq APIs /\ Controllers \cup {"cert-manager"} \cup Range(Argos) \subseteq Deployments
    BY DEF APIs, Deployments
  <2> QED
    BY <2>4, <2>5, <2>6, ArgoIsListed
<1>2. Inv /\ [Next]_vars =>
         [cond'.operator # cond.operator /\ cond'.operator = Phase("Ready", {"nvidia"})
             => /\ w.in.vendor = "nvidia"
                /\ CRDs \subseteq mapped
                /\ Controllers \cup {"cert-manager"} \subseteq lately
                /\ Range(Argos) \cap lately # {}]_vars
  BY <1>1
<1> QED
  BY <1>2, InvAlways, PTL DEF Spec, ReadyIsEarned

\* No step of the manager changes the daemon's Ready condition.
THEOREM DaemonIsNotOverruled == Spec => DaemonConditionKept
<1>1. ASSUME Inv, [Next]_vars, env' = env
      PROVE  cond'.ready = cond.ready
  <2>1. cond \in Conds(cond) /\ env \in Nat
    BY <1>1 DEF Inv, Typed
  <2>2. ~DaemonReports
    BY <1>1, <2>1 DEF DaemonReports, Env
  <2>3. cond' = cond \/ cond' = mergeOwnedConditions(cond)
    BY <1>1, <2>2, WhoReports
  <2> QED
    BY <2>1, <2>3, MergeType
<1>2. Inv /\ [Next]_vars => [env' = env => cond'.ready = cond.ready]_vars
  BY <1>1
<1> QED
  BY <1>2, InvAlways, PTL DEF Spec, DaemonConditionKept

\* All the manager does to a Subscription is to label it, for a config that asked.
THEOREM SubscriptionsAreOnlyLabelled == Spec => SubscriptionOnlyLabelled
<1>1. ASSUME Inv, [Next]_vars, env' = env, sub' # sub
      PROVE  w.in.adopt /\ sub # None /\ sub' = [sub EXCEPT !.owner = "adapter"]
  <2>1. env \in Nat
    BY <1>1 DEF Inv, Typed
  <2>2. StampSubscription
    <3>1. CASE Work
      BY Zenon, <1>1, <3>1 DEF Work, Reconcile, ServerVersion, Probe, NeedsKamaji, HelmEnsure, OLMEnsure,
         ClaimSubscription, ReadSubscription, Claimed, Detect, ObserveNVIDIADPUs,
         ReadFresh, UpdateStatus, Conflict, Looked, Errs, cluster, KeepsMapped
    <3>2. CASE ~Work
      <4>1. ~Env
        BY <1>1, <2>1 DEF Env
      <4> QED
        BY Zenon, <1>1, <3>2, <4>1 DEF Next, vars, cluster, EditConfig, DaemonReports, ServeAPI, Roll,
           ClusterChanges, DPUChanges, OthersInstall, Resync, Restart
    <3> QED
      BY <3>1, <3>2
  <2>3. w.pc = "stamp" /\ w.sub # None /\ sub = w.sub /\ sub' = [sub EXCEPT !.owner = "adapter"]
    BY Zenon, <1>1, <2>2 DEF StampSubscription, Errs, cluster
  <2> QED
    BY <1>1, <2>3 DEF Inv, Wanted
<1>2. Inv /\ [Next]_vars =>
         [env' = env /\ sub' # sub
             => /\ w.in.adopt
                /\ sub # None
                /\ sub' = [sub EXCEPT !.owner = "adapter"]]_vars
  BY <1>1
<1> QED
  BY <1>2, InvAlways, PTL DEF Spec, SubscriptionOnlyLabelled

===============================================================================
