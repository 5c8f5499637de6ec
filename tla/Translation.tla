------------------------------ MODULE Translation ------------------------------
(***************************************************************************)
(* The translation controllers of pkg/translation, one per field mapping,  *)
(* running against the Kubernetes API server.                              *)
(*                                                                         *)
(* A source (ServiceFunctionChain, DataProcessingUnit) is translated into  *)
(* children (DPUService, DPU, ...).  Every API call of a reconcile is a    *)
(* step of its own, so the other controllers, the users, the garbage       *)
(* collector, the lifecycle manager and the vendor operator act between    *)
(* any two calls.  What a mapping document computes from a source is       *)
(* abstracted to the constants Emit, MapError, PruneWhen, StatusWhen and   *)
(* Eligible: the controller only depends on which children a spec names.   *)
(***************************************************************************)
EXTENDS Integers, Sequences, FiniteSets

CONSTANTS
  Mappings,           \* the loaded mapping documents; each has a controller
  Sources,            \* identities (namespace, name) of source objects
  Children,           \* identities (kind, namespace, name) of child objects
  Kinds,              \* target kinds
  Specs,              \* the source specs that can be submitted
  None,               \* absence of a key, a spec or a child
  SourceName(_),      \* metadata.name of a source, without its namespace
  KindOf(_),          \* the kind of a child
  TargetKinds(_),     \* the kinds a mapping emits
  CanOwn(_, _),       \* an owner reference from the source to the child is legal
  Emit(_, _, _),      \* the children a mapping emits for a source and spec
  MapError(_, _),     \* the mapping cannot be evaluated on the spec
  PruneWhen(_, _),    \* the mapping's pruneWhen guard
  StatusWhen(_, _, _),\* the mapping's status.when guard, which may also look
                      \* at whether the condition is already on the source
  Eligible(_, _),     \* the source's part of the ready expression
  NonBlocking,        \* kinds the ready expression does not wait for
  InitiallyServed,    \* kinds whose CRD is installed when the manager starts
  Tampered,           \* children whose status changes or that third parties delete
  MaxEnv,             \* bound on the steps of users, operators and faults
  MaxUid              \* bound on the creations of one source

ChildObj == [map: Mappings, by: Sources, uid: Nat, ready: BOOLEAN]

\* None is no object; a mapping emits children, of kinds it declares.
ASSUME ConstantsAssumption ==
  /\ None \notin Sources /\ None \notin ChildObj
  /\ InitiallyServed \subseteq Kinds
  /\ \A m \in Mappings, s \in Sources, p \in Specs \cup {None} :
       Emit(m, s, p) \in Seq(Children)
  /\ \A s \in Sources, c \in Children : CanOwn(s, c) \in BOOLEAN

VARIABLES
  src,      \* source objects in the API server
  child,    \* child objects in the API server
  lcm,      \* VendorOperatorReady over the DpuOperatorConfigs
  served,   \* kinds the API server serves
  watched,  \* kinds the running manager has informers for
  queue,    \* work queue of each controller
  w,        \* the reconcile each controller is executing
  env       \* environment steps taken so far

vars == <<src, child, lcm, served, watched, queue, w, env>>

Conds == {"none", "True", "False"}
Lcm == {"absent", "blocked", "ready"}

Steps == {"idle", "addFinalizer", "map", "apis", "apply", "pruneList", "prune",
          "mirrorList", "updateStatus", "cleanupList", "cleanup", "removeFinalizer"}

SourceObj == [live: BOOLEAN, uid: Nat, deleting: BOOLEAN, fin: BOOLEAN,
              spec: Specs \cup {None}, cond: [Mappings -> Conds], ready: BOOLEAN]

Reconcile == [pc: Steps, key: Sources \cup {None}, snap: SourceObj, stale: BOOLEAN,
              todo: Seq(Children), found: SUBSET Children, verdict: Conds]

NoConds == [m \in Mappings |-> "none"]

\* What is left of a deleted source: only the number of times it was created.
Gone(n) == [live |-> FALSE, uid |-> n, deleting |-> FALSE, fin |-> FALSE,
            spec |-> None, cond |-> NoConds, ready |-> FALSE]

Idle == [pc |-> "idle", key |-> None, snap |-> Gone(0), stale |-> FALSE,
         todo |-> <<>>, found |-> {}, verdict |-> "none"]

--------------------------------------------------------------------------------
(* The API server: which events a write raises, and whose copy it outdates. *)

\* For(source): every write to a source enqueues it in every controller.
SourceEvent(q, s) == [m \in Mappings |-> q[m] \cup {s}]

\* A copy of s read before the write fails the resourceVersion precondition.
Outdate(ws, s) ==
  [m \in Mappings |-> IF ws[m].key = s THEN [ws[m] EXCEPT !.stale = TRUE] ELSE ws[m]]

\* The source whose controller owner reference the child carries.
OwnerKeys(c, obj) ==
  IF obj # None /\ CanOwn(obj.by, c) THEN {obj.by} ELSE {}

\* Owns(kind): a changed child enqueues its old and new controller owner, if
\* the manager has an informer for the kind.
ChildEvent(q, c, old, new) ==
  [m \in Mappings |->
     IF old # new /\ KindOf(c) \in watched \cap TargetKinds(m)
     THEN q[m] \cup OwnerKeys(c, old) \cup OwnerKeys(c, new)
     ELSE q[m]]

LiveSources == {s \in Sources : src[s].live}

SetChild(c, obj) ==
  /\ child' = [child EXCEPT ![c] = obj]
  /\ queue' = ChildEvent(queue, c, child[c], obj)

--------------------------------------------------------------------------------
(* Ownership. *)

\* Tracked by the provenance annotation, because an owner reference would be
\* illegal: garbage collection does not reach it.
Annotated(c, obj) == obj # None /\ ~CanOwn(obj.by, c)

AnnotatedBy(c, s) == Annotated(c, child[c]) /\ child[c].by = s

\* Mutant: the labels are taken as proof of ownership.
ownedBySourceByLabel(c, obj, s) == TRUE

ownedBySource(c, obj, s) ==
  \/ CanOwn(obj.by, c) /\ obj.by = s.key /\ obj.uid = s.uid
  \/ ~CanOwn(obj.by, c) /\ obj.by = s.key

\* stampOwner: a controller reference with the source's uid, or the annotation,
\* which names the source without a uid.  The child's own status is kept.
stampOwner(m, s, uid, c) ==
  [map |-> m, by |-> s, uid |-> IF CanOwn(s, c) THEN uid ELSE 0,
   ready |-> IF child[c] = None THEN FALSE ELSE child[c].ready]

\* The listing is by labels, which hold the source's name but no namespace.
listChildObjects(m, s) ==
  {c \in Children : /\ child[c] # None
                    /\ KindOf(c) \in served
                    /\ child[c].map = m
                    /\ SourceName(child[c].by) = SourceName(s)}

emitted(m) == Emit(m, w[m].key, w[m].snap.spec)

desired(m) == {emitted(m)[i] : i \in DOMAIN emitted(m)}

--------------------------------------------------------------------------------
(* One reconcile of controller m.  An error and a RequeueAfter both put the  *)
(* key back in the queue.                                                    *)

\* Mutant: the finished reconcile keeps its key.
FinishKeepsKey(m) == w' = [w EXCEPT ![m] = [w[m] EXCEPT !.pc = "idle"]]

Finish(m) == w' = [w EXCEPT ![m] = Idle]

Requeue(m) ==
  /\ queue' = [queue EXCEPT ![m] = @ \cup {w[m].key}]
  /\ Finish(m)
  /\ UNCHANGED <<src, child, lcm, served, watched, env>>

Goto(m, step) == w' = [w EXCEPT ![m] = [w[m] EXCEPT !.pc = step]]

AfterApply(m) ==
  IF PruneWhen(m, w[m].snap.spec) THEN "pruneList" ELSE "mirrorList"

Dequeue(m, s, next) ==
  /\ w[m].pc = "idle" /\ s \in queue[m]
  /\ queue' = [queue EXCEPT ![m] = @ \ {s}]
  /\ w' = [w EXCEPT ![m] = next]
  /\ UNCHANGED <<src, child, lcm, served, watched, env>>

Start(s, step) == [Idle EXCEPT !.pc = step, !.key = s, !.snap = src[s]]

ReconcileGone(m, s) ==
  /\ ~src[s].live \/ (src[s].deleting /\ ~src[s].fin)
  /\ Dequeue(m, s, Idle)

ReconcileLive(m, s) ==
  /\ src[s].live /\ ~src[s].deleting
  /\ Dequeue(m, s, Start(s, IF src[s].fin THEN "map" ELSE "addFinalizer"))

\* Mutant: the finalizer comes off before the annotated children are deleted.
ReconcileDeleteSkipsCleanup(m, s) ==
  /\ src[s].live /\ src[s].deleting /\ src[s].fin
  /\ Dequeue(m, s, Start(s, "removeFinalizer"))

ReconcileDelete(m, s) ==
  /\ src[s].live /\ src[s].deleting /\ src[s].fin
  /\ Dequeue(m, s, Start(s, "cleanupList"))

Take(m, s) == ReconcileGone(m, s) \/ ReconcileLive(m, s) \/ ReconcileDelete(m, s)

AddFinalizer(m) ==
  LET s == w[m].key
      obj == [w[m].snap EXCEPT !.fin = TRUE]
  IN /\ w[m].pc = "addFinalizer" /\ ~w[m].stale
     /\ src' = [src EXCEPT ![s] = obj]
     /\ queue' = SourceEvent(queue, s)
     /\ w' = [Outdate(w, s) EXCEPT ![m] = [w[m] EXCEPT !.pc = "map", !.snap = obj]]
     /\ UNCHANGED <<child, lcm, served, watched, env>>

\* Any write through an outdated copy is refused; the error requeues the key.
Conflict(m) ==
  /\ w[m].pc \in {"addFinalizer", "updateStatus", "removeFinalizer"} /\ w[m].stale
  /\ Requeue(m)

MapFails(m) ==
  /\ w[m].pc = "map" /\ MapError(m, w[m].snap.spec)
  /\ Requeue(m)

NothingEmitted(m) ==
  /\ w[m].pc = "map" /\ ~MapError(m, w[m].snap.spec) /\ emitted(m) = <<>>
  /\ Goto(m, AfterApply(m))
  /\ UNCHANGED <<src, child, lcm, served, watched, queue, env>>

lcmBlocks == lcm = "blocked"

WaitForLCM(m) ==
  /\ w[m].pc = "map" /\ ~MapError(m, w[m].snap.spec) /\ emitted(m) # <<>>
  /\ lcmBlocks
  /\ Requeue(m)

LCMOpen(m) ==
  /\ w[m].pc = "map" /\ ~MapError(m, w[m].snap.spec) /\ emitted(m) # <<>>
  /\ ~lcmBlocks
  /\ Goto(m, "apis")
  /\ UNCHANGED <<src, child, lcm, served, watched, queue, env>>

TargetsInstalled(m) == \A c \in desired(m) : KindOf(c) \in served

\* Mutant: a missing API returns without a requeue.
WaitForAPIsForgets(m) ==
  /\ w[m].pc = "apis" /\ ~TargetsInstalled(m)
  /\ Finish(m)
  /\ UNCHANGED <<src, child, lcm, served, watched, queue, env>>

WaitForAPIs(m) ==
  /\ w[m].pc = "apis" /\ ~TargetsInstalled(m)
  /\ Requeue(m)

APIsReady(m) ==
  /\ w[m].pc = "apis" /\ TargetsInstalled(m)
  /\ w' = [w EXCEPT ![m] = [w[m] EXCEPT !.pc = "apply", !.todo = emitted(m)]]
  /\ UNCHANGED <<src, child, lcm, served, watched, queue, env>>

\* Forced server-side apply under one field manager: the labels, the owner
\* reference and the annotation become exactly what this reconcile stamps.
ApplyOne(m) ==
  /\ w[m].pc = "apply" /\ w[m].todo # <<>>
  /\ LET c == Head(w[m].todo)
     IN SetChild(c, stampOwner(m, w[m].key, w[m].snap.uid, c))
  /\ w' = [w EXCEPT ![m] = [w[m] EXCEPT
             !.todo = Tail(@), !.pc = IF Len(w[m].todo) = 1 THEN AfterApply(m) ELSE @]]
  /\ UNCHANGED <<src, lcm, served, watched, env>>

\* Mutant: nothing is ever stale.
staleChildrenNone(m) == {}

staleChildren(m) ==
  {c \in listChildObjects(m, w[m].key) :
     /\ ownedBySource(c, child[c], [key |-> w[m].key, uid |-> w[m].snap.uid])
     /\ c \notin desired(m)}

PruneList(m) ==
  /\ w[m].pc = "pruneList"
  /\ w' = [w EXCEPT ![m] = [w[m] EXCEPT
             !.found = staleChildren(m),
             !.pc = IF staleChildren(m) = {} THEN "mirrorList" ELSE "prune"]]
  /\ UNCHANGED <<src, child, lcm, served, watched, queue, env>>

\* Deletes by name, without a precondition; a missing child is not an error.
DeleteFound(m, next) ==
  \E c \in w[m].found :
    /\ SetChild(c, None)
    /\ w' = [w EXCEPT ![m] = [w[m] EXCEPT
               !.found = @ \ {c}, !.pc = IF w[m].found = {c} THEN next ELSE @]]
    /\ UNCHANGED <<src, lcm, served, watched, env>>

pruneStaleChildren(m) == w[m].pc = "prune" /\ DeleteFound(m, "mirrorList")

\* Mutant: one ready child is enough.
VerdictAnyReady(m, p, cs) ==
  IF Eligible(m, p) /\ \E c \in cs : child[c].ready \/ KindOf(c) \in NonBlocking
  THEN "True" ELSE "False"

\* The ready condition of the mapping documents (DPFReady, DSCReady): the
\* source is eligible, there are children, and none of them is waited for.
Verdict(m, p, cs) ==
  IF /\ Eligible(m, p) /\ cs # {}
     /\ \A c \in cs : child[c].ready \/ KindOf(c) \in NonBlocking
  THEN "True" ELSE "False"

mirrorVerdict(m) == Verdict(m, w[m].snap.spec, listChildObjects(m, w[m].key))

\* Mutant: a condition that is there is taken to be up to date.
StatusUnchangedOnce(m) ==
  LET cond == w[m].snap.cond[m]
  IN ~StatusWhen(m, w[m].snap.spec, cond # "none") \/ cond # "none"

StatusUnchanged(m) ==
  LET cond == w[m].snap.cond[m]
  IN ~StatusWhen(m, w[m].snap.spec, cond # "none") \/ mirrorVerdict(m) = cond

MirrorNothing(m) ==
  /\ w[m].pc = "mirrorList" /\ StatusUnchanged(m)
  /\ Finish(m)
  /\ UNCHANGED <<src, child, lcm, served, watched, queue, env>>

MirrorList(m) ==
  /\ w[m].pc = "mirrorList" /\ ~StatusUnchanged(m)
  /\ w' = [w EXCEPT ![m] = [w[m] EXCEPT !.pc = "updateStatus", !.verdict = mirrorVerdict(m)]]
  /\ UNCHANGED <<src, child, lcm, served, watched, queue, env>>

\* Mutant: the status is written without the resourceVersion precondition.
UpdateStatusBlindly(m) ==
  LET s == w[m].key
      snap == w[m].snap
  IN /\ w[m].pc = "updateStatus"
     /\ src' = [src EXCEPT ![s].cond = [snap.cond EXCEPT ![m] = w[m].verdict],
                           ![s].ready = snap.ready]
     /\ queue' = SourceEvent(queue, s)
     /\ w' = [Outdate(w, s) EXCEPT ![m] = Idle]
     /\ UNCHANGED <<child, lcm, served, watched, env>>

\* Status().Update replaces the whole status with the reconcile's copy.
UpdateStatus(m) ==
  LET s == w[m].key
      snap == w[m].snap
  IN /\ w[m].pc = "updateStatus" /\ ~w[m].stale
     /\ src' = [src EXCEPT ![s].cond = [snap.cond EXCEPT ![m] = w[m].verdict],
                           ![s].ready = snap.ready]
     /\ queue' = SourceEvent(queue, s)
     /\ w' = [Outdate(w, s) EXCEPT ![m] = Idle]
     /\ UNCHANGED <<child, lcm, served, watched, env>>

CleanupList(m) ==
  LET cs == {c \in listChildObjects(m, w[m].key) : AnnotatedBy(c, w[m].key)}
  IN /\ w[m].pc = "cleanupList"
     /\ w' = [w EXCEPT ![m] = [w[m] EXCEPT
                !.found = cs, !.pc = IF cs = {} THEN "removeFinalizer" ELSE "cleanup"]]
     /\ UNCHANGED <<src, child, lcm, served, watched, queue, env>>

cleanupAnnotatedChildren(m) == w[m].pc = "cleanup" /\ DeleteFound(m, "removeFinalizer")

\* The finalizer was the last one: the API server removes the source.
RemoveFinalizer(m) ==
  LET s == w[m].key
  IN /\ w[m].pc = "removeFinalizer" /\ ~w[m].stale
     /\ src' = [src EXCEPT ![s] = Gone(src[s].uid)]
     /\ queue' = SourceEvent(queue, s)
     /\ w' = [Outdate(w, s) EXCEPT ![m] = Idle]
     /\ UNCHANGED <<child, lcm, served, watched, env>>

Work(m) ==
  \/ AddFinalizer(m) \/ Conflict(m) \/ MapFails(m) \/ NothingEmitted(m)
  \/ WaitForLCM(m) \/ LCMOpen(m) \/ WaitForAPIs(m) \/ APIsReady(m) \/ ApplyOne(m)
  \/ PruneList(m) \/ pruneStaleChildren(m)
  \/ MirrorNothing(m) \/ MirrorList(m) \/ UpdateStatus(m)
  \/ CleanupList(m) \/ cleanupAnnotatedChildren(m) \/ RemoveFinalizer(m)

--------------------------------------------------------------------------------
(* Everybody else.  Each step counts against MaxEnv. *)

Spend == env < MaxEnv /\ env' = env + 1

\* A write to s by someone other than the controllers.
WriteSource(s, obj) ==
  /\ src' = [src EXCEPT ![s] = obj]
  /\ queue' = SourceEvent(queue, s)
  /\ w' = Outdate(w, s)
  /\ UNCHANGED <<child, lcm, served, watched>>

CreateSource(s) ==
  /\ Spend /\ ~src[s].live /\ src[s].uid < MaxUid
  /\ \E p \in Specs :
       WriteSource(s, [Gone(src[s].uid + 1) EXCEPT !.live = TRUE, !.spec = p])

EditSource(s) ==
  /\ Spend /\ src[s].live
  /\ \E p \in Specs \ {src[s].spec} : WriteSource(s, [src[s] EXCEPT !.spec = p])

DeleteSource(s) ==
  /\ Spend /\ src[s].live /\ ~src[s].deleting
  /\ WriteSource(s, IF src[s].fin THEN [src[s] EXCEPT !.deleting = TRUE]
                                  ELSE Gone(src[s].uid))

\* The OPI daemon publishes Ready on the source it also reports on.
ReportReady(s) ==
  /\ Spend /\ src[s].live /\ ~src[s].ready
  /\ WriteSource(s, [src[s] EXCEPT !.ready = TRUE])

\* The vendor operator reports a child ready or not ready.
ChildStatus(c) ==
  /\ Spend /\ c \in Tampered /\ child[c] # None
  /\ SetChild(c, [child[c] EXCEPT !.ready = ~@])
  /\ UNCHANGED <<src, lcm, served, watched, w>>

DropChild(c) ==
  /\ Spend /\ c \in Tampered /\ child[c] # None
  /\ SetChild(c, None)
  /\ UNCHANGED <<src, lcm, served, watched, w>>

\* A DpuOperatorConfig event enqueues every source when the config is ready.
\* sourceRequests swallows a failing List, so the event may enqueue nothing.
SetLCM(v) ==
  /\ Spend /\ lcm # v /\ lcm' = v
  /\ \E reqs \in {{}, IF v = "ready" THEN LiveSources ELSE {}} :
       queue' = [m \in Mappings |-> queue[m] \cup reqs]
  /\ UNCHANGED <<src, child, served, watched, w>>

\* A CRD becomes served; its event enqueues the sources of the mappings that
\* emit the kind, unless the List fails.
ServeKind(k) ==
  /\ Spend /\ k \notin served /\ served' = served \cup {k}
  /\ \E reqs \in {{}, LiveSources} :
       queue' = [m \in Mappings |->
                   queue[m] \cup IF k \in TargetKinds(m) THEN reqs ELSE {}]
  /\ UNCHANGED <<src, child, lcm, watched, w>>

\* Mutant: the error of a failed call is swallowed.
CallFailsSilently(m) ==
  /\ Spend /\ w[m].pc # "idle"
  /\ Finish(m)
  /\ UNCHANGED <<src, child, lcm, served, watched, queue>>

\* An API call of a running reconcile fails before it has an effect.
CallFails(m) ==
  /\ Spend /\ w[m].pc # "idle"
  /\ queue' = [queue EXCEPT ![m] = @ \cup {w[m].key}]
  /\ Finish(m)
  /\ UNCHANGED <<src, child, lcm, served, watched>>

\* The manager stops and a new one starts: the running reconciles and queues
\* are lost, the initial listing enqueues every source, and informers exist
\* for the kinds that are served now.
Restart ==
  /\ Spend
  /\ queue' = [m \in Mappings |-> LiveSources]
  /\ w' = [m \in Mappings |-> Idle]
  /\ watched' = served
  /\ UNCHANGED <<src, child, lcm, served>>

\* Garbage collection of a child whose owner no longer exists.
CollectChild(c) ==
  /\ child[c] # None /\ CanOwn(child[c].by, c)
  /\ ~(src[child[c].by].live /\ src[child[c].by].uid = child[c].uid)
  /\ SetChild(c, None)
  /\ UNCHANGED <<src, lcm, served, watched, w, env>>

Environment ==
  \/ \E s \in Sources :
       CreateSource(s) \/ EditSource(s) \/ DeleteSource(s) \/ ReportReady(s)
  \/ \E c \in Children : ChildStatus(c) \/ DropChild(c)
  \/ \E v \in Lcm : SetLCM(v)
  \/ \E k \in Kinds : ServeKind(k)
  \/ \E m \in Mappings : CallFails(m)
  \/ Restart

Init ==
  /\ src = [s \in Sources |-> Gone(0)]
  /\ child = [c \in Children |-> None]
  /\ lcm \in Lcm
  /\ served = InitiallyServed
  /\ watched = InitiallyServed
  /\ queue = [m \in Mappings |-> {}]
  /\ w = [m \in Mappings |-> Idle]
  /\ env = 0

Next ==
  \/ \E m \in Mappings : Work(m) \/ \E s \in Sources : Take(m, s)
  \/ \E c \in Children : CollectChild(c)
  \/ Environment

\* A reconcile that runs takes its next call; the work queue is first in,
\* first out, so a queued key is taken when the worker is free again and
\* again; garbage collection runs.  Users and faults owe nothing.
Fairness ==
  /\ \A m \in Mappings : WF_vars(Work(m)) /\ \A s \in Sources : SF_vars(Take(m, s))
  /\ \A c \in Children : WF_vars(CollectChild(c))

Spec == Init /\ [][Next]_vars /\ Fairness

--------------------------------------------------------------------------------
(* Properties. *)

\* Every variable keeps its shape; a running reconcile has a key.
TypeOK ==
  /\ src \in [Sources -> SourceObj]
  /\ child \in [Children -> ChildObj \cup {None}]
  /\ lcm \in Lcm
  /\ served \subseteq Kinds /\ watched \subseteq served
  /\ queue \in [Mappings -> SUBSET Sources]
  /\ w \in [Mappings -> Reconcile]
  /\ \A m \in Mappings : w[m].pc = "idle" <=> w[m].key = None
  /\ env \in Nat

\* A child that garbage collection cannot reach never outlives the finalizer of
\* the source it is annotated with: whatever is deleted, edited or restarted
\* while children are being applied, cleanupAnnotatedChildren still has a
\* source object to run from (the order of Reconcile and reconcileDelete).
AnnotatedChildGuarded ==
  \A c \in Children :
    Annotated(c, child[c]) => src[child[c].by].live /\ src[child[c].by].fin

\* The status a reconcile writes comes from a copy it read many calls ago, yet
\* it never undoes the daemon's Ready nor another mapping's condition: only the
\* daemon changes Ready, and only mapping m's status update changes its own
\* condition (mirrorStatus, single-writer status model).
ForeignStatusKept ==
  [][\A s \in Sources : src[s].live /\ src'[s].live =>
       /\ env' = env => src'[s].ready = src[s].ready
       /\ \A m \in Mappings : src'[s].cond[m] # src[s].cond[m] =>
            w[m].pc = "updateStatus" /\ w[m].key = s /\ w'[m].pc = "idle"]_vars

\* A controller only deletes children of the source it is reconciling, although
\* its listing also returns the children of a same-named source in another
\* namespace; any other deletion is garbage collection after the owner is gone
\* (pruneStaleChildren, cleanupAnnotatedChildren).
OnlyOwnChildrenDeleted ==
  [][\A c \in Children : (child[c] # None /\ child'[c] = None /\ env' = env) =>
       LET s == child[c].by
       IN \/ CanOwn(s, c) /\ ~(src[s].live /\ src[s].uid = child[c].uid)
          \/ \E m \in Mappings : w[m].key = s /\ w'[m] # w[m]]_vars

\* The ready condition is only decided True when every child the source emits
\* that exists is ready (the readiness contract of the mapping documents).
ReadyMeansChildrenReady ==
  [][\A m \in Mappings :
       (w[m].pc = "mirrorList" /\ w'[m].verdict = "True") =>
         \A c \in desired(m) :
           child[c] = None \/ child[c].ready \/ KindOf(c) \in NonBlocking]_vars

\* The verdict is about the children the source itself emitted ("children, the
\* list of emitted child objects"), not about those of a same-named source
\* (mirrorStatus, listChildObjects).
VerdictFromOwnChildren ==
  [][\A m \in Mappings :
       (w[m].pc = "mirrorList" /\ w'[m].pc = "updateStatus") =>
         LET me == [key |-> w[m].key, uid |-> w[m].snap.uid]
             own == {c \in listChildObjects(m, w[m].key) : ownedBySource(c, child[c], me)}
         IN w'[m].verdict = Verdict(m, w[m].snap.spec, own)]_vars

\* Nothing keeps mapping m from writing the children of s.
Open(m, s) ==
  LET cs == Emit(m, s, src[s].spec)
  IN /\ src[s].live /\ ~src[s].deleting /\ ~MapError(m, src[s].spec)
     /\ cs = <<>> \/ (~lcmBlocks /\ \A i \in DOMAIN cs : KindOf(cs[i]) \in served)

\* The children of s are the desired ones, and stale ones are gone.
Converged(m, s) ==
  LET cs == Emit(m, s, src[s].spec)
      want == {cs[i] : i \in DOMAIN cs}
      me == [key |-> s, uid |-> src[s].uid]
      has(c) == child[c] # None /\ child[c].map = m /\ ownedBySource(c, child[c], me)
  IN /\ \A c \in want : has(c)
     /\ PruneWhen(m, src[s].spec) => \A c \in Children \ want : ~has(c)

\* Once users, operators and faults pause, every source that can be translated
\* has exactly its desired children and keeps them: no event, retry or gate
\* loses a source (Reconcile, the watches of SetupWithManager).
Converges ==
  <>[](\A m \in Mappings, s \in Sources : Open(m, s) => Converged(m, s))

\* A source whose deletion was requested eventually disappears: cleanup is
\* retried until the finalizer is off (reconcileDelete).
DeletionCompletes ==
  \A s \in Sources : src[s].deleting ~> ~src[s].live

\* Once the environment pauses, the ready condition on each source is the
\* verdict on its current children (mirrorStatus, Owns).
StatusMirrors ==
  <>[](\A m \in Mappings, s \in Sources :
         (Open(m, s) /\ StatusWhen(m, src[s].spec, src[s].cond[m] # "none")) =>
            src[s].cond[m] = Verdict(m, src[s].spec, listChildObjects(m, s)))

================================================================================
