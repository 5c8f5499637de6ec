--------------------------- MODULE TranslationProofs ---------------------------
(***************************************************************************)
(* Proofs about Translation for every set of mappings, sources, children,  *)
(* kinds and specs, and for every number of environment steps: types, the  *)
(* status of others, who deletes which child, the cleanup finalizer as the *)
(* guard of annotation-tracked children when a single mapping uses it, and *)
(* that a ready condition speaks for every child the source emits.         *)
(***************************************************************************)
EXTENDS Translation, TLAPS

--------------------------------------------------------------------------------
(* Types of the values the actions are built from. *)

LEMMA GoneType == \A n \in Nat : Gone(n) \in SourceObj
BY DEF Gone, NoConds, SourceObj, Conds

LEMMA IdleType ==
  Idle \in Reconcile /\ Idle.pc = "idle" /\ Idle.key = None /\ Idle.stale = FALSE
BY GoneType DEF Idle, Reconcile, Steps, Conds

LEMMA StartType ==
  ASSUME NEW s \in Sources, src[s] \in SourceObj, NEW step \in Steps
  PROVE  Start(s, step) \in Reconcile
BY Zenon, IdleType DEF Start, Reconcile

\* Replacing one worker's record keeps the type of w.
LEMMA WorkerType ==
  ASSUME TypeOK, NEW m \in Mappings, NEW r \in Reconcile,
         r.pc = "idle" <=> r.key = None, w' = [w EXCEPT ![m] = r]
  PROVE  /\ w' \in [Mappings -> Reconcile]
         /\ \A n \in Mappings : w'[n].pc = "idle" <=> w'[n].key = None
BY DEF TypeOK

\* Events only add sources to queues.
LEMMA SourceEventType ==
  ASSUME TypeOK, NEW s \in Sources
  PROVE  SourceEvent(queue, s) \in [Mappings -> SUBSET Sources]
BY DEF TypeOK, SourceEvent

LEMMA OwnerKeysType ==
  ASSUME NEW c \in Children, NEW obj \in ChildObj \cup {None}
  PROVE  OwnerKeys(c, obj) \subseteq Sources
BY DEF OwnerKeys, ChildObj

LEMMA SetChildType ==
  ASSUME TypeOK, NEW c \in Children, NEW obj \in ChildObj \cup {None}, SetChild(c, obj)
  PROVE  /\ child' \in [Children -> ChildObj \cup {None}]
         /\ queue' \in [Mappings -> SUBSET Sources]
<1>1. OwnerKeys(c, child[c]) \subseteq Sources /\ OwnerKeys(c, obj) \subseteq Sources
  BY OwnerKeysType DEF TypeOK
<1> QED
  BY <1>1 DEF TypeOK, SetChild, ChildEvent

\* Outdating copies changes nothing but the stale flag.
LEMMA OutdateType ==
  ASSUME TypeOK, NEW s \in Sources
  PROVE  /\ Outdate(w, s) \in [Mappings -> Reconcile]
         /\ \A m \in Mappings : /\ Outdate(w, s)[m].pc = w[m].pc
                                /\ Outdate(w, s)[m].key = w[m].key
                                /\ Outdate(w, s)[m].snap = w[m].snap
                                /\ Outdate(w, s)[m].found = w[m].found
                                /\ Outdate(w, s)[m].todo = w[m].todo
                                /\ w[m].key # s => Outdate(w, s)[m].stale = w[m].stale
                                /\ w[m].key = s => Outdate(w, s)[m].stale = TRUE
<1>1. \A r \in Reconcile : /\ [r EXCEPT !.stale = TRUE] \in Reconcile
                           /\ [r EXCEPT !.stale = TRUE].pc = r.pc
                           /\ [r EXCEPT !.stale = TRUE].key = r.key
                           /\ [r EXCEPT !.stale = TRUE].snap = r.snap
                           /\ [r EXCEPT !.stale = TRUE].found = r.found
                           /\ [r EXCEPT !.stale = TRUE].todo = r.todo
                           /\ [r EXCEPT !.stale = TRUE].stale = TRUE
  BY Zenon DEF Reconcile
<1>2. \A m \in Mappings : w[m] \in Reconcile
  BY DEF TypeOK
<1> QED
  BY Zenon, <1>1, <1>2 DEF Outdate

LEMMA RunningKey ==
  ASSUME TypeOK, NEW m \in Mappings, w[m].pc # "idle"
  PROVE  w[m] \in Reconcile /\ w[m].key \in Sources /\ w[m].snap \in SourceObj
BY DEF TypeOK, Reconcile

LEMMA GotoType ==
  ASSUME NEW r \in Reconcile, NEW step \in Steps
  PROVE  [r EXCEPT !.pc = step] \in Reconcile
BY DEF Reconcile

LEMMA FoundType ==
  ASSUME NEW r \in Reconcile, NEW step \in Steps, NEW cs \in SUBSET Children
  PROVE  [r EXCEPT !.found = cs, !.pc = step] \in Reconcile
BY Zenon DEF Reconcile

LEMMA TodoType ==
  ASSUME NEW r \in Reconcile, NEW step \in Steps, NEW q \in Seq(Children)
  PROVE  /\ [r EXCEPT !.pc = step, !.todo = q] \in Reconcile
         /\ [r EXCEPT !.todo = q, !.pc = step] \in Reconcile
BY Zenon DEF Reconcile

--------------------------------------------------------------------------------
(* Type correctness. *)

LEMMA TakeType ==
  ASSUME TypeOK, NEW m \in Mappings, NEW s \in Sources, Take(m, s)
  PROVE  TypeOK'
<1> DEFINE Good(r) == r \in Reconcile /\ (r.pc = "idle" <=> r.key = None)
<1>1. \A step \in Steps \ {"idle"} : Good(Start(s, step))
  <2> TAKE step \in Steps \ {"idle"}
  <2>1. src[s] \in SourceObj
    BY DEF TypeOK
  <2>2. Start(s, step) \in Reconcile
    BY <2>1, StartType
  <2>3. Start(s, step).pc = step /\ Start(s, step).key = s
    BY DEF Start, Idle
  <2> QED
    BY <2>2, <2>3, ConstantsAssumption
<1>2. Good(Idle)
  BY IdleType
<1>3. PICK r : Good(r) /\ Dequeue(m, s, r)
  <2> HIDE DEF Good
  <2>1. CASE ReconcileGone(m, s)
    BY <2>1, <1>2 DEF ReconcileGone
  <2>2. CASE ReconcileLive(m, s)
    <3> DEFINE step == IF src[s].fin THEN "map" ELSE "addFinalizer"
    <3>1. step \in Steps \ {"idle"}
      BY DEF Steps
    <3> QED
      BY <1>1, <2>2, <3>1 DEF ReconcileLive
  <2>3. CASE ReconcileDelete(m, s)
    BY <2>3, <1>1 DEF ReconcileDelete, Steps
  <2> QED
    BY <2>1, <2>2, <2>3 DEF Take
<1> QED
  BY <1>3, WorkerType DEF Dequeue, TypeOK

LEMMA WorkType ==
  ASSUME TypeOK, NEW m \in Mappings, Work(m)
  PROVE  TypeOK'
<1> USE RunningKey
<1> DEFINE Good(r) == r \in Reconcile /\ (r.pc = "idle" <=> r.key = None)
<1>1. ASSUME NEW r, Good(r), w' = [w EXCEPT ![m] = r],
             UNCHANGED <<src, child, lcm, served, watched, queue, env>>
      PROVE  TypeOK'
  BY <1>1, WorkerType DEF TypeOK
<1>2. ASSUME w[m].pc # "idle", Requeue(m)
      PROVE  TypeOK'
  BY <1>2, IdleType, WorkerType DEF Requeue, Finish, TypeOK
<1>3. ASSUME NEW r \in Reconcile, w[m].pc # "idle", Good(r),
             NEW obj \in SourceObj,
             w' = [Outdate(w, w[m].key) EXCEPT ![m] = r],
             src' = [src EXCEPT ![w[m].key] = obj],
             queue' = SourceEvent(queue, w[m].key),
             UNCHANGED <<child, lcm, served, watched, env>>
      PROVE  TypeOK'
  <2>1. w[m].key \in Sources
    BY <1>3
  <2>2. w' \in [Mappings -> Reconcile] /\ \A n \in Mappings : w'[n].pc = "idle" <=> w'[n].key = None
    <3> DEFINE o == Outdate(w, w[m].key)
    <3>1. /\ o \in [Mappings -> Reconcile]
          /\ \A n \in Mappings : o[n].pc = w[n].pc /\ o[n].key = w[n].key
      BY Zenon, <2>1, OutdateType
    <3>2. w' = [o EXCEPT ![m] = r]
      BY <1>3
    <3>3. Good(r) /\ \A n \in Mappings : w[n].pc = "idle" <=> w[n].key = None
      BY <1>3 DEF TypeOK
    <3> HIDE DEF o
    <3>4. \A n \in Mappings : w'[n] = IF n = m THEN r ELSE o[n]
      BY <3>1, <3>2
    <3>5. w' \in [Mappings -> Reconcile]
      BY <3>1, <3>2, <3>3
    <3>6. ASSUME NEW n \in Mappings PROVE w'[n].pc = "idle" <=> w'[n].key = None
      BY <3>1, <3>3, <3>4
    <3> QED
      BY <3>5, <3>6
  <2>3. src' \in [Sources -> SourceObj] /\ queue' \in [Mappings -> SUBSET Sources]
    BY <1>3, <2>1, SourceEventType DEF TypeOK
  <2> QED
    BY <1>3, <2>2, <2>3 DEF TypeOK
<1>4. ASSUME NEW r, Good(r), w' = [w EXCEPT ![m] = r],
             NEW c \in Children, NEW obj \in ChildObj \cup {None}, SetChild(c, obj),
             UNCHANGED <<src, lcm, served, watched, env>>
      PROVE  TypeOK'
  BY <1>4, WorkerType, SetChildType DEF TypeOK
<1>5. ASSUME w[m].pc # "idle", NEW step \in Steps \ {"idle"}
      PROVE  Good([w[m] EXCEPT !.pc = step])
  BY <1>5, GotoType, ConstantsAssumption DEF Reconcile
<1>6. ASSUME w[m].pc # "idle", NEW step \in Steps \ {"idle"}, NEW cs \in SUBSET Children
      PROVE  Good([w[m] EXCEPT !.found = cs, !.pc = step])
  <2>1. w[m].key # None /\ w[m] \in Reconcile
    BY <1>6 DEF TypeOK
  <2>2. [w[m] EXCEPT !.found = cs, !.pc = step] \in Reconcile
    BY Zenon, <2>1, FoundType
  <2>3. /\ [w[m] EXCEPT !.found = cs, !.pc = step].pc = step
        /\ [w[m] EXCEPT !.found = cs, !.pc = step].key = w[m].key
    BY <2>1 DEF Reconcile
  <2> QED
    BY <2>1, <2>2, <2>3
<1>7. ASSUME w[m].pc # "idle", NEW step \in Steps \ {"idle"}, NEW q \in Seq(Children)
      PROVE  /\ Good([w[m] EXCEPT !.pc = step, !.todo = q])
             /\ Good([w[m] EXCEPT !.todo = q, !.pc = step])
  <2>1. w[m].key # None /\ w[m] \in Reconcile
    BY <1>7 DEF TypeOK
  <2>2. /\ [w[m] EXCEPT !.pc = step, !.todo = q] \in Reconcile
        /\ [w[m] EXCEPT !.todo = q, !.pc = step] \in Reconcile
    BY Zenon, <2>1, TodoType
  <2>3. /\ [w[m] EXCEPT !.pc = step, !.todo = q].pc = step
        /\ [w[m] EXCEPT !.todo = q, !.pc = step].pc = step
        /\ [w[m] EXCEPT !.pc = step, !.todo = q].key = w[m].key
        /\ [w[m] EXCEPT !.todo = q, !.pc = step].key = w[m].key
    BY <2>1 DEF Reconcile
  <2> QED
    BY <2>1, <2>2, <2>3
<1>8. Good(Idle)
  BY IdleType
<1>9. AfterApply(m) \in Steps \ {"idle"}
  BY DEF AfterApply, Steps
<1>10. ASSUME NEW next \in Steps \ {"idle"}, w[m].pc # "idle", DeleteFound(m, next)
       PROVE  TypeOK'
  <2>1. PICK c \in w[m].found :
          /\ SetChild(c, None)
          /\ w' = [w EXCEPT ![m] = [w[m] EXCEPT
               !.found = @ \ {c}, !.pc = IF w[m].found = {c} THEN next ELSE @]]
          /\ UNCHANGED <<src, lcm, served, watched, env>>
    BY Zenon, <1>10 DEF DeleteFound
  <2> DEFINE step == IF w[m].found = {c} THEN next ELSE w[m].pc
             r == [w[m] EXCEPT !.found = w[m].found \ {c}, !.pc = step]
  <2>2. c \in Children /\ w[m].found \ {c} \in SUBSET Children
    BY <1>10 DEF Reconcile
  <2>3. step \in Steps \ {"idle"}
    BY <1>10 DEF Reconcile
  <2>4. Good(r)
    BY Zenon, <1>6, <1>10, <2>2, <2>3
  <2>5. w' = [w EXCEPT ![m] = r]
    BY <2>1
  <2> HIDE DEF r, Good
  <2> QED
    BY Zenon, <1>4, <2>1, <2>2, <2>4, <2>5
<1>11. CASE AddFinalizer(m)
  <2> DEFINE obj == [w[m].snap EXCEPT !.fin = TRUE]
             r == [w[m] EXCEPT !.pc = "map", !.snap = obj]
  <2>1. w[m].pc # "idle"
    BY <1>11 DEF AddFinalizer
  <2>2. obj \in SourceObj
    BY Zenon, <2>1 DEF SourceObj
  <2>3. Good(r)
    <3> HIDE DEF obj
    <3> QED
      BY Zenon, <2>1, <2>2, ConstantsAssumption DEF Reconcile, Steps
  <2>4. /\ w' = [Outdate(w, w[m].key) EXCEPT ![m] = r]
        /\ src' = [src EXCEPT ![w[m].key] = obj]
        /\ queue' = SourceEvent(queue, w[m].key)
        /\ UNCHANGED <<child, lcm, served, watched, env>>
    BY <1>11 DEF AddFinalizer
  <2> HIDE DEF obj, r
  <2> QED
    BY Zenon, <1>3, <2>1, <2>2, <2>3, <2>4
<1>12. CASE Conflict(m) \/ MapFails(m) \/ WaitForLCM(m) \/ WaitForAPIs(m)
  BY <1>2, <1>12 DEF Conflict, MapFails, WaitForLCM, WaitForAPIs
<1>13. CASE NothingEmitted(m)
  BY Zenon, <1>1, <1>5, <1>9, <1>13 DEF NothingEmitted, Goto
<1>14. CASE LCMOpen(m)
  BY Zenon, <1>1, <1>5, <1>14 DEF LCMOpen, Goto, Steps
<1>15. CASE APIsReady(m)
  <2>1. w[m].pc # "idle" /\ "apply" \in Steps \ {"idle"}
    BY <1>15 DEF APIsReady, Steps
  <2>2. emitted(m) \in Seq(Children)
    BY <2>1, ConstantsAssumption DEF emitted, SourceObj
  <2> QED
    BY Zenon, <1>1, <1>7, <1>15, <2>1, <2>2 DEF APIsReady
<1>16. CASE ApplyOne(m)
  <2> DEFINE c == Head(w[m].todo)
             obj == stampOwner(m, w[m].key, w[m].snap.uid, c)
             step == IF Len(w[m].todo) = 1 THEN AfterApply(m) ELSE w[m].pc
             r == [w[m] EXCEPT !.todo = Tail(w[m].todo), !.pc = step]
  <2>1. w[m].pc # "idle" /\ w[m].todo \in Seq(Children) /\ w[m].todo # <<>>
    BY <1>16 DEF ApplyOne, Reconcile
  <2>2. c \in Children /\ Tail(w[m].todo) \in Seq(Children)
    BY <2>1
  <2>3. step \in Steps \ {"idle"}
    BY <1>9, <1>16, <2>1 DEF ApplyOne, Steps
  <2>4. Good(r)
    BY Zenon, <1>7, <2>1, <2>2, <2>3
  <2>5. obj \in ChildObj
    <3>1. w[m].snap.uid \in Nat /\ w[m].key \in Sources
      BY <2>1 DEF SourceObj
    <3>2. child[c] = None \/ child[c].ready \in BOOLEAN
      BY <2>2 DEF TypeOK, ChildObj
    <3> QED
      BY Zenon, <3>1, <3>2 DEF stampOwner, ChildObj
  <2>6. /\ SetChild(c, obj)
        /\ w' = [w EXCEPT ![m] = r]
        /\ UNCHANGED <<src, lcm, served, watched, env>>
    BY <1>16 DEF ApplyOne
  <2> HIDE DEF c, obj, r, Good
  <2> QED
    BY Zenon, <1>4, <2>2, <2>4, <2>5, <2>6
<1>17. CASE PruneList(m)
  <2> DEFINE step == IF staleChildren(m) = {} THEN "mirrorList" ELSE "prune"
  <2>1. w[m].pc # "idle" /\ step \in Steps \ {"idle"}
    BY <1>17 DEF PruneList, Steps
  <2>2. staleChildren(m) \in SUBSET Children
    BY DEF staleChildren, listChildObjects
  <2> QED
    BY Zenon, <1>1, <1>6, <1>17, <2>1, <2>2 DEF PruneList
<1>18. CASE pruneStaleChildren(m)
  BY <1>10, <1>18 DEF pruneStaleChildren, Steps
<1>19. CASE MirrorNothing(m)
  BY Zenon, <1>1, <1>8, <1>19 DEF MirrorNothing, Finish
<1>20. CASE MirrorList(m)
  <2>1. w[m].pc # "idle" /\ mirrorVerdict(m) \in Conds
    BY <1>20 DEF MirrorList, mirrorVerdict, Verdict, Conds
  <2>2. Good([w[m] EXCEPT !.pc = "updateStatus", !.verdict = mirrorVerdict(m)])
    BY Zenon, <2>1, ConstantsAssumption DEF Reconcile, Steps
  <2> QED
    BY Zenon, <1>1, <1>20, <2>2 DEF MirrorList
<1>21. CASE UpdateStatus(m)
  <2> DEFINE s == w[m].key
             obj == [src[s] EXCEPT !.cond = [w[m].snap.cond EXCEPT ![m] = w[m].verdict],
                                   !.ready = w[m].snap.ready]
  <2>1. w[m].pc # "idle"
    BY <1>21 DEF UpdateStatus
  <2>2. src[s] \in SourceObj /\ w[m].verdict \in Conds
    BY <2>1 DEF TypeOK, Reconcile
  <2>3. obj \in SourceObj
    BY Zenon, <2>1, <2>2 DEF SourceObj
  <2>4. /\ w' = [Outdate(w, s) EXCEPT ![m] = Idle]
        /\ src' = [src EXCEPT ![s] = obj]
        /\ queue' = SourceEvent(queue, s)
        /\ UNCHANGED <<child, lcm, served, watched, env>>
    BY Zenon, <1>21 DEF UpdateStatus
  <2> HIDE DEF obj
  <2> QED
    BY Zenon, <1>3, <1>8, <2>1, <2>3, <2>4
<1>22. CASE CleanupList(m)
  <2> DEFINE cs == {c \in listChildObjects(m, w[m].key) : AnnotatedBy(c, w[m].key)}
             step == IF cs = {} THEN "removeFinalizer" ELSE "cleanup"
  <2>1. w[m].pc # "idle" /\ step \in Steps \ {"idle"}
    BY <1>22 DEF CleanupList, Steps
  <2>2. cs \in SUBSET Children
    BY DEF listChildObjects
  <2>3. /\ w' = [w EXCEPT ![m] = [w[m] EXCEPT !.found = cs, !.pc = step]]
        /\ UNCHANGED <<src, child, lcm, served, watched, queue, env>>
    BY <1>22 DEF CleanupList
  <2> HIDE DEF cs
  <2> QED
    BY Zenon, <1>1, <1>6, <2>1, <2>2, <2>3
<1>23. CASE cleanupAnnotatedChildren(m)
  BY <1>10, <1>23 DEF cleanupAnnotatedChildren, Steps
<1>24. CASE RemoveFinalizer(m)
  <2>1. w[m].pc # "idle"
    BY <1>24 DEF RemoveFinalizer
  <2>2. Gone(src[w[m].key].uid) \in SourceObj
    BY <2>1, GoneType DEF TypeOK, SourceObj
  <2> QED
    BY Zenon, <1>3, <1>8, <1>24, <2>1, <2>2 DEF RemoveFinalizer
<1> QED
  BY <1>11, <1>12, <1>13, <1>14, <1>15, <1>16, <1>17, <1>18, <1>19, <1>20, <1>21,
     <1>22, <1>23, <1>24 DEF Work

\* Someone else's write of a well-formed source.
LEMMA WriteSourceType ==
  ASSUME TypeOK, NEW s \in Sources, NEW obj \in SourceObj, WriteSource(s, obj), env' \in Nat
  PROVE  TypeOK'
<1>1. w' \in [Mappings -> Reconcile] /\ \A m \in Mappings : w'[m].pc = "idle" <=> w'[m].key = None
  <2>1. w' = Outdate(w, s)
    BY DEF WriteSource
  <2>2. \A m \in Mappings : w[m].pc = "idle" <=> w[m].key = None
    BY DEF TypeOK
  <2>3. /\ Outdate(w, s) \in [Mappings -> Reconcile]
        /\ \A m \in Mappings : /\ Outdate(w, s)[m].pc = w[m].pc
                               /\ Outdate(w, s)[m].key = w[m].key
    BY Zenon, OutdateType
  <2> QED
    BY <2>1, <2>2, <2>3
<1> QED
  BY <1>1, SourceEventType DEF WriteSource, TypeOK

LEMMA EnvironmentType ==
  ASSUME TypeOK, Environment
  PROVE  TypeOK'
<1>1. ASSUME NEW s \in Sources,
             CreateSource(s) \/ EditSource(s) \/ DeleteSource(s) \/ ReportReady(s)
      PROVE  TypeOK'
  <2>1. src[s] \in SourceObj /\ src[s].uid \in Nat
    BY DEF TypeOK, SourceObj
  <2>2. env' \in Nat
    <3>1. Spend
      BY Zenon, <1>1 DEF CreateSource, EditSource, DeleteSource, ReportReady
    <3> QED
      BY <3>1 DEF Spend, TypeOK
  <2>3. PICK obj \in SourceObj : WriteSource(s, obj)
    <3>1. CASE CreateSource(s)
      <4>1. Gone(src[s].uid + 1) \in SourceObj
        BY <2>1, GoneType
      <4>2. \A p \in Specs : [Gone(src[s].uid + 1) EXCEPT !.live = TRUE, !.spec = p] \in SourceObj
        BY Zenon, <4>1 DEF SourceObj
      <4> QED
        BY Zenon, <3>1, <4>2 DEF CreateSource
    <3>2. CASE EditSource(s)
      <4>1. \A p \in Specs : [src[s] EXCEPT !.spec = p] \in SourceObj
        BY <2>1 DEF SourceObj
      <4> QED
        BY <3>2, <4>1 DEF EditSource
    <3>3. CASE DeleteSource(s)
      <4>1. [src[s] EXCEPT !.deleting = TRUE] \in SourceObj /\ Gone(src[s].uid) \in SourceObj
        BY Zenon, <2>1, GoneType DEF SourceObj
      <4> QED
        BY <3>3, <4>1 DEF DeleteSource
    <3>4. CASE ReportReady(s)
      <4>1. [src[s] EXCEPT !.ready = TRUE] \in SourceObj
        BY Zenon, <2>1 DEF SourceObj
      <4> QED
        BY <3>4, <4>1 DEF ReportReady
    <3> QED
      BY <1>1, <3>1, <3>2, <3>3, <3>4
  <2> QED
    BY <2>2, <2>3, WriteSourceType
<1>2. ASSUME NEW c \in Children, ChildStatus(c) \/ DropChild(c)
      PROVE  TypeOK'
  <2>1. child[c] \in ChildObj
    BY <1>2 DEF ChildStatus, DropChild, TypeOK
  <2>2. [child[c] EXCEPT !.ready = ~child[c].ready] \in ChildObj
    BY Zenon, <2>1 DEF ChildObj
  <2>3. PICK obj \in ChildObj \cup {None} : SetChild(c, obj)
    BY <1>2, <2>2 DEF ChildStatus, DropChild
  <2>4. child' \in [Children -> ChildObj \cup {None}] /\ queue' \in [Mappings -> SUBSET Sources]
    BY <2>3, SetChildType
  <2> QED
    BY <1>2, <2>4 DEF ChildStatus, DropChild, Spend, TypeOK
<1>3. ASSUME NEW v \in Lcm, SetLCM(v)
      PROVE  TypeOK'
  BY <1>3 DEF SetLCM, Spend, LiveSources, TypeOK
<1>4. ASSUME NEW k \in Kinds, ServeKind(k)
      PROVE  TypeOK'
  BY <1>4 DEF ServeKind, Spend, LiveSources, TypeOK
<1>5. ASSUME NEW m \in Mappings, CallFails(m)
      PROVE  TypeOK'
  <2>1. w' \in [Mappings -> Reconcile] /\ \A n \in Mappings : w'[n].pc = "idle" <=> w'[n].key = None
    BY Zenon, <1>5, IdleType, WorkerType DEF CallFails, Finish
  <2>2. w[m].key \in Sources
    BY <1>5, RunningKey DEF CallFails
  <2>3. queue' \in [Mappings -> SUBSET Sources]
    BY <1>5, <2>2 DEF CallFails, TypeOK
  <2> QED
    BY <1>5, <2>1, <2>3 DEF CallFails, Spend, TypeOK
<1>6. CASE Restart
  BY <1>6, IdleType DEF Restart, Spend, LiveSources, TypeOK
<1> QED
  BY <1>1, <1>2, <1>3, <1>4, <1>5, <1>6 DEF Environment

LEMMA CollectChildType ==
  ASSUME TypeOK, NEW c \in Children, CollectChild(c)
  PROVE  TypeOK'
<1>1. child' \in [Children -> ChildObj \cup {None}] /\ queue' \in [Mappings -> SUBSET Sources]
  BY SetChildType DEF CollectChild
<1> QED
  BY <1>1 DEF CollectChild, TypeOK

LEMMA InitType == Init => TypeOK
BY IdleType, GoneType, ConstantsAssumption DEF Init, TypeOK

LEMMA StepType == TypeOK /\ [Next]_vars => TypeOK'
<1> SUFFICES ASSUME TypeOK, [Next]_vars PROVE TypeOK'
  OBVIOUS
<1>1. CASE UNCHANGED vars
  BY <1>1 DEF vars, TypeOK
<1> QED
  BY <1>1, WorkType, TakeType, CollectChildType, EnvironmentType DEF Next

\* Every variable keeps its shape, and a worker has a key exactly while it runs
\* a reconcile.
THEOREM TypeCorrect == Spec => []TypeOK
BY InitType, StepType, PTL DEF Spec

--------------------------------------------------------------------------------
(* The copy a reconcile works on. *)

\* As long as no write has outdated it, a worker's copy of its source is the
\* stored object: a status update that passes the resourceVersion check is
\* computed from what it overwrites.
FreshCopy ==
  \A m \in Mappings : w[m].pc # "idle" /\ w[m].stale = FALSE => w[m].snap = src[w[m].key]

\* r continues the reconcile of m on the same copy.
Continues(m, r) == r.key = w[m].key /\ r.snap = w[m].snap /\ r.stale = w[m].stale

\* The steps of a reconcile that do not write the source only move the worker.
LEMMA QuietWork ==
  ASSUME TypeOK, NEW m \in Mappings, Work(m),
         ~AddFinalizer(m), ~UpdateStatus(m), ~RemoveFinalizer(m)
  PROVE  /\ src' = src
         /\ w[m].pc # "idle"
         /\ \E r : w' = [w EXCEPT ![m] = r] /\ (r = Idle \/ Continues(m, r))
<1>0. w[m] \in Reconcile
  BY DEF TypeOK
<1>1. CASE Conflict(m) \/ MapFails(m) \/ WaitForLCM(m) \/ WaitForAPIs(m) \/ MirrorNothing(m)
  BY <1>1 DEF Conflict, MapFails, WaitForLCM, WaitForAPIs, MirrorNothing, Requeue, Finish
<1>2. CASE NothingEmitted(m)
  <2>1. Continues(m, [w[m] EXCEPT !.pc = AfterApply(m)])
    BY <1>0 DEF Continues, Reconcile
  <2> QED
    BY Zenon, <1>2, <2>1 DEF NothingEmitted, Goto
<1>3. CASE LCMOpen(m)
  <2>1. Continues(m, [w[m] EXCEPT !.pc = "apis"])
    BY <1>0 DEF Continues, Reconcile
  <2> QED
    BY Zenon, <1>3, <2>1 DEF LCMOpen, Goto
<1>4. CASE APIsReady(m)
  <2>1. Continues(m, [w[m] EXCEPT !.pc = "apply", !.todo = emitted(m)])
    BY <1>0 DEF Continues, Reconcile
  <2> QED
    BY Zenon, <1>4, <2>1 DEF APIsReady
<1>5. CASE ApplyOne(m)
  <2> DEFINE r == [w[m] EXCEPT
               !.todo = Tail(@), !.pc = IF Len(w[m].todo) = 1 THEN AfterApply(m) ELSE @]
  <2>1. Continues(m, r)
    BY <1>0 DEF Continues, Reconcile
  <2> QED
    BY Zenon, <1>5, <2>1 DEF ApplyOne
<1>6. CASE PruneList(m)
  <2> DEFINE r == [w[m] EXCEPT
               !.found = staleChildren(m),
               !.pc = IF staleChildren(m) = {} THEN "mirrorList" ELSE "prune"]
  <2>1. Continues(m, r)
    BY <1>0 DEF Continues, Reconcile
  <2> QED
    BY Zenon, <1>6, <2>1 DEF PruneList
<1>7. ASSUME NEW next, DeleteFound(m, next), w[m].pc # "idle"
      PROVE  /\ src' = src
             /\ \E r : w' = [w EXCEPT ![m] = r] /\ Continues(m, r)
  <2> DEFINE r(c) == [w[m] EXCEPT
               !.found = @ \ {c}, !.pc = IF w[m].found = {c} THEN next ELSE @]
  <2>1. \A c : Continues(m, r(c))
    BY <1>0 DEF Continues, Reconcile
  <2> QED
    BY Zenon, <1>7, <2>1 DEF DeleteFound
<1>8. CASE pruneStaleChildren(m) \/ cleanupAnnotatedChildren(m)
  BY <1>7, <1>8 DEF pruneStaleChildren, cleanupAnnotatedChildren
<1>9. CASE MirrorList(m)
  <2>1. Continues(m, [w[m] EXCEPT !.pc = "updateStatus", !.verdict = mirrorVerdict(m)])
    BY <1>0 DEF Continues, Reconcile
  <2> QED
    BY Zenon, <1>9, <2>1 DEF MirrorList
<1>10. CASE CleanupList(m)
  <2> DEFINE cs == {c \in listChildObjects(m, w[m].key) : AnnotatedBy(c, w[m].key)}
             r == [w[m] EXCEPT
               !.found = cs, !.pc = IF cs = {} THEN "removeFinalizer" ELSE "cleanup"]
  <2>1. Continues(m, r)
    BY <1>0 DEF Continues, Reconcile
  <2> QED
    BY Zenon, <1>10, <2>1 DEF CleanupList
<1> QED
  BY <1>1, <1>2, <1>3, <1>4, <1>5, <1>6, <1>8, <1>9, <1>10 DEF Work

\* The step writes no source but s, and every worker drops or outdates its copy
\* of s, or takes over what was written.
SourceWritten(s) ==
  /\ \A x \in Sources \ {s} : src'[x] = src[x]
  /\ \A n \in Mappings :
       \/ w'[n] = Outdate(w, s)[n]
       \/ w'[n] = Idle
       \/ w'[n].key = s /\ w'[n].snap = src'[s]

LEMMA SourceWriteFresh ==
  ASSUME TypeOK, FreshCopy, NEW s \in Sources, SourceWritten(s)
  PROVE  FreshCopy'
<1> SUFFICES ASSUME NEW n \in Mappings, w'[n].pc # "idle", w'[n].stale = FALSE
             PROVE  w'[n].snap = src'[w'[n].key]
  BY Zenon DEF FreshCopy
<1>1. \A x \in Sources \ {s} : src'[x] = src[x]
  BY DEF SourceWritten
<1>2. CASE w'[n] = Outdate(w, s)[n]
  <2>1. /\ w'[n].pc = w[n].pc /\ w'[n].key = w[n].key /\ w'[n].snap = w[n].snap
        /\ w[n].key # s => w'[n].stale = w[n].stale
        /\ w[n].key = s => w'[n].stale = TRUE
    <3> DEFINE o == Outdate(w, s)
    <3>1. /\ o[n].pc = w[n].pc /\ o[n].key = w[n].key /\ o[n].snap = w[n].snap
          /\ w[n].key # s => o[n].stale = w[n].stale
          /\ w[n].key = s => o[n].stale = TRUE
      BY Zenon, OutdateType
    <3> QED
      BY <1>2, <3>1
  <2>2. w[n].key # s /\ w[n].stale = FALSE /\ w[n].pc # "idle"
    BY <2>1
  <2>3. w[n].snap = src[w[n].key] /\ w[n].key \in Sources \ {s}
    BY <2>2, RunningKey DEF FreshCopy
  <2> QED
    BY <1>1, <2>1, <2>3
<1>3. CASE w'[n] = Idle
  BY <1>3, IdleType
<1>4. CASE w'[n].key = s /\ w'[n].snap = src'[s]
  BY <1>4
<1> QED
  BY <1>2, <1>3, <1>4 DEF SourceWritten

LEMMA WriteSourceStep ==
  ASSUME NEW s \in Sources,
         CreateSource(s) \/ EditSource(s) \/ DeleteSource(s) \/ ReportReady(s)
  PROVE  \E obj : WriteSource(s, obj)
BY Zenon DEF CreateSource, EditSource, DeleteSource, ReportReady

LEMMA FreshStep == TypeOK /\ FreshCopy /\ [Next]_vars => FreshCopy'
<1> SUFFICES ASSUME TypeOK, FreshCopy, [Next]_vars PROVE FreshCopy'
  OBVIOUS
<1>1. ASSUME src' = src, NEW m \in Mappings, NEW r, w' = [w EXCEPT ![m] = r],
             \/ r = Idle
             \/ w[m].pc # "idle" /\ Continues(m, r)
             \/ r.snap = src[r.key]
      PROVE  FreshCopy'
  <2>1. \A n \in Mappings : w'[n] = IF n = m THEN r ELSE w[n]
    BY <1>1 DEF TypeOK
  <2> QED
    BY <1>1, <2>1, IdleType DEF FreshCopy, Continues
<1>2. ASSUME src' = src, w' = w PROVE FreshCopy'
  BY <1>2 DEF FreshCopy
<1>3. ASSUME NEW m \in Mappings, NEW s \in Sources, Take(m, s) PROVE FreshCopy'
  <2>1. src[s] \in SourceObj
    BY DEF TypeOK
  <2>2. ASSUME NEW step \in Steps PROVE Start(s, step).snap = src[Start(s, step).key]
    <3>1. Start(s, step).key = s /\ Start(s, step).snap = src[s]
      BY DEF Start, Idle
    <3> QED
      BY <3>1
  <2>3. CASE ReconcileGone(m, s)
    BY Zenon, <1>1, <2>3 DEF ReconcileGone, Dequeue
  <2>4. CASE ReconcileLive(m, s)
    <3> DEFINE step == IF src[s].fin THEN "map" ELSE "addFinalizer"
    <3>1. step \in Steps
      BY DEF Steps
    <3>2. src' = src /\ w' = [w EXCEPT ![m] = Start(s, step)]
      BY <2>4 DEF ReconcileLive, Dequeue
    <3> HIDE DEF step
    <3> QED
      BY Zenon, <1>1, <2>2, <3>1, <3>2
  <2>5. CASE ReconcileDelete(m, s)
    <3>1. src' = src /\ w' = [w EXCEPT ![m] = Start(s, "cleanupList")]
      BY <2>5 DEF ReconcileDelete, Dequeue
    <3>2. "cleanupList" \in Steps
      BY DEF Steps
    <3> QED
      BY Zenon, <1>1, <2>2, <3>1, <3>2
  <2> QED
    BY <1>3, <2>3, <2>4, <2>5 DEF Take
<1>4. ASSUME NEW m \in Mappings, Work(m) PROVE FreshCopy'
  <2>0. \A ws : ws \in [Mappings -> Reconcile] =>
          \A r : \A n \in Mappings : [ws EXCEPT ![m] = r][n] = IF n = m THEN r ELSE ws[n]
    OBVIOUS
  <2>1. CASE AddFinalizer(m)
    <3> DEFINE s == w[m].key
               obj == [w[m].snap EXCEPT !.fin = TRUE]
               r == [w[m] EXCEPT !.pc = "map", !.snap = obj]
    <3>1. s \in Sources /\ w[m] \in Reconcile
      BY <2>1, RunningKey DEF AddFinalizer
    <3>2. src' = [src EXCEPT ![s] = obj] /\ w' = [Outdate(w, s) EXCEPT ![m] = r]
      BY <2>1 DEF AddFinalizer
    <3>3. r.key = s /\ r.snap = obj
      BY <3>1 DEF Reconcile
    <3>4. \A n \in Mappings : w'[n] = IF n = m THEN r ELSE Outdate(w, s)[n]
      BY Zenon, <2>0, <3>1, <3>2, OutdateType
    <3> HIDE DEF s, obj, r
    <3>5. src'[s] = obj /\ \A x \in Sources \ {s} : src'[x] = src[x]
      BY <3>1, <3>2 DEF TypeOK
    <3>6. SourceWritten(s)
      BY <3>3, <3>4, <3>5 DEF SourceWritten
    <3> QED
      BY <3>1, <3>6, SourceWriteFresh
  <2>2. CASE UpdateStatus(m) \/ RemoveFinalizer(m)
    <3> DEFINE s == w[m].key
    <3>1. s \in Sources
      BY <2>2, RunningKey DEF UpdateStatus, RemoveFinalizer
    <3>2. /\ src' = [src EXCEPT ![s] = src'[s]]
          /\ w' = [Outdate(w, s) EXCEPT ![m] = Idle]
      BY <2>2, <3>1 DEF UpdateStatus, RemoveFinalizer, TypeOK
    <3>3. \A n \in Mappings : w'[n] = IF n = m THEN Idle ELSE Outdate(w, s)[n]
      BY Zenon, <2>0, <3>1, <3>2, OutdateType
    <3> HIDE DEF s
    <3>4. \A x \in Sources \ {s} : src'[x] = src[x]
      BY <3>1, <3>2 DEF TypeOK
    <3>5. SourceWritten(s)
      BY <3>3, <3>4 DEF SourceWritten
    <3> QED
      BY <3>1, <3>5, SourceWriteFresh
  <2>3. CASE ~AddFinalizer(m) /\ ~UpdateStatus(m) /\ ~RemoveFinalizer(m)
    BY <1>1, <1>4, <2>3, QuietWork
  <2> QED
    BY <2>1, <2>2, <2>3
<1>5. CASE \E c \in Children : CollectChild(c)
  BY <1>2, <1>5 DEF CollectChild
<1>6. CASE Environment
  <2>1. ASSUME NEW s \in Sources, NEW obj, WriteSource(s, obj) PROVE FreshCopy'
    <3>1. src' = [src EXCEPT ![s] = obj] /\ w' = Outdate(w, s)
      BY <2>1 DEF WriteSource
    <3>2. SourceWritten(s)
      BY <3>1 DEF SourceWritten, TypeOK
    <3> QED
      BY <3>2, SourceWriteFresh
  <2>2. ASSUME NEW c \in Children, ChildStatus(c) \/ DropChild(c) PROVE FreshCopy'
    BY <1>2, <2>2 DEF ChildStatus, DropChild
  <2>3. ASSUME NEW m \in Mappings, CallFails(m) PROVE FreshCopy'
    BY Zenon, <1>1, <2>3 DEF CallFails, Finish
  <2>4. CASE Restart
    BY <2>4, IdleType DEF Restart, FreshCopy
  <2>5. ASSUME NEW v, SetLCM(v) \/ ServeKind(v) PROVE FreshCopy'
    BY <1>2, <2>5 DEF SetLCM, ServeKind
  <2> QED
    BY <1>6, <2>1, <2>2, <2>3, <2>4, <2>5, WriteSourceStep DEF Environment
<1>7. CASE UNCHANGED vars
  BY <1>2, <1>7 DEF vars
<1> QED
  BY <1>3, <1>4, <1>5, <1>6, <1>7 DEF Next

\* Every copy that would pass the resourceVersion check is current.
THEOREM CopiesFresh == Spec => [](TypeOK /\ FreshCopy)
<1>1. Init => FreshCopy
  BY IdleType DEF Init, FreshCopy
<1> QED
  BY <1>1, InitType, StepType, FreshStep, PTL DEF Spec

\* The body of ForeignStatusKept, for one source.
StatusKept(s) ==
  src[s].live /\ src'[s].live =>
    /\ env' = env => src'[s].ready = src[s].ready
    /\ \A m \in Mappings : src'[s].cond[m] # src[s].cond[m] =>
         w[m].pc = "updateStatus" /\ w[m].key = s /\ w'[m].pc = "idle"

LEMMA StatusKeptStep ==
  ASSUME TypeOK, FreshCopy, Next, NEW s \in Sources
  PROVE  StatusKept(s)
<1>1. ASSUME src'[s] = src[s] PROVE StatusKept(s)
  BY <1>1 DEF StatusKept
<1>2. ASSUME ~src'[s].live \/ ~src[s].live PROVE StatusKept(s)
  BY <1>2 DEF StatusKept
<1>3. ASSUME src'[s].cond = src[s].cond, env' = env => src'[s].ready = src[s].ready
      PROVE  StatusKept(s)
  BY <1>3 DEF StatusKept
<1>4. src[s] \in SourceObj
  BY DEF TypeOK
<1>5. ASSUME NEW m \in Mappings, Work(m) PROVE StatusKept(s)
  <2>1. CASE AddFinalizer(m)
    <3>1. w[m].key \in Sources /\ w[m].snap \in SourceObj
      BY <2>1, RunningKey DEF AddFinalizer
    <3>2. w[m].snap = src[w[m].key]
      BY <2>1 DEF AddFinalizer, FreshCopy, TypeOK, Reconcile
    <3>3. CASE w[m].key = s
      <4>1. src'[s] = [src[s] EXCEPT !.fin = TRUE]
        BY <2>1, <3>1, <3>2, <3>3 DEF AddFinalizer, TypeOK
      <4> QED
        BY <1>3, <1>4, <4>1 DEF SourceObj
    <3>4. CASE w[m].key # s
      BY <1>1, <2>1, <3>4 DEF AddFinalizer, TypeOK
    <3> QED
      BY <3>3, <3>4
  <2>2. CASE UpdateStatus(m)
    <3>1. w[m].key \in Sources /\ w[m].snap \in SourceObj
      BY <2>2, RunningKey DEF UpdateStatus
    <3>2. w[m].snap = src[w[m].key]
      BY <2>2 DEF UpdateStatus, FreshCopy, TypeOK, Reconcile
    <3>3. CASE w[m].key = s
      <4>1. src'[s] = [src[s] EXCEPT !.cond = [src[s].cond EXCEPT ![m] = w[m].verdict],
                                     !.ready = src[s].ready]
        BY <2>2, <3>1, <3>2, <3>3 DEF UpdateStatus, TypeOK
      <4>2. src'[s].ready = src[s].ready
        BY <1>4, <4>1 DEF SourceObj
      <4>3. \A n \in Mappings \ {m} : src'[s].cond[n] = src[s].cond[n]
        BY <1>4, <4>1 DEF SourceObj
      <4>4. w' = [Outdate(w, s) EXCEPT ![m] = Idle] /\ w[m].pc = "updateStatus"
        BY <2>2, <3>3 DEF UpdateStatus
      <4>5. Outdate(w, s) \in [Mappings -> Reconcile]
        BY Zenon, OutdateType
      <4>6. w'[m].pc = "idle"
        BY <4>4, <4>5, IdleType
      <4> QED
        BY <3>3, <4>2, <4>3, <4>4, <4>6 DEF StatusKept
    <3>4. CASE w[m].key # s
      BY <1>1, <2>2, <3>4 DEF UpdateStatus, TypeOK
    <3> QED
      BY <3>3, <3>4
  <2>3. CASE RemoveFinalizer(m)
    <3>1. src' = [src EXCEPT ![w[m].key] = Gone(src[w[m].key].uid)]
      BY <2>3 DEF RemoveFinalizer
    <3>2. src'[s] = src[s] \/ src'[s] = Gone(src[w[m].key].uid)
      BY <3>1 DEF TypeOK
    <3> QED
      BY <1>1, <1>2, <3>2 DEF Gone
  <2>4. CASE ~AddFinalizer(m) /\ ~UpdateStatus(m) /\ ~RemoveFinalizer(m)
    BY <1>1, <1>5, <2>4, QuietWork
  <2> QED
    BY <2>1, <2>2, <2>3, <2>4
<1>6. ASSUME NEW x \in Sources,
             CreateSource(x) \/ EditSource(x) \/ DeleteSource(x) \/ ReportReady(x)
      PROVE  StatusKept(s)
  <2>1. CASE x # s
    <3>1. src'[s] = src[s]
      BY Zenon, <1>6, <2>1 DEF CreateSource, EditSource, DeleteSource, ReportReady, WriteSource, TypeOK
    <3> QED
      BY <1>1, <3>1
  <2>2. CASE x = s /\ CreateSource(x)
    BY <1>2, <2>2 DEF CreateSource
  <2>3. CASE x = s /\ EditSource(x)
    <3>1. PICK p \in Specs : src' = [src EXCEPT ![s] = [src[s] EXCEPT !.spec = p]]
      BY Zenon, <2>3 DEF EditSource, WriteSource
    <3>2. src'[s] = [src[s] EXCEPT !.spec = p]
      BY <3>1 DEF TypeOK
    <3> QED
      BY <1>3, <1>4, <3>2 DEF SourceObj
  <2>4. CASE x = s /\ DeleteSource(x)
    <3>1. src'[s] = [src[s] EXCEPT !.deleting = TRUE] \/ src'[s] = Gone(src[s].uid)
      BY <2>4 DEF DeleteSource, WriteSource, TypeOK
    <3> QED
      BY <1>2, <1>3, <1>4, <3>1 DEF SourceObj, Gone
  <2>5. CASE x = s /\ ReportReady(x)
    <3>1. src'[s] = [src[s] EXCEPT !.ready = TRUE] /\ env' # env
      <4>1. env \in Nat /\ env' = env + 1
        BY <2>5 DEF ReportReady, Spend, TypeOK
      <4> QED
        BY <2>5, <4>1 DEF ReportReady, WriteSource, TypeOK
    <3> QED
      BY Zenon, <1>3, <1>4, <3>1 DEF SourceObj
  <2> QED
    BY <1>6, <2>1, <2>2, <2>3, <2>4, <2>5
<1>7. CASE \E m \in Mappings, x \in Sources : Take(m, x)
  BY <1>1, <1>7 DEF Take, ReconcileGone, ReconcileLive, ReconcileDelete, Dequeue
<1>8. CASE \E c \in Children : CollectChild(c) \/ ChildStatus(c) \/ DropChild(c)
  BY <1>1, <1>8 DEF CollectChild, ChildStatus, DropChild
<1>9. CASE \/ \E v \in Lcm : SetLCM(v)
           \/ \E k \in Kinds : ServeKind(k)
           \/ \E m \in Mappings : CallFails(m)
           \/ Restart
  BY <1>1, <1>9 DEF SetLCM, ServeKind, CallFails, Restart
<1> QED
  BY <1>5, <1>6, <1>7, <1>8, <1>9 DEF Next, Environment

\* The daemon's Ready and the conditions of other mappings survive every status
\* update, however long ago the reconcile read the source and whatever happened
\* since: mirrorStatus writes the whole status, the resourceVersion check makes
\* that safe.
THEOREM ForeignStatusIsKept == Spec => ForeignStatusKept
<1>1. TypeOK /\ FreshCopy /\ [Next]_vars => [\A s \in Sources : StatusKept(s)]_vars
  BY StatusKeptStep
<1> QED
  BY <1>1, CopiesFresh, PTL DEF Spec, ForeignStatusKept, StatusKept

--------------------------------------------------------------------------------
(* Who deletes which child *)

\* The children mapping m can emit.
Emits(m) ==
  {c \in Children : \E s \in Sources, p \in Specs \cup {None} :
     \E i \in DOMAIN Emit(m, s, p) : c = Emit(m, s, p)[i]}

\* No two mappings emit the same child.
DisjointTargets ==
  \A m, n \in Mappings : m # n => Emits(m) \cap Emits(n) = {}

\* Every child was emitted by the mapping it is labelled with, so is every child
\* still to be applied, and what a prune or a cleanup has found is, if it still
\* exists, a child of the source being reconciled.
OwnWork ==
  /\ \A c \in Children : child[c] # None => c \in Emits(child[c].map)
  /\ \A m \in Mappings : w[m].pc = "apply" =>
       \A i \in 1..Len(w[m].todo) : w[m].todo[i] \in Emits(m)
  /\ \A m \in Mappings : w[m].pc \in {"prune", "cleanup"} =>
       \A c \in w[m].found :
         c \in Emits(m) /\ (child[c] = None \/ child[c].by = w[m].key)

SameWork(n) ==
  /\ w'[n].pc = w[n].pc /\ w'[n].key = w[n].key
  /\ w'[n].todo = w[n].todo /\ w'[n].found = w[n].found

\* The steps that touch no child and enter no list of work.
Aside ==
  /\ child' = child
  /\ \A n \in Mappings : SameWork(n) \/ w'[n].pc \notin {"apply", "prune", "cleanup"}

LEMMA AsideKeepsOwnWork == OwnWork /\ Aside => OwnWork'
<1> SUFFICES ASSUME OwnWork, Aside PROVE OwnWork'
  OBVIOUS
<1>1. ASSUME NEW n \in Mappings, w'[n].pc = "apply", NEW i \in 1..Len(w'[n].todo)
      PROVE  w'[n].todo[i] \in Emits(n)
  BY <1>1 DEF OwnWork, Aside, SameWork
<1>2. ASSUME NEW n \in Mappings, w'[n].pc \in {"prune", "cleanup"}, NEW c \in w'[n].found
      PROVE  c \in Emits(n) /\ (child'[c] = None \/ child'[c].by = w'[n].key)
  BY <1>2 DEF OwnWork, Aside, SameWork
<1>3. \A c \in Children : child'[c] # None => c \in Emits(child'[c].map)
  BY DEF OwnWork, Aside
<1> QED
  BY <1>1, <1>2, <1>3 DEF OwnWork, Emits

\* One worker moves on to a record outside the lists of work.
LEMMA OneWorkerAside ==
  ASSUME TypeOK, NEW m \in Mappings, NEW r, child' = child, w' = [w EXCEPT ![m] = r],
         r.pc \notin {"apply", "prune", "cleanup"}
  PROVE  Aside
BY DEF Aside, SameWork, TypeOK

LEMMA OutdateAside ==
  ASSUME TypeOK, NEW s \in Sources, child' = child, NEW m \in Mappings, NEW r,
         r.pc \notin {"apply", "prune", "cleanup"},
         w' = Outdate(w, s) \/ w' = [Outdate(w, s) EXCEPT ![m] = r]
  PROVE  Aside
<1> DEFINE o == Outdate(w, s)
<1>1. o \in [Mappings -> Reconcile]
  BY Zenon, OutdateType
<1>2. \A n \in Mappings : /\ o[n].pc = w[n].pc
                          /\ o[n].key = w[n].key
                          /\ o[n].todo = w[n].todo
                          /\ o[n].found = w[n].found
  BY Zenon, OutdateType
<1>3. w' = o \/ w' = [o EXCEPT ![m] = r]
  OBVIOUS
<1> HIDE DEF o
<1>4. \A n \in Mappings : w'[n] = o[n] \/ w'[n] = r
  BY <1>1, <1>3
<1> QED
  BY <1>2, <1>4 DEF Aside, SameWork

\* A child disappears, or changes but keeps its provenance.
LEMMA ChildKeepsOwnWork ==
  ASSUME TypeOK, OwnWork, NEW c \in Children, NEW obj, child' = [child EXCEPT ![c] = obj],
         \/ obj = None
         \/ child[c] # None /\ obj.by = child[c].by /\ obj.map = child[c].map,
         w' = w
  PROVE  OwnWork'
<1>1. \A d \in Children : child'[d] = IF d = c THEN obj ELSE child[d]
  BY DEF TypeOK
<1>2. \A n \in Mappings : w[n].found \subseteq Children
  BY DEF TypeOK, Reconcile
<1>3. \A d \in Children : child'[d] # None => d \in Emits(child'[d].map)
  BY <1>1 DEF OwnWork
<1>4. ASSUME NEW n \in Mappings, w[n].pc \in {"prune", "cleanup"}, NEW d \in w[n].found
      PROVE  d \in Emits(n) /\ (child'[d] = None \/ child'[d].by = w[n].key)
  BY <1>1, <1>2, <1>4 DEF OwnWork
<1>5. \A n \in Mappings : w'[n].pc = "apply" =>
        \A i \in 1..Len(w'[n].todo) : w'[n].todo[i] \in Emits(n)
  BY Zenon DEF OwnWork
<1>6. \A n \in Mappings : w'[n].pc \in {"prune", "cleanup"} =>
        \A d \in w'[n].found : d \in Emits(n) /\ (child'[d] = None \/ child'[d].by = w'[n].key)
  BY Zenon, <1>4
<1> QED
  BY Zenon, <1>3, <1>5, <1>6 DEF OwnWork, Emits

LEMMA DeleteKeepsOwnWork ==
  ASSUME TypeOK, OwnWork, NEW m \in Mappings, w[m].pc # "apply",
         NEW next \in {"mirrorList", "removeFinalizer"}, DeleteFound(m, next)
  PROVE  OwnWork'
<1>1. PICK c \in w[m].found :
        /\ child' = [child EXCEPT ![c] = None]
        /\ w' = [w EXCEPT ![m] = [w[m] EXCEPT
             !.found = @ \ {c}, !.pc = IF w[m].found = {c} THEN next ELSE @]]
  BY Zenon DEF DeleteFound, SetChild
<1>2. \A n \in Mappings : w[n] \in Reconcile /\ w[n].found \subseteq Children
  BY DEF TypeOK, Reconcile
<1>3. \A d \in Children : child'[d] = IF d = c THEN None ELSE child[d]
  BY <1>1 DEF TypeOK
<1>4. \A n \in Mappings \ {m} : w'[n] = w[n]
  BY <1>1 DEF TypeOK
<1>5. /\ w'[m].key = w[m].key
      /\ w'[m].found = w[m].found \ {c}
      /\ w'[m].pc = w[m].pc \/ w'[m].pc = next
  BY <1>1, <1>2 DEF TypeOK, Reconcile
<1>6. \A d \in Children : child'[d] # None => d \in Emits(child'[d].map)
  BY <1>3 DEF OwnWork
<1>7. ASSUME NEW n \in Mappings, w'[n].pc \in {"prune", "cleanup"}, NEW d \in w'[n].found
      PROVE  d \in Emits(n) /\ (child'[d] = None \/ child'[d].by = w'[n].key)
  <2>1. /\ w[n].pc \in {"prune", "cleanup"} /\ d \in w[n].found /\ w'[n].key = w[n].key
    BY <1>4, <1>5, <1>7
  <2> QED
    BY <1>2, <1>3, <2>1 DEF OwnWork
<1>8. ASSUME NEW n \in Mappings, w'[n].pc = "apply", NEW i \in 1..Len(w'[n].todo)
      PROVE  w'[n].todo[i] \in Emits(n)
  <2>1. n # m
    BY <1>5, <1>8
  <2> QED
    BY <1>4, <1>8, <2>1 DEF OwnWork
<1> QED
  BY Zenon, <1>6, <1>7, <1>8 DEF OwnWork, Emits

\* Applying a child: it was emitted by m, so no other worker has it in a list.
LEMMA ApplyKeepsOwnWork ==
  ASSUME TypeOK, DisjointTargets, OwnWork, NEW m \in Mappings, ApplyOne(m)
  PROVE  OwnWork'
<1> DEFINE c == Head(w[m].todo)
           obj == stampOwner(m, w[m].key, w[m].snap.uid, c)
<1>1. /\ w[m] \in Reconcile /\ w[m].todo \in Seq(Children) /\ w[m].todo # <<>>
      /\ w[m].pc = "apply"
  BY DEF ApplyOne, TypeOK, Reconcile
<1>2. c \in Children /\ c \in Emits(m)
  <2>1. c = w[m].todo[1] /\ 1 \in 1..Len(w[m].todo) /\ c \in Children
    BY <1>1
  <2> QED
    BY <1>1, <2>1 DEF OwnWork
<1>3. child' = [child EXCEPT ![c] = obj]
  BY DEF ApplyOne, SetChild
<1>4. obj.map = m /\ obj.by = w[m].key
  BY DEF stampOwner
<1> HIDE DEF c, obj
<1>5. \A d \in Children : child'[d] = IF d = c THEN obj ELSE child[d]
  BY <1>3 DEF TypeOK
<1>6. \A n \in Mappings \ {m} : w'[n] = w[n]
  BY DEF ApplyOne, TypeOK
<1>7. /\ w'[m].todo = Tail(w[m].todo)
      /\ w'[m].pc \notin {"prune", "cleanup"}
  BY <1>1 DEF ApplyOne, TypeOK, Reconcile, AfterApply
<1>8. \A d \in Children : child'[d] # None => d \in Emits(child'[d].map)
  BY <1>2, <1>4, <1>5 DEF OwnWork
<1>9. ASSUME NEW n \in Mappings, w'[n].pc \in {"prune", "cleanup"}, NEW d \in w'[n].found
      PROVE  d \in Emits(n) /\ (child'[d] = None \/ child'[d].by = w'[n].key)
  <2>1. n # m /\ w'[n] = w[n]
    BY <1>6, <1>7, <1>9
  <2>2. d \in Emits(n) /\ (child[d] = None \/ child[d].by = w[n].key)
    BY <1>9, <2>1 DEF OwnWork
  <2>3. d # c /\ d \in Children
    BY <1>2, <2>1, <2>2 DEF DisjointTargets, Emits
  <2> QED
    BY <1>5, <2>1, <2>2, <2>3
<1>10. ASSUME NEW n \in Mappings, w'[n].pc = "apply", NEW i \in 1..Len(w'[n].todo)
       PROVE  w'[n].todo[i] \in Emits(n)
  <2>1. CASE n = m
    <3>1. i \in 1..Len(Tail(w[m].todo))
      BY Zenon, <1>7, <1>10, <2>1
    <3>2. i + 1 \in 1..Len(w[m].todo) /\ Tail(w[m].todo)[i] = w[m].todo[i + 1]
      BY <1>1, <3>1
    <3> QED
      BY Zenon, <1>1, <1>7, <2>1, <3>2 DEF OwnWork
  <2>2. CASE n # m
    BY <1>6, <1>10, <2>2 DEF OwnWork
  <2> QED
    BY <2>1, <2>2
<1> QED
  BY <1>8, <1>9, <1>10 DEF OwnWork, Emits

\* Lists are made of the mapping's own emissions and of the source's children.
LEMMA ListKeepsOwnWork ==
  ASSUME TypeOK, OwnWork, NEW m \in Mappings, APIsReady(m) \/ PruneList(m) \/ CleanupList(m)
  PROVE  OwnWork'
<1>1. w[m] \in Reconcile /\ w[m].key \in Sources /\ w[m].snap \in SourceObj
  BY RunningKey DEF APIsReady, PruneList, CleanupList
<1>2. child' = child /\ \A n \in Mappings \ {m} : w'[n] = w[n]
  BY DEF APIsReady, PruneList, CleanupList, TypeOK
<1>3. \A c \in Children : child'[c] # None => c \in Emits(child'[c].map)
  BY <1>2 DEF OwnWork
<1> DEFINE annotated == {c \in listChildObjects(m, w[m].key) : AnnotatedBy(c, w[m].key)}
<1>4. ASSUME PruneList(m) \/ CleanupList(m)
      PROVE  /\ w'[m].pc \in {"mirrorList", "prune", "removeFinalizer", "cleanup"}
             /\ w'[m].key = w[m].key
             /\ w'[m].found = staleChildren(m) \/ w'[m].found = annotated
  <2>1. ASSUME NEW cs, NEW step, w' = [w EXCEPT ![m] = [w[m] EXCEPT !.found = cs, !.pc = step]]
        PROVE  w'[m].pc = step /\ w'[m].key = w[m].key /\ w'[m].found = cs
    BY <1>1, <2>1 DEF TypeOK, Reconcile
  <2>2. CASE PruneList(m)
    <3> DEFINE step == IF staleChildren(m) = {} THEN "mirrorList" ELSE "prune"
    <3>1. w' = [w EXCEPT ![m] = [w[m] EXCEPT !.found = staleChildren(m), !.pc = step]]
      BY <2>2 DEF PruneList
    <3>2. w'[m].pc = step /\ w'[m].key = w[m].key /\ w'[m].found = staleChildren(m)
      BY Zenon, <2>1, <3>1
    <3> QED
      BY <3>2
  <2>3. CASE CleanupList(m)
    <3> DEFINE step == IF annotated = {} THEN "removeFinalizer" ELSE "cleanup"
    <3>1. w' = [w EXCEPT ![m] = [w[m] EXCEPT !.found = annotated, !.pc = step]]
      BY <2>3 DEF CleanupList
    <3> HIDE DEF annotated
    <3>2. w'[m].pc = step /\ w'[m].key = w[m].key /\ w'[m].found = annotated
      BY Zenon, <2>1, <3>1
    <3> QED
      BY <3>2
  <2> QED
    BY Zenon, <1>4, <2>2, <2>3
<1>5. w'[m].pc = "apply" => \A i \in 1..Len(w'[m].todo) : w'[m].todo[i] \in Emits(m)
  <2>1. CASE APIsReady(m)
    <3> DEFINE q == Emit(m, w[m].key, w[m].snap.spec)
    <3>1. w'[m].todo = q
      BY <1>1, <2>1 DEF APIsReady, emitted, TypeOK, Reconcile
    <3>2. w[m].snap.spec \in Specs \cup {None}
      BY <1>1 DEF SourceObj
    <3>3. q \in Seq(Children)
      BY <1>1, <3>2, ConstantsAssumption
    <3>4. \A i \in 1..Len(q) : i \in DOMAIN q /\ q[i] \in Children
      BY <3>3
    <3>5. \A i \in 1..Len(q) : q[i] \in Emits(m)
      BY <1>1, <3>2, <3>4 DEF Emits
    <3> QED
      BY <3>1, <3>5
  <2>2. CASE PruneList(m) \/ CleanupList(m)
    BY <1>4, <2>2
  <2> QED
    BY <2>1, <2>2
<1>6. w'[m].pc \in {"prune", "cleanup"} => \A c \in w'[m].found :
        c \in Emits(m) /\ (child'[c] = None \/ child'[c].by = w'[m].key)
  <2>1. CASE APIsReady(m)
    <3>1. w'[m].pc = "apply"
      BY <1>1, <2>1 DEF APIsReady, TypeOK, Reconcile
    <3> QED
      BY <3>1
  <2>2. CASE PruneList(m) \/ CleanupList(m)
    <3>1. /\ w'[m].key = w[m].key
          /\ w'[m].found = staleChildren(m) \/ w'[m].found = annotated
      BY <1>4, <2>2
    <3>2. \A c \in listChildObjects(m, w[m].key) : c \in Emits(m)
      BY DEF listChildObjects, OwnWork
    <3>3. \A c \in w'[m].found : c \in listChildObjects(m, w[m].key) /\ child[c].by = w[m].key
      BY Zenon, <3>1 DEF staleChildren, ownedBySource, AnnotatedBy
    <3> QED
      BY <1>2, <3>1, <3>2, <3>3
  <2> QED
    BY <2>1, <2>2
<1>7. \A n \in Mappings : w'[n].pc = "apply" =>
        \A i \in 1..Len(w'[n].todo) : w'[n].todo[i] \in Emits(n)
  <2> TAKE n \in Mappings
  <2>1. CASE n = m
    BY Zenon, <1>5, <2>1
  <2>2. CASE n # m
    BY Zenon, <1>2, <2>2 DEF OwnWork
  <2> QED
    BY Zenon, <2>1, <2>2
<1>8. \A n \in Mappings : w'[n].pc \in {"prune", "cleanup"} =>
        \A c \in w'[n].found :
          c \in Emits(n) /\ (child'[c] = None \/ child'[c].by = w'[n].key)
  <2> TAKE n \in Mappings
  <2>1. CASE n = m
    BY Zenon, <1>6, <2>1
  <2>2. CASE n # m
    BY Zenon, <1>2, <2>2 DEF OwnWork
  <2> QED
    BY <2>1, <2>2
<1> QED
  BY Zenon, <1>3, <1>7, <1>8 DEF OwnWork, Emits

\* The remaining steps touch no child and make no list.
LEMMA OtherSteps ==
  ASSUME TypeOK, Next,
         \A m \in Mappings : /\ ~APIsReady(m) /\ ~PruneList(m) /\ ~CleanupList(m)
                             /\ ~ApplyOne(m)
                             /\ ~pruneStaleChildren(m) /\ ~cleanupAnnotatedChildren(m),
         \A c \in Children : ~CollectChild(c) /\ ~ChildStatus(c) /\ ~DropChild(c)
  PROVE  Aside
<1>1. ASSUME child' = child, w' = w PROVE Aside
  BY <1>1 DEF Aside, SameWork
<1>2. Idle.pc \notin {"apply", "prune", "cleanup"}
  BY IdleType
<1>3. ASSUME NEW m \in Mappings, Work(m) PROVE Aside
  <2>0. w[m] \in Reconcile
    BY DEF TypeOK
  <2>1. CASE AddFinalizer(m)
    <3> DEFINE r == [w[m] EXCEPT !.pc = "map", !.snap = [w[m].snap EXCEPT !.fin = TRUE]]
    <3>1. w[m].key \in Sources
      BY <2>1, RunningKey DEF AddFinalizer
    <3>2. child' = child /\ w' = [Outdate(w, w[m].key) EXCEPT ![m] = r]
      BY <2>1 DEF AddFinalizer
    <3>3. r.pc \notin {"apply", "prune", "cleanup"}
      BY <2>0 DEF Reconcile
    <3> HIDE DEF r
    <3> QED
      BY <3>1, <3>2, <3>3, OutdateAside
  <2>2. CASE UpdateStatus(m) \/ RemoveFinalizer(m)
    <3>1. w[m].key \in Sources
      BY <2>2, RunningKey DEF UpdateStatus, RemoveFinalizer
    <3>2. child' = child /\ w' = [Outdate(w, w[m].key) EXCEPT ![m] = Idle]
      BY <2>2 DEF UpdateStatus, RemoveFinalizer
    <3> QED
      BY <1>2, <3>1, <3>2, OutdateAside
  <2>3. CASE Conflict(m) \/ MapFails(m) \/ WaitForLCM(m) \/ WaitForAPIs(m) \/ MirrorNothing(m)
    BY Zenon, <1>2, <2>3, OneWorkerAside
    DEF Conflict, MapFails, WaitForLCM, WaitForAPIs, MirrorNothing, Requeue, Finish
  <2>4. CASE NothingEmitted(m) \/ LCMOpen(m) \/ MirrorList(m)
    <3>1. PICK r : /\ child' = child /\ w' = [w EXCEPT ![m] = r]
                   /\ r.pc \notin {"apply", "prune", "cleanup"}
      <4>1. CASE NothingEmitted(m)
        <5>1. [w[m] EXCEPT !.pc = AfterApply(m)].pc \in {"pruneList", "mirrorList"}
          BY <2>0 DEF AfterApply, Reconcile
        <5> QED
          BY Zenon, <4>1, <5>1 DEF NothingEmitted, Goto
      <4>2. CASE LCMOpen(m)
        <5>1. [w[m] EXCEPT !.pc = "apis"].pc = "apis"
          BY <2>0 DEF Reconcile
        <5> QED
          BY Zenon, <4>2, <5>1 DEF LCMOpen, Goto
      <4>3. CASE MirrorList(m)
        <5>1. [w[m] EXCEPT !.pc = "updateStatus", !.verdict = mirrorVerdict(m)].pc = "updateStatus"
          BY <2>0 DEF Reconcile
        <5> QED
          BY Zenon, <4>3, <5>1 DEF MirrorList
      <4> QED
        BY <2>4, <4>1, <4>2, <4>3
    <3> QED
      BY Zenon, <3>1, OneWorkerAside
  <2> QED
    BY <1>3, <2>1, <2>2, <2>3, <2>4 DEF Work
<1>4. ASSUME NEW m \in Mappings, NEW s \in Sources, Take(m, s) PROVE Aside
  <2>1. src[s] \in SourceObj
    BY DEF TypeOK
  <2>2. \A step \in Steps : Start(s, step).pc = step
    BY DEF Start, Idle
  <2>3. PICK r : /\ child' = child /\ w' = [w EXCEPT ![m] = r]
                 /\ r.pc \notin {"apply", "prune", "cleanup"}
    BY <1>2, <1>4, <2>2 DEF Take, ReconcileGone, ReconcileLive, ReconcileDelete, Dequeue, Steps
  <2> QED
    BY Zenon, <2>3, OneWorkerAside
<1>5. CASE Environment
  <2>1. ASSUME NEW s \in Sources, NEW obj, WriteSource(s, obj) PROVE Aside
    <3>1. child' = child /\ w' = Outdate(w, s)
      BY <2>1 DEF WriteSource
    <3>2. \A n \in Mappings : SameWork(n)
      BY Zenon, <3>1, OutdateType DEF SameWork
    <3> QED
      BY Zenon, <3>1, <3>2 DEF Aside
  <2>2. ASSUME NEW m \in Mappings, CallFails(m) PROVE Aside
    BY Zenon, <1>2, <2>2, OneWorkerAside DEF CallFails, Finish
  <2>3. CASE Restart
    BY <1>2, <2>3 DEF Restart, Aside
  <2>4. ASSUME NEW v, SetLCM(v) \/ ServeKind(v) PROVE Aside
    BY Zenon, <1>1, <2>4 DEF SetLCM, ServeKind
  <2> QED
    BY <1>5, <2>1, <2>2, <2>3, <2>4, WriteSourceStep DEF Environment
<1> QED
  BY <1>3, <1>4, <1>5 DEF Next

LEMMA OwnWorkStep ==
  ASSUME DisjointTargets
  PROVE  TypeOK /\ OwnWork /\ [Next]_vars => OwnWork'
<1> SUFFICES ASSUME TypeOK, OwnWork, [Next]_vars PROVE OwnWork'
  OBVIOUS
<1>1. CASE UNCHANGED vars
  <2>1. Aside
    BY <1>1 DEF vars, Aside, SameWork
  <2> QED
    BY <2>1, AsideKeepsOwnWork
<1>2. CASE \E m \in Mappings : APIsReady(m) \/ PruneList(m) \/ CleanupList(m)
  BY <1>2, ListKeepsOwnWork
<1>3. CASE \E m \in Mappings : ApplyOne(m)
  BY <1>3, ApplyKeepsOwnWork
<1>4. CASE \E m \in Mappings : pruneStaleChildren(m) \/ cleanupAnnotatedChildren(m)
  BY <1>4, DeleteKeepsOwnWork DEF pruneStaleChildren, cleanupAnnotatedChildren
<1>5. ASSUME NEW c \in Children, CollectChild(c) \/ ChildStatus(c) \/ DropChild(c)
      PROVE  OwnWork'
  <2>1. child[c] \in ChildObj /\ w' = w
    BY <1>5 DEF CollectChild, ChildStatus, DropChild, TypeOK
  <2>2. [child[c] EXCEPT !.ready = ~@].by = child[c].by /\ [child[c] EXCEPT !.ready = ~@].map = child[c].map
    BY <2>1 DEF ChildObj
  <2>3. CASE ChildStatus(c)
    BY Zenon, <2>1, <2>2, <2>3, ChildKeepsOwnWork DEF ChildStatus, SetChild
  <2>4. CASE CollectChild(c) \/ DropChild(c)
    BY <2>1, <2>4, ChildKeepsOwnWork DEF CollectChild, DropChild, SetChild
  <2> QED
    BY <1>5, <2>3, <2>4
<1> QED
  BY <1>1, <1>2, <1>3, <1>4, <1>5, OtherSteps, AsideKeepsOwnWork

\* The body of OnlyOwnChildrenDeleted, for one child.
DeletionAllowed(c) ==
  (child[c] # None /\ child'[c] = None /\ env' = env) =>
    LET s == child[c].by
    IN \/ CanOwn(s, c) /\ ~(src[s].live /\ src[s].uid = child[c].uid)
       \/ \E m \in Mappings : w[m].key = s /\ w'[m] # w[m]

LEMMA DeletionAllowedStep ==
  ASSUME TypeOK, OwnWork, Next, NEW c \in Children
  PROVE  DeletionAllowed(c)
<1> SUFFICES ASSUME child[c] # None, child'[c] = None, env' = env
             PROVE  \/ /\ CanOwn(child[c].by, c)
                       /\ ~(src[child[c].by].live /\ src[child[c].by].uid = child[c].uid)
                    \/ \E m \in Mappings : w[m].key = child[c].by /\ w'[m] # w[m]
  BY Zenon DEF DeletionAllowed
<1>1. child' # child
  OBVIOUS
<1>2. ~\E m \in Mappings : APIsReady(m) \/ PruneList(m) \/ CleanupList(m)
  BY Zenon, <1>1 DEF APIsReady, PruneList, CleanupList
<1>3. ~Aside
  BY <1>1 DEF Aside
<1>4. ASSUME NEW d \in Children PROVE ~ChildStatus(d) /\ ~DropChild(d)
  <2>1. env \in Nat
    BY DEF TypeOK
  <2> QED
    BY <2>1 DEF ChildStatus, DropChild, Spend
<1>5. ASSUME NEW m \in Mappings PROVE ~ApplyOne(m)
  <2> SUFFICES ASSUME ApplyOne(m) PROVE FALSE
    OBVIOUS
  <2> DEFINE d == Head(w[m].todo)
             obj == stampOwner(m, w[m].key, w[m].snap.uid, d)
  <2>1. child' = [child EXCEPT ![d] = obj]
    BY DEF ApplyOne, SetChild
  <2>2. child'[c] = obj
    <3> HIDE DEF d, obj
    <3> QED
      BY <2>1 DEF TypeOK
  <2>3. w[m].todo \in Seq(Children) /\ w[m].todo # <<>> /\ w[m].pc # "idle"
    BY DEF ApplyOne, TypeOK, Reconcile
  <2>4. w[m].key \in Sources /\ w[m].snap.uid \in Nat /\ d \in Children
    <3>1. d \in Children
      BY <2>3
    <3> HIDE DEF d, obj
    <3>2. w[m].key \in Sources /\ w[m].snap \in SourceObj
      BY <2>3, RunningKey
    <3>3. w[m].snap.uid \in Nat
      BY <3>2 DEF SourceObj
    <3> QED
      BY <3>1, <3>2, <3>3
  <2>5. child[d] = None \/ child[d].ready \in BOOLEAN
    BY <2>4 DEF TypeOK, ChildObj
  <2>6. obj \in ChildObj
    BY Zenon, <2>4, <2>5 DEF stampOwner, ChildObj
  <2> QED
    BY <2>2, <2>6, ConstantsAssumption
<1>6. ASSUME NEW d \in Children, CollectChild(d)
      PROVE  /\ CanOwn(child[c].by, c)
             /\ ~(src[child[c].by].live /\ src[child[c].by].uid = child[c].uid)
  BY Zenon, <1>6 DEF CollectChild, SetChild, TypeOK
<1>7. ASSUME NEW m \in Mappings, pruneStaleChildren(m) \/ cleanupAnnotatedChildren(m)
      PROVE  w[m].key = child[c].by /\ w'[m] # w[m]
  <2>1. PICK next : w[m].pc \in {"prune", "cleanup"} /\ DeleteFound(m, next)
    <3>1. CASE pruneStaleChildren(m)
      BY <3>1 DEF pruneStaleChildren
    <3>2. CASE cleanupAnnotatedChildren(m)
      BY <3>2 DEF cleanupAnnotatedChildren
    <3> QED
      BY <1>7, <3>1, <3>2
  <2>2. PICK d \in w[m].found :
          /\ child' = [child EXCEPT ![d] = None]
          /\ w' = [w EXCEPT ![m] = [w[m] EXCEPT
               !.found = @ \ {d}, !.pc = IF w[m].found = {d} THEN next ELSE @]]
    BY Zenon, <2>1 DEF DeleteFound, SetChild
  <2>3. d = c
    BY <2>2 DEF TypeOK
  <2>4. w'[m].found = w[m].found \ {c}
    BY <2>2, <2>3 DEF TypeOK, Reconcile
  <2> QED
    BY Zenon, <2>1, <2>2, <2>3, <2>4 DEF OwnWork
<1> QED
  BY Zenon, <1>2, <1>3, <1>4, <1>5, <1>6, <1>7, OtherSteps

LEMMA InitOwnWork == Init => OwnWork
BY IdleType DEF Init, OwnWork

\* When no two mappings emit the same child, no controller ever deletes a child
\* of a source other than the one it is reconciling, even though its listing is
\* by name only and other actors work between the listing and each deletion.
THEOREM OnlyOwnChildrenAreDeleted ==
  ASSUME DisjointTargets
  PROVE  Spec => OnlyOwnChildrenDeleted
<1>1. TypeOK /\ OwnWork /\ [Next]_vars => OwnWork'
  BY OwnWorkStep
<1>2. TypeOK /\ OwnWork /\ [Next]_vars => [\A c \in Children : DeletionAllowed(c)]_vars
  BY DeletionAllowedStep
<1> QED
  BY <1>1, <1>2, InitOwnWork, TypeCorrect, PTL DEF Spec, OnlyOwnChildrenDeleted, DeletionAllowed

--------------------------------------------------------------------------------
(* The cleanup finalizer *)

\* What is left to apply is what was to be applied, one place on.
LEMMA TailShift ==
  ASSUME NEW S, NEW s \in Seq(S), s # << >>, NEW i \in 1..Len(Tail(s))
  PROVE  i + 1 \in 1..Len(s) /\ Tail(s)[i] = s[i + 1]
  OBVIOUS

OneMapping == \A m, n \in Mappings : m = n

\* The steps of a reconcile that run behind the finalizer.
Applying == {"map", "apis", "apply", "pruneList", "prune", "mirrorList", "updateStatus"}

Held(s) == src[s].live /\ src[s].fin

StillHeld(s) == src'[s].live /\ src'[s].fin

\* AnnotatedChildGuarded is not inductive: it needs to know that the worker
\* applies children only behind the finalizer, that a cleanup's list misses no
\* annotated child (so no child is of a kind the listing skips), and that the
\* list is empty when the finalizer comes off.
Guard ==
  /\ \A c \in Children : Annotated(c, child[c]) => Held(child[c].by)
  /\ \A m \in Mappings : w[m].pc \in Applying => Held(w[m].key)
  /\ \A m \in Mappings : w[m].pc = "addFinalizer" => w[m].snap.live
  /\ \A m \in Mappings : w[m].pc \in {"cleanup", "removeFinalizer"} =>
       \A c \in Children : AnnotatedBy(c, w[m].key) => c \in w[m].found
  /\ \A m \in Mappings : w[m].pc = "removeFinalizer" => w[m].found = {}
  /\ \A c \in Children : child[c] # None => KindOf(c) \in served
  /\ \A m \in Mappings : w[m].pc = "apply" =>
       \A i \in 1..Len(w[m].todo) : KindOf(w[m].todo[i]) \in served

\* Only removing the finalizer ends the hold on a source.
LEMMA HoldKept ==
  ASSUME TypeOK, FreshCopy, Guard, Next, \A m \in Mappings : ~RemoveFinalizer(m),
         NEW s \in Sources, Held(s)
  PROVE  StillHeld(s)
<1>1. ASSUME src'[s].live = src[s].live, src'[s].fin = src[s].fin PROVE StillHeld(s)
  BY <1>1 DEF Held, StillHeld
<1>2. src[s] \in SourceObj
  BY DEF TypeOK
<1>3. ASSUME NEW m \in Mappings, Work(m) PROVE StillHeld(s)
  <2>1. CASE AddFinalizer(m)
    <3>1. w[m].key \in Sources /\ w[m].snap \in SourceObj
      BY <2>1, RunningKey DEF AddFinalizer
    <3>2. src' = [src EXCEPT ![w[m].key] = [w[m].snap EXCEPT !.fin = TRUE]] /\ w[m].snap.live
      BY <2>1 DEF AddFinalizer, Guard
    <3>3. [w[m].snap EXCEPT !.fin = TRUE].live /\ [w[m].snap EXCEPT !.fin = TRUE].fin
      BY <3>1, <3>2 DEF SourceObj
    <3> QED
      BY Zenon, <1>1, <3>1, <3>2, <3>3 DEF TypeOK, StillHeld
  <2>2. CASE UpdateStatus(m)
    <3>1. w[m].key \in Sources
      BY <2>2, RunningKey DEF UpdateStatus
    <3>2. src' = [src EXCEPT ![w[m].key].cond = [w[m].snap.cond EXCEPT ![m] = w[m].verdict],
                             ![w[m].key].ready = w[m].snap.ready]
      BY <2>2 DEF UpdateStatus
    <3>3. src'[s].live = src[s].live /\ src'[s].fin = src[s].fin
      BY <1>2, <3>1, <3>2 DEF TypeOK, SourceObj
    <3> QED
      BY <1>1, <3>3
  <2>3. CASE ~AddFinalizer(m) /\ ~UpdateStatus(m)
    <3>1. src' = src
      BY <1>3, <2>3, QuietWork
    <3> QED
      BY <1>1, <3>1
  <2> QED
    BY <2>1, <2>2, <2>3
<1>4. ASSUME NEW x \in Sources,
             CreateSource(x) \/ EditSource(x) \/ DeleteSource(x) \/ ReportReady(x)
      PROVE  StillHeld(s)
  <2>1. CASE x # s
    <3>1. src'[s] = src[s]
      BY Zenon, <1>4, <2>1 DEF CreateSource, EditSource, DeleteSource, ReportReady, WriteSource, TypeOK
    <3> QED
      BY <1>1, <3>1
  <2>2. CASE x = s /\ CreateSource(x)
    BY <2>2 DEF CreateSource, Held
  <2>3. CASE x = s /\ EditSource(x)
    <3>1. PICK p \in Specs : src' = [src EXCEPT ![s] = [src[s] EXCEPT !.spec = p]]
      BY Zenon, <2>3 DEF EditSource, WriteSource
    <3>2. src'[s] = [src[s] EXCEPT !.spec = p]
      BY <3>1 DEF TypeOK
    <3> QED
      BY <1>1, <1>2, <3>2 DEF SourceObj
  <2>4. CASE x = s /\ DeleteSource(x)
    <3>1. src'[s] = [src[s] EXCEPT !.deleting = TRUE]
      BY <2>4 DEF DeleteSource, WriteSource, TypeOK, Held
    <3> QED
      BY <1>1, <1>2, <3>1 DEF SourceObj
  <2>5. CASE x = s /\ ReportReady(x)
    <3>1. src'[s] = [src[s] EXCEPT !.ready = TRUE]
      BY <2>5 DEF ReportReady, WriteSource, TypeOK
    <3> QED
      BY <1>1, <1>2, <3>1 DEF SourceObj
  <2> QED
    BY <1>4, <2>1, <2>2, <2>3, <2>4, <2>5
<1>5. CASE \E m \in Mappings, x \in Sources : Take(m, x)
  BY <1>1, <1>5 DEF Take, ReconcileGone, ReconcileLive, ReconcileDelete, Dequeue
<1>6. CASE \E c \in Children : CollectChild(c) \/ ChildStatus(c) \/ DropChild(c)
  BY <1>1, <1>6 DEF CollectChild, ChildStatus, DropChild
<1>7. CASE \/ \E v \in Lcm : SetLCM(v)
           \/ \E k \in Kinds : ServeKind(k)
           \/ \E m \in Mappings : CallFails(m)
           \/ Restart
  BY <1>1, <1>7 DEF SetLCM, ServeKind, CallFails, Restart
<1> QED
  BY <1>3, <1>4, <1>5, <1>6, <1>7 DEF Next, Environment

\* Where a worker can be after a step: outside the protected part, applying
\* behind the finalizer, or cleaning up.
Transition(m) ==
  \/ SameWork(m) /\ w'[m].snap = w[m].snap
  \/ w'[m].pc \in {"idle", "cleanupList"}
  \/ w'[m].pc = "addFinalizer" /\ w'[m].snap.live
  \/ /\ w'[m].pc \in Applying /\ StillHeld(w'[m].key)
     /\ w'[m].pc = "apply" =>
          \A i \in 1..Len(w'[m].todo) : KindOf(w'[m].todo[i]) \in served
  \/ CleanupList(m)
  \/ cleanupAnnotatedChildren(m)

\* The protected steps of a reconcile stay protected.
LEMMA ApplyingTransition ==
  ASSUME TypeOK, FreshCopy, Guard, Next, NEW m \in Mappings,
         \A n \in Mappings : ~RemoveFinalizer(n),
         NEW step \in Applying \ {"apply"}, NEW r, w' = [w EXCEPT ![m] = r],
         w[m].pc \in Applying, r.pc = step, r.key = w[m].key
  PROVE  Transition(m)
<1>1. w'[m] = r
  BY DEF TypeOK
<1>2. w[m].key \in Sources /\ Held(w[m].key)
  BY Zenon, RunningKey DEF Guard, Applying
<1>3. StillHeld(w[m].key)
  BY <1>2, HoldKept
<1> QED
  BY <1>1, <1>3 DEF Transition

LEMMA WorkerTransition ==
  ASSUME OneMapping, TypeOK, FreshCopy, Guard, Next, NEW m \in Mappings,
         \A n \in Mappings : ~RemoveFinalizer(n) /\ ~ApplyOne(n)
  PROVE  Transition(m)
<1>0. w[m] \in Reconcile
  BY DEF TypeOK
<1>1. ASSUME w' = w PROVE Transition(m)
  BY <1>1 DEF Transition, SameWork
<1>2. ASSUME w' = [w EXCEPT ![m] = Idle] PROVE Transition(m)
  <2>1. w'[m].pc = "idle"
    BY <1>2, IdleType DEF TypeOK
  <2> QED
    BY <2>1 DEF Transition
<1>3. ASSUME Work(m) PROVE Transition(m)
  <2>1. CASE AddFinalizer(m)
    <3> DEFINE s == w[m].key
               obj == [w[m].snap EXCEPT !.fin = TRUE]
               r == [w[m] EXCEPT !.pc = "map", !.snap = obj]
    <3>1. s \in Sources /\ w[m].snap \in SourceObj
      BY <2>1, RunningKey DEF AddFinalizer
    <3>2. /\ src' = [src EXCEPT ![s] = obj] /\ w[m].snap.live
          /\ w' = [Outdate(w, s) EXCEPT ![m] = r]
      BY <2>1 DEF AddFinalizer, Guard
    <3>3. obj.live /\ obj.fin
      BY <3>1, <3>2 DEF SourceObj
    <3>4. r.pc = "map" /\ r.key = s
      BY <1>0 DEF Reconcile
    <3>5. Outdate(w, s) \in [Mappings -> Reconcile]
      BY Zenon, <3>1, OutdateType
    <3> HIDE DEF s, obj, r
    <3>6. w'[m] = r /\ src'[s] = obj
      BY <3>1, <3>2, <3>5 DEF TypeOK
    <3> QED
      BY <3>3, <3>4, <3>6 DEF Transition, StillHeld, Applying
  <2>2. CASE UpdateStatus(m)
    <3> DEFINE s == w[m].key
    <3>1. s \in Sources
      BY <2>2, RunningKey DEF UpdateStatus
    <3>2. w' = [Outdate(w, s) EXCEPT ![m] = Idle]
      BY <2>2 DEF UpdateStatus
    <3>3. Outdate(w, s) \in [Mappings -> Reconcile]
      BY Zenon, <3>1, OutdateType
    <3>4. w'[m].pc = "idle"
      BY <3>2, <3>3, IdleType
    <3> QED
      BY <3>4 DEF Transition
  <2>3. CASE Conflict(m) \/ MapFails(m) \/ WaitForLCM(m) \/ WaitForAPIs(m) \/ MirrorNothing(m)
    BY <1>2, <2>3 DEF Conflict, MapFails, WaitForLCM, WaitForAPIs, MirrorNothing, Requeue, Finish
  <2>4. CASE NothingEmitted(m)
    <3> DEFINE step == AfterApply(m)
               r == [w[m] EXCEPT !.pc = step]
    <3>1. w' = [w EXCEPT ![m] = r] /\ w[m].pc \in Applying
      BY <2>4 DEF NothingEmitted, Goto, Applying
    <3>2. r.pc = step /\ r.key = w[m].key
      BY <1>0 DEF Reconcile
    <3>3. step \in Applying \ {"apply"}
      BY DEF AfterApply, Applying
    <3> HIDE DEF r, step
    <3> QED
      BY Zenon, <3>1, <3>2, <3>3, ApplyingTransition
  <2>5. CASE LCMOpen(m)
    <3> DEFINE r == [w[m] EXCEPT !.pc = "apis"]
    <3>1. w' = [w EXCEPT ![m] = r] /\ w[m].pc \in Applying
      BY <2>5 DEF LCMOpen, Goto, Applying
    <3>2. r.pc = "apis" /\ r.key = w[m].key /\ "apis" \in Applying \ {"apply"}
      BY <1>0 DEF Reconcile, Applying
    <3> HIDE DEF r
    <3> QED
      BY Zenon, <3>1, <3>2, ApplyingTransition
  <2>6. CASE APIsReady(m)
    <3> DEFINE q == emitted(m)
    <3>1. w' = [w EXCEPT ![m] = [w[m] EXCEPT !.pc = "apply", !.todo = q]]
      BY <2>6 DEF APIsReady
    <3>2. w'[m].pc = "apply" /\ w'[m].key = w[m].key /\ w'[m].todo = q
      BY <1>0, <3>1 DEF TypeOK, Reconcile
    <3>3. w[m].key \in Sources /\ w[m].snap \in SourceObj /\ Held(w[m].key)
      BY <2>6, RunningKey DEF APIsReady, Guard, Applying
    <3>4. StillHeld(w[m].key)
      BY <3>3, HoldKept
    <3>5. q \in Seq(Children)
      BY <3>3, ConstantsAssumption DEF emitted, SourceObj
    <3>6. \A i \in 1..Len(q) : KindOf(q[i]) \in served
      BY <2>6, <3>5 DEF APIsReady, TargetsInstalled, desired
    <3> QED
      BY Zenon, <3>2, <3>4, <3>6 DEF Transition, Applying
  <2>7. CASE PruneList(m)
    <3> DEFINE step == IF staleChildren(m) = {} THEN "mirrorList" ELSE "prune"
               r == [w[m] EXCEPT !.found = staleChildren(m), !.pc = step]
    <3>1. w' = [w EXCEPT ![m] = r] /\ w[m].pc \in Applying
      BY <2>7 DEF PruneList, Applying
    <3>2. r.pc = step /\ r.key = w[m].key
      BY <1>0 DEF Reconcile
    <3>3. step \in Applying \ {"apply"}
      BY DEF Applying
    <3> HIDE DEF r, step
    <3> QED
      BY Zenon, <3>1, <3>2, <3>3, ApplyingTransition
  <2>8. CASE pruneStaleChildren(m)
    <3>1. PICK c \in w[m].found :
            w' = [w EXCEPT ![m] = [w[m] EXCEPT
               !.found = @ \ {c}, !.pc = IF w[m].found = {c} THEN "mirrorList" ELSE @]]
      BY Zenon, <2>8 DEF pruneStaleChildren, DeleteFound
    <3> DEFINE step == IF w[m].found = {c} THEN "mirrorList" ELSE w[m].pc
               r == [w[m] EXCEPT !.found = w[m].found \ {c}, !.pc = step]
    <3>2. w' = [w EXCEPT ![m] = r]
      BY <3>1
    <3>3. r.pc = step /\ r.key = w[m].key
      BY <1>0 DEF Reconcile
    <3>4. step \in Applying \ {"apply"} /\ w[m].pc \in Applying
      BY <2>8 DEF pruneStaleChildren, Applying
    <3> HIDE DEF r, step
    <3> QED
      BY Zenon, <3>2, <3>3, <3>4, ApplyingTransition
  <2>9. CASE MirrorList(m)
    <3> DEFINE r == [w[m] EXCEPT !.pc = "updateStatus", !.verdict = mirrorVerdict(m)]
    <3>1. w' = [w EXCEPT ![m] = r] /\ w[m].pc \in Applying
      BY <2>9 DEF MirrorList, Applying
    <3>2. r.pc = "updateStatus" /\ r.key = w[m].key /\ "updateStatus" \in Applying \ {"apply"}
      BY <1>0 DEF Reconcile, Applying
    <3> HIDE DEF r
    <3> QED
      BY Zenon, <3>1, <3>2, ApplyingTransition
  <2>10. CASE CleanupList(m) \/ cleanupAnnotatedChildren(m)
    BY <2>10 DEF Transition
  <2> QED
    BY <1>3, <2>1, <2>2, <2>3, <2>4, <2>5, <2>6, <2>7, <2>8, <2>9, <2>10 DEF Work
<1>4. ASSUME NEW s \in Sources, Take(m, s) PROVE Transition(m)
  <2>1. src[s] \in SourceObj
    BY DEF TypeOK
  <2>2. ASSUME NEW step \in Steps, w' = [w EXCEPT ![m] = Start(s, step)]
        PROVE  w'[m].pc = step /\ w'[m].key = s /\ w'[m].snap = src[s]
    <3>1. Start(s, step).pc = step /\ Start(s, step).key = s /\ Start(s, step).snap = src[s]
      BY DEF Start, Idle
    <3> QED
      BY <2>2, <3>1 DEF TypeOK
  <2>3. CASE ReconcileGone(m, s)
    BY <1>2, <2>3 DEF ReconcileGone, Dequeue
  <2>4. CASE ReconcileLive(m, s)
    <3> DEFINE step == IF src[s].fin THEN "map" ELSE "addFinalizer"
    <3>1. step \in Steps /\ src[s].live /\ src' = src /\ w' = [w EXCEPT ![m] = Start(s, step)]
      BY <2>4 DEF ReconcileLive, Dequeue, Steps
    <3>2. w'[m].pc = step /\ w'[m].key = s /\ w'[m].snap = src[s]
      BY Zenon, <2>2, <3>1
    <3>3. CASE src[s].fin
      <4>1. w'[m].pc = "map" /\ StillHeld(w'[m].key)
        BY Zenon, <3>1, <3>2, <3>3 DEF StillHeld
      <4> QED
        BY Zenon, <4>1 DEF Transition, Applying
    <3>4. CASE ~src[s].fin
      <4>1. w'[m].pc = "addFinalizer" /\ w'[m].snap.live
        BY <3>1, <3>2, <3>4
      <4> QED
        BY <4>1 DEF Transition
    <3> QED
      BY <3>3, <3>4
  <2>5. CASE ReconcileDelete(m, s)
    <3>1. w' = [w EXCEPT ![m] = Start(s, "cleanupList")] /\ "cleanupList" \in Steps
      BY <2>5 DEF ReconcileDelete, Dequeue, Steps
    <3>2. w'[m].pc = "cleanupList"
      BY Zenon, <2>2, <3>1
    <3> QED
      BY <3>2 DEF Transition
  <2> QED
    BY <1>4, <2>3, <2>4, <2>5 DEF Take
<1>5. ASSUME NEW s \in Sources, NEW obj, WriteSource(s, obj) PROVE Transition(m)
  <2>1. w' = Outdate(w, s)
    BY <1>5 DEF WriteSource
  <2> QED
    BY Zenon, <2>1, OutdateType DEF Transition, SameWork
<1>6. CASE Restart
  BY Zenon, <1>6, IdleType DEF Restart, Transition
<1>7. CASE CallFails(m)
  BY <1>2, <1>7 DEF CallFails, Finish
<1>8. CASE \/ \E c \in Children : CollectChild(c) \/ ChildStatus(c) \/ DropChild(c)
           \/ \E v \in Lcm : SetLCM(v)
           \/ \E k \in Kinds : ServeKind(k)
  BY Zenon, <1>1, <1>8 DEF CollectChild, ChildStatus, DropChild, SetLCM, ServeKind
<1> QED
  BY <1>3, <1>4, <1>5, <1>6, <1>7, <1>8, WriteSourceStep DEF Next, Environment, OneMapping

SameOrigin(new, old) == new.by = old.by /\ new.map = old.map

\* Only an apply gives a child a new provenance.
LEMMA ProvenanceKept ==
  ASSUME TypeOK, Next, \A n \in Mappings : ~ApplyOne(n), NEW c \in Children
  PROVE  child'[c] = None \/ (child[c] # None /\ SameOrigin(child'[c], child[c]))
<1>1. ASSUME child' = child PROVE child'[c] = None \/ (child[c] # None /\ SameOrigin(child'[c], child[c]))
  BY <1>1 DEF SameOrigin
<1>2. ASSUME NEW d \in Children, NEW obj, child' = [child EXCEPT ![d] = obj],
             obj = None \/ (child[d] # None /\ SameOrigin(obj, child[d]))
      PROVE  child'[c] = None \/ (child[c] # None /\ SameOrigin(child'[c], child[c]))
  BY <1>2 DEF TypeOK, SameOrigin
<1>3. CASE \E n \in Mappings : APIsReady(n) \/ PruneList(n) \/ CleanupList(n)
  BY <1>1, <1>3 DEF APIsReady, PruneList, CleanupList
<1>4. ASSUME NEW n \in Mappings, pruneStaleChildren(n) \/ cleanupAnnotatedChildren(n)
      PROVE  child'[c] = None \/ (child[c] # None /\ SameOrigin(child'[c], child[c]))
  <2>1. w[n].found \subseteq Children
    BY DEF TypeOK, Reconcile
  <2> QED
    BY Zenon, <1>2, <1>4, <2>1 DEF pruneStaleChildren, cleanupAnnotatedChildren, DeleteFound, SetChild
<1>5. ASSUME NEW d \in Children, CollectChild(d) \/ DropChild(d)
      PROVE  child'[c] = None \/ (child[c] # None /\ SameOrigin(child'[c], child[c]))
  BY Zenon, <1>2, <1>5 DEF CollectChild, DropChild, SetChild
<1>6. ASSUME NEW d \in Children, ChildStatus(d)
      PROVE  child'[c] = None \/ (child[c] # None /\ SameOrigin(child'[c], child[c]))
  <2>1. child[d] \in ChildObj /\ child[d] # None
    BY <1>6 DEF ChildStatus, TypeOK
  <2>2. SameOrigin([child[d] EXCEPT !.ready = ~@], child[d])
    BY <2>1 DEF ChildObj, SameOrigin
  <2> QED
    BY Zenon, <1>2, <1>6, <2>1, <2>2 DEF ChildStatus, SetChild
<1> QED
  BY Zenon, <1>1, <1>3, <1>4, <1>5, <1>6, OtherSteps DEF Aside

LEMMA ServedGrows ==
  ASSUME Next
  PROVE  served \subseteq served'
<1>1. ASSUME NEW m \in Mappings, Work(m) PROVE served' = served
  <2>1. CASE AddFinalizer(m) \/ Conflict(m) \/ MapFails(m) \/ NothingEmitted(m) \/ WaitForLCM(m)
    BY <2>1 DEF AddFinalizer, Conflict, MapFails, NothingEmitted, WaitForLCM, Requeue
  <2>2. CASE LCMOpen(m) \/ WaitForAPIs(m) \/ APIsReady(m) \/ ApplyOne(m) \/ PruneList(m)
    BY <2>2 DEF LCMOpen, WaitForAPIs, APIsReady, ApplyOne, PruneList, Requeue
  <2>3. CASE pruneStaleChildren(m) \/ cleanupAnnotatedChildren(m) \/ CleanupList(m)
    BY Zenon, <2>3 DEF pruneStaleChildren, cleanupAnnotatedChildren, CleanupList, DeleteFound
  <2>4. CASE MirrorNothing(m) \/ MirrorList(m) \/ UpdateStatus(m) \/ RemoveFinalizer(m)
    BY <2>4 DEF MirrorNothing, MirrorList, UpdateStatus, RemoveFinalizer
  <2> QED
    BY <1>1, <2>1, <2>2, <2>3, <2>4 DEF Work
<1>2. ASSUME NEW m \in Mappings, NEW s \in Sources, Take(m, s) PROVE served' = served
  BY <1>2 DEF Take, ReconcileGone, ReconcileLive, ReconcileDelete, Dequeue
<1>3. ASSUME NEW c \in Children, CollectChild(c) \/ ChildStatus(c) \/ DropChild(c)
      PROVE  served' = served
  BY <1>3 DEF CollectChild, ChildStatus, DropChild
<1>4. ASSUME NEW s \in Sources,
             CreateSource(s) \/ EditSource(s) \/ DeleteSource(s) \/ ReportReady(s)
      PROVE  served' = served
  BY Zenon, <1>4 DEF CreateSource, EditSource, DeleteSource, ReportReady, WriteSource
<1>5. ASSUME NEW m \in Mappings, CallFails(m) PROVE served' = served
  BY <1>5 DEF CallFails, Requeue
<1>6. ASSUME NEW v \in Lcm, SetLCM(v) PROVE served' = served
  BY <1>6 DEF SetLCM
<1>7. ASSUME NEW k \in Kinds, ServeKind(k) PROVE served \subseteq served'
  BY <1>7 DEF ServeKind
<1>8. Restart => served' = served
  BY DEF Restart
<1> QED
  BY <1>1, <1>2, <1>3, <1>4, <1>5, <1>6, <1>7, <1>8 DEF Next, Environment

LEMMA GuardStep ==
  ASSUME OneMapping
  PROVE  TypeOK /\ FreshCopy /\ Guard /\ [Next]_vars => Guard'
<1> SUFFICES ASSUME TypeOK, FreshCopy, Guard, [Next]_vars PROVE Guard'
  OBVIOUS
<1>1. CASE UNCHANGED vars
  BY Zenon, <1>1 DEF vars, Guard, Held, AnnotatedBy
<1>2. ASSUME NEW m \in Mappings, RemoveFinalizer(m) PROVE Guard'
  <2> DEFINE s == w[m].key
  <2>1. s \in Sources /\ w[m].pc = "removeFinalizer"
    BY Zenon, <1>2, RunningKey DEF RemoveFinalizer
  <2>2. Outdate(w, s) \in [Mappings -> Reconcile]
    BY Zenon, <2>1, OutdateType
  <2>3. /\ child' = child /\ served' = served
        /\ \A x \in Sources \ {s} : src'[x] = src[x]
        /\ w' = [Outdate(w, s) EXCEPT ![m] = Idle]
    BY <1>2 DEF RemoveFinalizer, TypeOK
  <2>4. \A n \in Mappings : w'[n].pc = "idle"
    BY <2>2, <2>3, IdleType DEF OneMapping
  <2>5. ASSUME NEW c \in Children, Annotated(c, child[c])
        PROVE  StillHeld(child[c].by)
    <3>1. child[c].by \in Sources
      BY Zenon, <2>5 DEF Annotated, TypeOK, ChildObj
    <3>2. child[c].by # s
      BY <2>1, <2>5 DEF Guard, AnnotatedBy
    <3> QED
      BY Zenon, <2>3, <2>5, <3>1, <3>2 DEF Guard, Held, StillHeld
  <2>6. \A c \in Children : child'[c] # None => KindOf(c) \in served'
    BY Zenon, <2>3 DEF Guard
  <2>7. \A c \in Children : Annotated(c, child'[c]) => StillHeld(child'[c].by)
    BY Zenon, <2>3, <2>5
  <2> QED
    BY Zenon, <2>4, <2>6, <2>7 DEF Guard, Held, StillHeld, Annotated, Applying
<1>3. ASSUME NEW m \in Mappings, ApplyOne(m) PROVE Guard'
  <2> DEFINE c == Head(w[m].todo)
             obj == stampOwner(m, w[m].key, w[m].snap.uid, c)
  <2>1. /\ w[m] \in Reconcile /\ w[m].todo \in Seq(Children) /\ w[m].todo # <<>>
        /\ w[m].pc = "apply" /\ src' = src /\ served' = served
    BY <1>3 DEF ApplyOne, TypeOK, Reconcile
  <2>2. c \in Children /\ c = w[m].todo[1] /\ 1 \in 1..Len(w[m].todo)
    BY <2>1
  <2>3. KindOf(c) \in served /\ Held(w[m].key)
    BY Zenon, <2>1, <2>2 DEF Guard, Applying
  <2>4. child' = [child EXCEPT ![c] = obj] /\ obj.by = w[m].key
    BY <1>3 DEF ApplyOne, SetChild, stampOwner
  <2>5. /\ w'[m].todo = Tail(w[m].todo) /\ w'[m].key = w[m].key
        /\ w'[m].pc \in {"apply", "pruneList", "mirrorList"}
    BY <1>3, <2>1 DEF ApplyOne, TypeOK, Reconcile, AfterApply
  <2> HIDE DEF c, obj
  <2>6. \A d \in Children : child'[d] = IF d = c THEN obj ELSE child[d]
    BY Zenon, <2>4 DEF TypeOK
  <2>7. ASSUME NEW d \in Children, Annotated(d, child'[d]) PROVE StillHeld(child'[d].by)
    <3>1. CASE d = c
      BY Zenon, <2>1, <2>3, <2>4, <2>6, <3>1 DEF Held, StillHeld
    <3>2. CASE d # c
      <4>1. child'[d] = child[d] /\ Held(child[d].by)
        BY Zenon, <2>6, <2>7, <3>2 DEF Guard
      <4> QED
        BY <2>1, <4>1 DEF Held, StillHeld
    <3> QED
      BY <3>1, <3>2
  <2>8. \A d \in Children : child'[d] # None => KindOf(d) \in served'
    BY Zenon, <2>1, <2>3, <2>6 DEF Guard
  <2>9. ASSUME NEW i \in 1..Len(w'[m].todo) PROVE KindOf(w'[m].todo[i]) \in served'
    <3>1. i + 1 \in 1..Len(w[m].todo) /\ w'[m].todo[i] = w[m].todo[i + 1]
      BY Zenon, <2>1, <2>5, TailShift
    <3> QED
      BY Zenon, <2>1, <3>1 DEF Guard
  <2>10. StillHeld(w'[m].key)
    BY Zenon, <2>1, <2>3, <2>5 DEF Held, StillHeld
  <2>11. \A n \in Mappings : n = m
    BY DEF OneMapping
  <2> QED
    BY Zenon, <2>5, <2>7, <2>8, <2>9, <2>10, <2>11 DEF Guard, Held, StillHeld, Annotated
<1>4. ASSUME Next, \A n \in Mappings : ~RemoveFinalizer(n) /\ ~ApplyOne(n) PROVE Guard'
  <2>1. \A s \in Sources : Held(s) => StillHeld(s)
    BY <1>4, HoldKept
  <2>2. \A c \in Children : child'[c] = None \/ (child[c] # None /\ child'[c].by = child[c].by)
    BY <1>4, ProvenanceKept DEF SameOrigin
  <2>3. \A m \in Mappings : Transition(m)
    BY <1>4, WorkerTransition
  <2>4. served \subseteq served'
    BY <1>4, ServedGrows
  <2>5. \A c \in Children : child[c] # None => child[c].by \in Sources
    BY DEF TypeOK, ChildObj
  <2>6. ASSUME NEW c \in Children, Annotated(c, child'[c])
        PROVE  StillHeld(child'[c].by)
    BY Zenon, <2>1, <2>2, <2>5, <2>6 DEF Guard, Annotated
  <2>7. \A c \in Children : child'[c] # None => KindOf(c) \in served'
    BY Zenon, <2>2, <2>4 DEF Guard
  <2>8. ASSUME NEW m \in Mappings
        PROVE  /\ w'[m].pc \in Applying => StillHeld(w'[m].key)
               /\ w'[m].pc = "addFinalizer" => w'[m].snap.live
               /\ w'[m].pc \in {"cleanup", "removeFinalizer"} =>
                    \A c \in Children : AnnotatedBy(c, w[m].key)' => c \in w'[m].found
               /\ w'[m].pc = "removeFinalizer" => w'[m].found = {}
               /\ w'[m].pc = "apply" =>
                    \A i \in 1..Len(w'[m].todo) : KindOf(w'[m].todo[i]) \in served'
    <3>1. CASE SameWork(m) /\ w'[m].snap = w[m].snap
      <4>1. w'[m].pc = w[m].pc /\ w'[m].key = w[m].key
        BY <3>1 DEF SameWork
      <4>2. w'[m].pc \in Applying => w[m].key \in Sources
        BY <4>1, RunningKey DEF Applying
      <4>3. \A c \in Children : AnnotatedBy(c, w[m].key)' => AnnotatedBy(c, w[m].key)
        BY <2>2, <4>1 DEF AnnotatedBy, Annotated
      <4>4. w'[m].pc \in Applying => StillHeld(w'[m].key)
        BY Zenon, <2>1, <4>1, <4>2 DEF Guard
      <4> QED
        BY Zenon, <2>4, <3>1, <4>3, <4>4 DEF Guard, SameWork
    <3>2. CASE w'[m].pc \in {"idle", "cleanupList"}
      BY Zenon, <3>2 DEF Applying
    <3>3. CASE w'[m].pc = "addFinalizer" /\ w'[m].snap.live
      BY Zenon, <3>3 DEF Applying
    <3>4. CASE /\ w'[m].pc \in Applying /\ StillHeld(w'[m].key)
               /\ w'[m].pc = "apply" =>
                    \A i \in 1..Len(w'[m].todo) : KindOf(w'[m].todo[i]) \in served
      BY Zenon, <2>4, <3>4 DEF Applying
    <3>5. CASE CleanupList(m)
      <4> DEFINE cs == {c \in listChildObjects(m, w[m].key) : AnnotatedBy(c, w[m].key)}
                 step == IF cs = {} THEN "removeFinalizer" ELSE "cleanup"
      <4>1. child' = child /\ w' = [w EXCEPT ![m] = [w[m] EXCEPT !.found = cs, !.pc = step]]
        BY <3>5 DEF CleanupList
      <4>2. ASSUME NEW c \in Children, AnnotatedBy(c, w[m].key) PROVE c \in cs
        <5>1. child[c] # None /\ child[c].by = w[m].key
          BY <4>2 DEF AnnotatedBy, Annotated
        <5>2. child[c].map \in Mappings
          BY Zenon, <5>1 DEF TypeOK, ChildObj
        <5>3. KindOf(c) \in served /\ child[c].map = m
          BY Zenon, <5>1, <5>2 DEF Guard, OneMapping
        <5> QED
          BY Zenon, <4>2, <5>1, <5>3 DEF listChildObjects
      <4> HIDE DEF cs
      <4>3. w'[m].found = cs /\ w'[m].pc = step /\ w'[m].key = w[m].key
        BY <4>1 DEF TypeOK, Reconcile
      <4>4. \A c \in Children : AnnotatedBy(c, w[m].key)' => AnnotatedBy(c, w[m].key)
        BY <4>1, <4>3 DEF AnnotatedBy, Annotated
      <4> QED
        BY Zenon, <4>2, <4>3, <4>4 DEF Applying
    <3>6. CASE cleanupAnnotatedChildren(m)
      <4>1. PICK d \in w[m].found :
              /\ child' = [child EXCEPT ![d] = None]
              /\ w' = [w EXCEPT ![m] = [w[m] EXCEPT
                   !.found = @ \ {d}, !.pc = IF w[m].found = {d} THEN "removeFinalizer" ELSE @]]
        BY Zenon, <3>6 DEF cleanupAnnotatedChildren, DeleteFound, SetChild
      <4>2. w[m].pc = "cleanup" /\ w[m].found \subseteq Children
        BY <3>6 DEF cleanupAnnotatedChildren, TypeOK, Reconcile
      <4>3. /\ w'[m].found = w[m].found \ {d} /\ w'[m].key = w[m].key
            /\ w'[m].pc = IF w[m].found = {d} THEN "removeFinalizer" ELSE "cleanup"
        BY <4>1, <4>2 DEF TypeOK, Reconcile
      <4>4. child'[d] = None
        BY <4>1, <4>2 DEF TypeOK
      <4>5. ASSUME NEW c \in Children, AnnotatedBy(c, w[m].key)'
            PROVE  AnnotatedBy(c, w[m].key) /\ c # d
        <5>1. child'[c] # None /\ ~CanOwn(child'[c].by, c) /\ child'[c].by = w'[m].key
          BY <4>5 DEF AnnotatedBy, Annotated
        <5>2. child[c] # None /\ child'[c].by = child[c].by
          BY <2>2, <5>1
        <5> QED
          BY <4>3, <4>4, <5>1, <5>2 DEF AnnotatedBy, Annotated
      <4>6. \A c \in Children : AnnotatedBy(c, w[m].key) => c \in w[m].found
        BY Zenon, <4>2 DEF Guard
      <4> QED
        BY Zenon, <4>3, <4>5, <4>6 DEF Applying
    <3>7. Transition(m)
      BY <2>3
    <3> QED
      BY <3>1, <3>2, <3>3, <3>4, <3>5, <3>6, <3>7, Zenon DEF Transition
  <2> QED
    BY Zenon, <2>6, <2>7, <2>8 DEF Guard, Held, StillHeld, Annotated
<1> QED
  BY <1>1, <1>2, <1>3, <1>4

\* With one mapping, an annotation-tracked child never exists without a live
\* source that carries the finalizer, so a deletion always passes through
\* cleanupAnnotatedChildren before the source disappears, across edits,
\* deletions, conflicts, failing calls and restarts at any point.
THEOREM AnnotatedChildrenAreGuarded ==
  ASSUME OneMapping
  PROVE  Spec => []AnnotatedChildGuarded
<1>1. Init => Guard
  BY Zenon, IdleType DEF Init, Guard, Annotated, Applying
<1>2. TypeOK /\ FreshCopy /\ Guard /\ [Next]_vars => Guard'
  BY GuardStep
<1>3. Guard => AnnotatedChildGuarded
  BY Zenon DEF Guard, Held, AnnotatedChildGuarded
<1> QED
  BY <1>1, <1>2, <1>3, CopiesFresh, PTL DEF Spec

--------------------------------------------------------------------------------
(* The ready condition *)

\* The children mapping m can emit for source s.
EmitsFor(m, s) ==
  {c \in Children : \E p \in Specs \cup {None} :
     \E i \in DOMAIN Emit(m, s, p) : c = Emit(m, s, p)[i]}

\* A child is only emitted for sources of one name: the mappings name their
\* children after the source.
NamedAfterSource ==
  \A m \in Mappings : \A s, t \in Sources :
    EmitsFor(m, s) \cap EmitsFor(m, t) # {} => SourceName(s) = SourceName(t)

\* Every child was emitted by the mapping and for the source it is labelled
\* with, and the API server serves its kind; so is everything still to be applied.
Placed ==
  /\ \A c \in Children : child[c] # None =>
       c \in EmitsFor(child[c].map, child[c].by) /\ KindOf(c) \in served
  /\ \A m \in Mappings : w[m].pc = "apply" =>
       \A i \in 1..Len(w[m].todo) :
         w[m].todo[i] \in EmitsFor(m, w[m].key) /\ KindOf(w[m].todo[i]) \in served

\* A verdict only exists between the listing and the status update.
Undecided ==
  \A m \in Mappings : w[m].pc # "updateStatus" => w[m].verdict = "none"

\* How the verdict of a worker can change in a step.
VerdictMove(n) ==
  \/ /\ w'[n].verdict = w[n].verdict
     /\ w[n].pc # "updateStatus" \/ w'[n].pc = "updateStatus"
  \/ w'[n].verdict = "none"
  \/ MirrorList(n) /\ w'[n].pc = "updateStatus"

LEMMA OutdateVerdict ==
  ASSUME TypeOK, NEW s \in Sources, NEW n \in Mappings
  PROVE  Outdate(w, s)[n].verdict = w[n].verdict
<1>1. \A r \in Reconcile : [r EXCEPT !.stale = TRUE].verdict = r.verdict
  BY DEF Reconcile
<1>2. w[n] \in Reconcile
  BY DEF TypeOK
<1> QED
  BY <1>1, <1>2 DEF Outdate

LEMMA VerdictStep ==
  ASSUME TypeOK, Next, NEW n \in Mappings
  PROVE  VerdictMove(n)
<1>0. w \in [Mappings -> Reconcile] /\ \A m \in Mappings : w[m] \in Reconcile
  BY DEF TypeOK
<1>1. ASSUME w' = w PROVE VerdictMove(n)
  BY <1>1 DEF VerdictMove
<1>3. ASSUME NEW m \in Mappings, NEW r, w' = [w EXCEPT ![m] = r],
             r.verdict = "none" \/ (r.verdict = w[m].verdict /\ w[m].pc # "updateStatus")
      PROVE  VerdictMove(n)
  <2>1. w'[n] = IF n = m THEN r ELSE w[n]
    BY <1>0, <1>3
  <2> QED
    BY <1>3, <2>1 DEF VerdictMove
<1>4. ASSUME NEW m \in Mappings, NEW s \in Sources, NEW r,
             w' = [Outdate(w, s) EXCEPT ![m] = r],
             r.verdict = "none" \/ (r.verdict = w[m].verdict /\ w[m].pc # "updateStatus")
      PROVE  VerdictMove(n)
  <2> DEFINE o == Outdate(w, s)
  <2>1. o \in [Mappings -> Reconcile]
    BY Zenon, OutdateType
  <2>2. \A k \in Mappings : o[k].verdict = w[k].verdict /\ o[k].pc = w[k].pc
    BY Zenon, OutdateType, OutdateVerdict
  <2>3. w' = [o EXCEPT ![m] = r]
    BY <1>4
  <2> HIDE DEF o
  <2>4. w'[n] = IF n = m THEN r ELSE o[n]
    BY <2>1, <2>3
  <2> QED
    BY <1>4, <2>2, <2>4 DEF VerdictMove
<1>5. Idle.verdict = "none" /\ \A s \in Sources, step \in Steps : Start(s, step).verdict = "none"
  BY DEF Idle, Start
<1>6. ASSUME NEW m \in Mappings, Work(m) PROVE VerdictMove(n)
  <2>1. CASE AddFinalizer(m)
    <3> DEFINE r == [w[m] EXCEPT !.pc = "map", !.snap = [w[m].snap EXCEPT !.fin = TRUE]]
    <3>1. w[m].key \in Sources /\ w[m].pc # "updateStatus"
      BY <2>1, RunningKey DEF AddFinalizer
    <3>2. w' = [Outdate(w, w[m].key) EXCEPT ![m] = r]
      BY <2>1 DEF AddFinalizer
    <3>3. r.verdict = w[m].verdict
      BY <1>0 DEF Reconcile
    <3> HIDE DEF r
    <3> QED
      BY Zenon, <1>4, <3>1, <3>2, <3>3
  <2>2. CASE UpdateStatus(m) \/ RemoveFinalizer(m)
    <3>1. w[m].key \in Sources
      BY <2>2, RunningKey DEF UpdateStatus, RemoveFinalizer
    <3>2. w' = [Outdate(w, w[m].key) EXCEPT ![m] = Idle]
      BY <2>2 DEF UpdateStatus, RemoveFinalizer
    <3> QED
      BY <1>4, <1>5, <3>1, <3>2
  <2>3. CASE Conflict(m) \/ MapFails(m) \/ WaitForLCM(m) \/ WaitForAPIs(m) \/ MirrorNothing(m)
    <3>1. w' = [w EXCEPT ![m] = Idle]
      BY Zenon, <2>3 DEF Conflict, MapFails, WaitForLCM, WaitForAPIs, MirrorNothing, Requeue, Finish
    <3> QED
      BY Zenon, <1>3, <1>5, <3>1
  <2>4. CASE NothingEmitted(m) \/ LCMOpen(m)
    <3>1. PICK step : w' = [w EXCEPT ![m] = [w[m] EXCEPT !.pc = step]]
      BY <2>4 DEF NothingEmitted, LCMOpen, Goto
    <3>2. [w[m] EXCEPT !.pc = step].verdict = w[m].verdict /\ w[m].pc # "updateStatus"
      BY <1>0, <2>4 DEF Reconcile, NothingEmitted, LCMOpen
    <3> QED
      BY Zenon, <1>3, <3>1, <3>2
  <2>5. CASE APIsReady(m) \/ ApplyOne(m)
    <3>1. PICK r : w' = [w EXCEPT ![m] = r] /\ r.verdict = w[m].verdict
      <4>1. ASSUME NEW q, NEW step
            PROVE  /\ [w[m] EXCEPT !.todo = q, !.pc = step].verdict = w[m].verdict
                   /\ [w[m] EXCEPT !.pc = step, !.todo = q].verdict = w[m].verdict
        BY <1>0 DEF Reconcile
      <4>2. CASE APIsReady(m)
        BY <4>1, <4>2, Zenon DEF APIsReady
      <4>3. CASE ApplyOne(m)
        <5>1. PICK q, step : w' = [w EXCEPT ![m] = [w[m] EXCEPT !.todo = q, !.pc = step]]
          BY Zenon, <4>3 DEF ApplyOne
        <5> DEFINE r == [w[m] EXCEPT !.todo = q, !.pc = step]
        <5>2. w' = [w EXCEPT ![m] = r] /\ r.verdict = w[m].verdict
          BY <4>1, <5>1
        <5> QED
          BY <5>2, Zenon
      <4> QED
        BY <2>5, <4>2, <4>3
    <3>2. w[m].pc # "updateStatus"
      BY <2>5 DEF APIsReady, ApplyOne
    <3> QED
      BY Zenon, <1>3, <3>1, <3>2
  <2>6. CASE PruneList(m) \/ CleanupList(m) \/ pruneStaleChildren(m) \/ cleanupAnnotatedChildren(m)
    <3>1. PICK cs, step : w' = [w EXCEPT ![m] = [w[m] EXCEPT !.found = cs, !.pc = step]]
      BY Zenon, <2>6 DEF PruneList, CleanupList, pruneStaleChildren, cleanupAnnotatedChildren, DeleteFound
    <3>2. [w[m] EXCEPT !.found = cs, !.pc = step].verdict = w[m].verdict /\ w[m].pc # "updateStatus"
      BY <1>0, <2>6
      DEF Reconcile, PruneList, CleanupList, pruneStaleChildren, cleanupAnnotatedChildren
    <3> QED
      BY Zenon, <1>3, <3>1, <3>2
  <2>7. CASE MirrorList(m)
    <3>1. w' = [w EXCEPT ![m] = [w[m] EXCEPT !.pc = "updateStatus", !.verdict = mirrorVerdict(m)]]
      BY <2>7 DEF MirrorList
    <3>2. CASE n = m
      <4>1. w'[n].pc = "updateStatus"
        BY <1>0, <3>1, <3>2 DEF Reconcile
      <4> QED
        BY <2>7, <3>2, <4>1 DEF VerdictMove
    <3>3. CASE n # m
      <4>1. w'[n] = w[n]
        BY <1>0, <3>1, <3>3
      <4> QED
        BY <4>1 DEF VerdictMove
    <3> QED
      BY <3>2, <3>3
  <2> QED
    BY <1>6, <2>1, <2>2, <2>3, <2>4, <2>5, <2>6, <2>7 DEF Work
<1>7. ASSUME NEW m \in Mappings, NEW s \in Sources, Take(m, s) PROVE VerdictMove(n)
  <2>1. PICK r : w' = [w EXCEPT ![m] = r] /\ r.verdict = "none"
    BY <1>5, <1>7 DEF Take, ReconcileGone, ReconcileLive, ReconcileDelete, Dequeue, Steps
  <2> QED
    BY Zenon, <1>3, <2>1
<1>8. ASSUME NEW c \in Children, CollectChild(c) \/ ChildStatus(c) \/ DropChild(c)
      PROVE  VerdictMove(n)
  BY <1>1, <1>8 DEF CollectChild, ChildStatus, DropChild
<1>9. ASSUME NEW s \in Sources, NEW obj, WriteSource(s, obj) PROVE VerdictMove(n)
  <2>1. w'[n].verdict = w[n].verdict /\ w'[n].pc = w[n].pc
    BY Zenon, <1>9, OutdateType, OutdateVerdict DEF WriteSource
  <2> QED
    BY <2>1 DEF VerdictMove
<1>10. ASSUME NEW m \in Mappings, CallFails(m) PROVE VerdictMove(n)
  BY Zenon, <1>3, <1>5, <1>10 DEF CallFails, Finish
<1>11. CASE Restart
  BY Zenon, <1>5, <1>11 DEF Restart, VerdictMove
<1>12. ASSUME NEW v, SetLCM(v) \/ ServeKind(v) PROVE VerdictMove(n)
  BY Zenon, <1>1, <1>12 DEF SetLCM, ServeKind
<1> QED
  BY <1>6, <1>7, <1>8, <1>9, <1>10, <1>11, <1>12, WriteSourceStep DEF Next, Environment

LEMMA UndecidedStep == TypeOK /\ Undecided /\ [Next]_vars => Undecided'
<1> SUFFICES ASSUME TypeOK, Undecided, [Next]_vars, NEW n \in Mappings,
                    w'[n].pc # "updateStatus"
             PROVE  w'[n].verdict = "none"
  BY DEF Undecided
<1>1. CASE UNCHANGED vars
  BY Zenon, <1>1 DEF vars, Undecided
<1>2. CASE Next
  BY <1>2, VerdictStep DEF VerdictMove, Undecided
<1> QED
  BY <1>1, <1>2

\* What a worker has to apply it had before, or computes with every API served.
LEMMA TodoStep ==
  ASSUME TypeOK, Next, NEW n \in Mappings, w'[n].pc = "apply"
  PROVE  \/ w[n].pc = "apply" /\ w'[n].key = w[n].key /\ w'[n].todo = w[n].todo
         \/ APIsReady(n) \/ ApplyOne(n)
<1> DEFINE Goal == \/ w[n].pc = "apply" /\ w'[n].key = w[n].key /\ w'[n].todo = w[n].todo
                   \/ APIsReady(n) \/ ApplyOne(n)
<1> SUFFICES Goal
  OBVIOUS
<1>1. \A m \in Mappings : w[m] \in Reconcile
  BY DEF TypeOK
<1>2. ASSUME w'[n] = w[n] PROVE Goal
  BY <1>2
<1>3. ASSUME Aside PROVE Goal
  BY <1>3 DEF Aside, SameWork
<1>4. ASSUME NEW m \in Mappings, NEW r, w' = [w EXCEPT ![m] = r],
             n = m => r.pc # "apply" \/ APIsReady(m) \/ ApplyOne(m)
      PROVE  Goal
  <2>1. w'[n] = IF n = m THEN r ELSE w[n]
    BY <1>4 DEF TypeOK
  <2> QED
    BY <1>4, <2>1
<1>5. ASSUME NEW m \in Mappings, APIsReady(m) \/ ApplyOne(m) PROVE Goal
  BY <1>4, <1>5, Zenon DEF APIsReady, ApplyOne
<1>6. ASSUME NEW m \in Mappings, NEW cs, NEW step \in Steps \ {"apply"},
             w' = [w EXCEPT ![m] = [w[m] EXCEPT !.found = cs, !.pc = step]]
      PROVE  Goal
  <2>1. [w[m] EXCEPT !.found = cs, !.pc = step].pc = step
    BY <1>1 DEF Reconcile
  <2> QED
    BY <1>4, <1>6, <2>1
<1>7. ASSUME NEW m \in Mappings, PruneList(m) \/ CleanupList(m) PROVE Goal
  <2>1. CASE PruneList(m)
    <3> DEFINE step == IF staleChildren(m) = {} THEN "mirrorList" ELSE "prune"
    <3>1. w' = [w EXCEPT ![m] = [w[m] EXCEPT !.found = staleChildren(m), !.pc = step]]
      BY <2>1 DEF PruneList
    <3>2. step \in Steps \ {"apply"}
      BY DEF Steps
    <3> HIDE DEF step
    <3> QED
      BY Zenon, <1>6, <3>1, <3>2
  <2>2. CASE CleanupList(m)
    <3> DEFINE cs == {c \in listChildObjects(m, w[m].key) : AnnotatedBy(c, w[m].key)}
               step == IF cs = {} THEN "removeFinalizer" ELSE "cleanup"
    <3>1. w' = [w EXCEPT ![m] = [w[m] EXCEPT !.found = cs, !.pc = step]]
      BY <2>2 DEF CleanupList
    <3>2. step \in Steps \ {"apply"}
      BY DEF Steps
    <3> HIDE DEF cs, step
    <3> QED
      BY Zenon, <1>6, <3>1, <3>2
  <2> QED
    BY Zenon, <1>7, <2>1, <2>2
<1>8. ASSUME NEW m \in Mappings, pruneStaleChildren(m) \/ cleanupAnnotatedChildren(m) PROVE Goal
  <2>1. PICK next \in Steps \ {"apply"} : DeleteFound(m, next) /\ w[m].pc \in Steps \ {"apply"}
    BY <1>8 DEF pruneStaleChildren, cleanupAnnotatedChildren, Steps
  <2>2. PICK c \in w[m].found :
          w' = [w EXCEPT ![m] = [w[m] EXCEPT
            !.found = @ \ {c}, !.pc = IF w[m].found = {c} THEN next ELSE @]]
    BY Zenon, <2>1 DEF DeleteFound
  <2> DEFINE cs == w[m].found \ {c}
             step == IF w[m].found = {c} THEN next ELSE w[m].pc
  <2>3. w' = [w EXCEPT ![m] = [w[m] EXCEPT !.found = cs, !.pc = step]]
    BY <2>2
  <2>4. step \in Steps \ {"apply"}
    BY <2>1
  <2> HIDE DEF cs, step
  <2> QED
    BY Zenon, <1>6, <2>3, <2>4
<1>9. ASSUME NEW c \in Children, CollectChild(c) \/ ChildStatus(c) \/ DropChild(c) PROVE Goal
  BY <1>2, <1>9 DEF CollectChild, ChildStatus, DropChild
<1> QED
  BY Zenon, <1>3, <1>5, <1>7, <1>8, <1>9, OtherSteps


LEMMA PlacedStep == TypeOK /\ Placed /\ [Next]_vars => Placed'
<1> SUFFICES ASSUME TypeOK, Placed, [Next]_vars PROVE Placed'
  OBVIOUS
<1>1. CASE UNCHANGED vars
  <2>1. child' = child /\ w' = w /\ served' = served
    BY <1>1 DEF vars
  <2>2. \A c \in Children : child'[c] # None =>
          c \in EmitsFor(child'[c].map, child'[c].by) /\ KindOf(c) \in served'
    BY Zenon, <2>1 DEF Placed
  <2>3. \A m \in Mappings : w'[m].pc = "apply" =>
          \A i \in 1..Len(w'[m].todo) :
            w'[m].todo[i] \in EmitsFor(m, w'[m].key) /\ KindOf(w'[m].todo[i]) \in served'
    BY Zenon, <2>1 DEF Placed
  <2> QED
    BY Zenon, <2>2, <2>3 DEF Placed, EmitsFor
<1>2. CASE Next
  <2>0. served \subseteq served'
    BY <1>2, ServedGrows
  <2>1. ASSUME NEW m \in Mappings, ApplyOne(m)
        PROVE  /\ w[m].todo \in Seq(Children) /\ w[m].todo # <<>> /\ w[m].pc = "apply"
               /\ Head(w[m].todo) \in Children
               /\ Head(w[m].todo) \in EmitsFor(m, w[m].key)
               /\ KindOf(Head(w[m].todo)) \in served
    <3>1. /\ w[m].todo \in Seq(Children) /\ w[m].todo # <<>> /\ w[m].pc = "apply"
      BY <2>1 DEF ApplyOne, TypeOK, Reconcile
    <3>2. /\ Head(w[m].todo) = w[m].todo[1] /\ 1 \in 1..Len(w[m].todo)
          /\ Head(w[m].todo) \in Children
      BY <3>1
    <3>3. w[m].todo[1] \in EmitsFor(m, w[m].key) /\ KindOf(w[m].todo[1]) \in served
      BY Zenon, <3>1, <3>2 DEF Placed
    <3> QED
      BY Zenon, <3>1, <3>2, <3>3
  <2>2. ASSUME NEW c \in Children, child'[c] # None
        PROVE  c \in EmitsFor(child'[c].map, child'[c].by) /\ KindOf(c) \in served'
    <3>1. ASSUME NEW m \in Mappings, ApplyOne(m)
          PROVE  c \in EmitsFor(child'[c].map, child'[c].by) /\ KindOf(c) \in served
      <4> DEFINE d == Head(w[m].todo)
                 obj == stampOwner(m, w[m].key, w[m].snap.uid, d)
      <4>1. child' = [child EXCEPT ![d] = obj]
        BY <3>1 DEF ApplyOne, SetChild
      <4>2. d \in Children /\ d \in EmitsFor(m, w[m].key) /\ KindOf(d) \in served
        BY <2>1, <3>1
      <4>3. obj.map = m /\ obj.by = w[m].key
        BY DEF stampOwner
      <4> HIDE DEF d, obj
      <4>4. child'[c] = IF c = d THEN obj ELSE child[c]
        BY <4>1 DEF TypeOK
      <4> QED
        BY <2>2, <4>2, <4>3, <4>4 DEF Placed
    <3>2. CASE \A m \in Mappings : ~ApplyOne(m)
      <4>1. /\ child[c] # None /\ child'[c].by = child[c].by /\ child'[c].map = child[c].map
        BY <1>2, <2>2, <3>2, ProvenanceKept DEF SameOrigin
      <4> QED
        BY Zenon, <2>0, <4>1 DEF Placed
    <3> QED
      BY <2>0, <3>1, <3>2
  <2>3. ASSUME NEW n \in Mappings, w'[n].pc = "apply", NEW i \in 1..Len(w'[n].todo)
        PROVE  w'[n].todo[i] \in EmitsFor(n, w'[n].key) /\ KindOf(w'[n].todo[i]) \in served
    <3>1. w[n] \in Reconcile
      BY DEF TypeOK
    <3>2. CASE w[n].pc = "apply" /\ w'[n].key = w[n].key /\ w'[n].todo = w[n].todo
      BY Zenon, <2>3, <3>2 DEF Placed
    <3>3. CASE APIsReady(n)
      <4> DEFINE q == Emit(n, w[n].key, w[n].snap.spec)
      <4>1. w'[n].todo = q /\ w'[n].key = w[n].key
        BY <3>1, <3>3 DEF APIsReady, emitted, TypeOK, Reconcile
      <4>2. w[n].key \in Sources /\ w[n].snap.spec \in Specs \cup {None}
        BY <3>3, RunningKey DEF APIsReady, SourceObj
      <4>3. q \in Seq(Children)
        BY Zenon, <4>2, ConstantsAssumption
      <4>4. i \in DOMAIN q /\ q[i] \in Children
        BY <2>3, <4>1, <4>3
      <4>5. KindOf(q[i]) \in served
        BY <3>3, <4>4 DEF APIsReady, TargetsInstalled, desired, emitted
      <4> QED
        BY Zenon, <4>1, <4>2, <4>4, <4>5 DEF EmitsFor
    <3>4. CASE ApplyOne(n)
      <4>1. w'[n].todo = Tail(w[n].todo) /\ w'[n].key = w[n].key
        BY <3>1, <3>4 DEF ApplyOne, TypeOK, Reconcile
      <4>2. w[n].todo \in Seq(Children) /\ w[n].todo # <<>> /\ w[n].pc = "apply"
        BY <2>1, <3>4
      <4>3. i + 1 \in 1..Len(w[n].todo) /\ Tail(w[n].todo)[i] = w[n].todo[i + 1]
        BY <2>3, <4>1, <4>2, TailShift
      <4> QED
        BY Zenon, <4>1, <4>2, <4>3 DEF Placed
    <3> QED
      BY Zenon, <1>2, <2>3, <3>2, <3>3, <3>4, TodoStep
  <2> QED
    BY Zenon, <2>0, <2>2, <2>3 DEF Placed, EmitsFor
<1> QED
  BY <1>1, <1>2

\* The body of ReadyMeansChildrenReady, for one mapping.
ReadyIsTrue(m) ==
  (w[m].pc = "mirrorList" /\ w'[m].verdict = "True") =>
    \A c \in desired(m) : child[c] = None \/ child[c].ready \/ KindOf(c) \in NonBlocking

\* The listing finds every child the source emits that exists.
LEMMA ListingIsComplete ==
  ASSUME DisjointTargets, NamedAfterSource, TypeOK, Placed,
         NEW m \in Mappings, w[m].pc = "mirrorList", NEW c \in desired(m), child[c] # None
  PROVE  c \in listChildObjects(m, w[m].key)
<1> DEFINE s == w[m].key
           q == Emit(m, s, w[m].snap.spec)
<1>1. s \in Sources /\ w[m].snap.spec \in Specs \cup {None}
  BY RunningKey DEF SourceObj
<1>2. q \in Seq(Children)
  BY <1>1, ConstantsAssumption
<1>3. PICK i \in DOMAIN q : c = q[i]
  BY DEF desired, emitted
<1>4. c \in Children
  BY <1>2, <1>3
<1>5. c \in EmitsFor(m, s)
  BY <1>1, <1>3, <1>4 DEF EmitsFor
<1>6. child[c] \in ChildObj
  BY <1>4 DEF TypeOK
<1>7. child[c].map \in Mappings /\ child[c].by \in Sources
  BY <1>6 DEF ChildObj
<1> HIDE DEF q, s
<1>8. c \in EmitsFor(child[c].map, child[c].by) /\ KindOf(c) \in served
  BY <1>4 DEF Placed
<1>9. \A n \in Mappings, t \in Sources : EmitsFor(n, t) \subseteq Emits(n)
  BY DEF EmitsFor, Emits
<1>10. child[c].map = m
  BY <1>1, <1>5, <1>7, <1>8, <1>9 DEF DisjointTargets
<1>11. SourceName(child[c].by) = SourceName(s)
  BY <1>1, <1>5, <1>7, <1>8, <1>10 DEF NamedAfterSource
<1> QED
  BY <1>4, <1>8, <1>10, <1>11 DEF listChildObjects, s

LEMMA ReadyStep ==
  ASSUME DisjointTargets, NamedAfterSource, TypeOK, Placed, Undecided, Next,
         NEW m \in Mappings
  PROVE  ReadyIsTrue(m)
<1> SUFFICES ASSUME w[m].pc = "mirrorList", w'[m].verdict = "True",
                    NEW c \in desired(m), child[c] # None
             PROVE  child[c].ready \/ KindOf(c) \in NonBlocking
  BY DEF ReadyIsTrue
<1>1. w[m].verdict = "none"
  BY DEF Undecided
<1>2. MirrorList(m)
  BY <1>1, VerdictStep DEF VerdictMove
<1>3. w'[m].verdict = mirrorVerdict(m)
  BY <1>2 DEF MirrorList, TypeOK, Reconcile
<1>4. \A d \in listChildObjects(m, w[m].key) : child[d].ready \/ KindOf(d) \in NonBlocking
  BY <1>3 DEF mirrorVerdict, Verdict
<1> QED
  BY <1>4, ListingIsComplete

\* When no two mappings emit the same child and a child is only emitted for
\* sources of one name, the ready condition is decided True only while every
\* existing child the source emits is ready: the listing of mirrorStatus, by
\* mapping and source name over the served kinds, misses none of them.
THEOREM ReadyImpliesChildrenReady ==
  ASSUME DisjointTargets, NamedAfterSource
  PROVE  Spec => ReadyMeansChildrenReady
<1>1. Init => Placed /\ Undecided
  <2> SUFFICES ASSUME Init PROVE Placed /\ Undecided
    OBVIOUS
  <2>1. \A c \in Children : child[c] = None
    BY DEF Init
  <2>2. \A m \in Mappings : w[m] = Idle
    BY DEF Init
  <2>3. Idle.pc = "idle" /\ Idle.verdict = "none"
    BY DEF Idle
  <2> QED
    BY Zenon, <2>1, <2>2, <2>3 DEF Placed, Undecided
<1>2. TypeOK /\ Placed /\ Undecided /\ [Next]_vars => Placed' /\ Undecided'
  BY PlacedStep, UndecidedStep
<1>3. TypeOK /\ Placed /\ Undecided /\ [Next]_vars => [\A m \in Mappings : ReadyIsTrue(m)]_vars
  BY ReadyStep
<1> QED
  BY <1>1, <1>2, <1>3, TypeCorrect, PTL DEF Spec, ReadyMeansChildrenReady, ReadyIsTrue

================================================================================
