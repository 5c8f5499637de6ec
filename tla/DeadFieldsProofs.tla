---------------------------- MODULE DeadFieldsProofs ----------------------------
(***************************************************************************)
(* Only dead fields are lost on the way from the mapping document to the   *)
(* API server, for every document that is in order, every set of sources,  *)
(* kinds and CRDs and every number of attempts.                            *)
(***************************************************************************)
EXTENDS DeadFields, SequenceTheorems, TLAPS

\* The schemas of a kind that has had the CRDs ds.
Had(ds) == {d.served : d \in ds \ {None}} \cup {d.storage : d \in ds \ {None}}

\* The field at path p, or an object above it, is undeclared in schema s.
DeadIn(p, s) == Undeclared(s, Above(p) \cup {p}) # {}

\* What obj lacks of the emitted object o was dead in one of the CRDs ds.
Lacks(o, obj, ds) ==
    /\ DOMAIN obj \subseteq DOMAIN o.leaves
    /\ \A p \in DOMAIN o.leaves \ DOMAIN obj : \E s \in Had(ds) : DeadIn(p, s)

\* TypeOK does not say where the objects at work come from.  They are emitted by
\* the document for some source, the present one or an earlier, and what the
\* first of them lacks by now was dead in a CRD among crds.
Working(r, crds) ==
    /\ r = [pc |-> r.pc, todo |-> r.todo, obj |-> r.obj, tries |-> r.tries]
    /\ r.pc \in {"idle", "schema", "apply"} /\ r.tries \in 0..MaxTries
    /\ r.todo \in Seq(EmittedObjects)
    /\ r.pc # "idle" => /\ r.todo # << >>
                        /\ r.obj = Restrict(Head(r.todo).leaves, DOMAIN r.obj)
                        /\ Lacks(Head(r.todo), r.obj, crds[Head(r.todo).kind])

\* The CRDs a kind has had since the manager started include the present one and
\* the one whose schema is remembered.
Remembered(now, schemas, crds) ==
    /\ DOMAIN now = Kinds /\ DOMAIN schemas = Kinds /\ DOMAIN crds = Kinds
    /\ \A k \in Kinds : /\ now[k] \in crds[k] /\ crds[k] \subseteq CRDs(k) \cup {None}
                        /\ schemas[k] # None =>
                             schemas[k] \in {d.storage : d \in crds[k] \ {None}}

Inv ==
    /\ spec \in Specs /\ allowed \in BOOLEAN /\ queued \in BOOLEAN
    /\ DOMAIN child = Kinds \X Names
    /\ Remembered(crd, cache, seen)
    /\ Working(w, seen)

--------------------------------------------------------------------------------
(* Paths and schemas. *)

\* A path that a non-empty path leads to has it among the nodes above, or is it.
LEMMA PrefixIsAbove ==
  ASSUME NEW d \in Seq(STRING), NEW p \in Seq(STRING), d # << >>, IsPrefix(d, p)
  PROVE  d \in Above(p) \cup {p}
<1>1. d = SubSeq(p, 1, Len(d)) /\ Len(d) \in 1..Len(p)
  BY SubSeqFull DEF IsPrefix
<1>2. CASE Len(d) = Len(p)
  BY <1>1, <1>2, SubSeqFull
<1>3. CASE Len(d) # Len(p)
  <2>1. Len(d) \in 1..Len(p) - 1
    BY <1>1, <1>3
  <2> QED
    BY Zenon, <1>1, <2>1 DEF Above
<1> QED
  BY <1>2, <1>3

\* What is below an undeclared node is dead.
LEMMA BelowIsDead ==
  ASSUME NEW s, NEW nodes, NEW d \in Undeclared(s, nodes), NEW p \in Seq(STRING),
         d \in Seq(STRING), d # << >>, IsPrefix(d, p)
  PROVE  DeadIn(p, s)
<1>1. d \in Above(p) \cup {p}
  BY PrefixIsAbove
<1>2. d \in Undeclared(s, Above(p) \cup {p})
  BY <1>1 DEF Undeclared
<1> QED
  BY Zenon, <1>2 DEF DeadIn

\* Leaving paths out of an object leaves the rest as it is.
LEMMA WithoutKeeps ==
  ASSUME NEW f, NEW obj, obj = Restrict(f, DOMAIN obj), NEW paths
  PROVE  /\ Without(obj, paths) = Restrict(f, DOMAIN Without(obj, paths))
         /\ DOMAIN Without(obj, paths) \subseteq DOMAIN obj
         /\ \A p \in DOMAIN obj \ DOMAIN Without(obj, paths) : \E d \in paths : IsPrefix(d, p)
<1> DEFINE left == {q \in DOMAIN obj : \A d \in paths : ~IsPrefix(d, q)}
<1>1. Without(obj, paths) = [p \in left |-> obj[p]]
  BY DEF Without
<1>2. DOMAIN Without(obj, paths) = left
  BY <1>1
<1>3. \A p \in left : obj[p] = f[p]
  BY DEF Restrict
<1>4. Without(obj, paths) = [p \in left |-> f[p]]
  BY <1>1, <1>3
<1> QED
  BY <1>2, <1>4 DEF Restrict

\* If the paths are undeclared nodes, only dead fields are left out.
LEMMA WithoutLacks ==
  ASSUME NEW o \in EmittedObjects, NEW obj, obj = Restrict(o.leaves, DOMAIN obj),
         NEW ds, Lacks(o, obj, ds), NEW s \in Had(ds), NEW nodes,
         NEW paths \in SUBSET Undeclared(s, nodes), paths \subseteq DOMAIN obj
  PROVE  Lacks(o, Without(obj, paths), ds)
<1>1. \A p \in DOMAIN o.leaves : p \in Seq(STRING) /\ p # << >>
  BY EmittedAssumption
<1>2. DOMAIN obj \subseteq DOMAIN o.leaves
  BY DEF Lacks
<1>3. DOMAIN Without(obj, paths) \subseteq DOMAIN obj
  BY WithoutKeeps
<1>4. ASSUME NEW p \in DOMAIN obj, p \notin DOMAIN Without(obj, paths)
      PROVE  DeadIn(p, s)
  <2>1. PICK d \in paths : IsPrefix(d, p)
    BY <1>4, WithoutKeeps
  <2>2. d \in Undeclared(s, nodes) /\ d \in Seq(STRING) /\ d # << >> /\ p \in Seq(STRING)
    BY <1>1, <1>2, <2>1
  <2> QED
    BY <2>1, <2>2, BelowIsDead
<1> QED
  BY <1>2, <1>3, <1>4 DEF Lacks

\* The schema of liveCRDSchema is that of a CRD the kind has had.
LEMMA SchemaWasHad ==
  ASSUME Inv, NEW k \in Kinds, liveCRDSchema(k) # None
  PROVE  liveCRDSchema(k) \in {d.storage : d \in seen[k] \ {None}}
<1>1. CASE cache[k] # None
  BY <1>1 DEF liveCRDSchema, Inv, Remembered
<1>2. CASE cache[k] = None
  <2>1. allowed /\ crd[k] # None /\ liveCRDSchema(k) = crd[k].storage
    BY <1>2 DEF liveCRDSchema
  <2> QED
    BY <2>1 DEF Inv, Remembered
<1> QED
  BY <1>1, <1>2

--------------------------------------------------------------------------------
(* The reconcile. *)

LEMMA IdleWorking == \A crds : Working(Idle, crds)
BY EmittedAssumption DEF Working, Idle

\* The head of the work is an emitted object of a known kind.
LEMMA AtWork ==
  ASSUME NEW r, NEW crds, Working(r, crds), r.pc # "idle"
  PROVE  /\ Head(r.todo) \in EmittedObjects
         /\ Head(r.todo).kind \in Kinds /\ Head(r.todo).name \in Names
<1>1. Head(r.todo) \in EmittedObjects
  BY DEF Working
<1> QED
  BY <1>1, EmittedAssumption

\* Newer CRDs make no field less dead.
LEMMA MoreCRDs ==
  ASSUME NEW r, NEW crds, Working(r, crds), NEW more, \A k \in Kinds : crds[k] \subseteq more[k]
  PROVE  Working(r, more)
<1>1. CASE r.pc = "idle"
  BY <1>1 DEF Working
<1>2. CASE r.pc # "idle"
  <2> DEFINE o == Head(r.todo)
  <2>1. crds[o.kind] \subseteq more[o.kind]
    BY <1>2, AtWork
  <2>2. Lacks(o, r.obj, crds[o.kind])
    BY <1>2 DEF Working
  <2> HIDE DEF o
  <2>3. Lacks(o, r.obj, more[o.kind])
    <3>1. Had(crds[o.kind]) \subseteq Had(more[o.kind])
      BY <2>1 DEF Had
    <3> QED
      BY <2>2, <3>1 DEF Lacks
  <2> QED
    BY <2>3 DEF Working, o
<1> QED
  BY <1>1, <1>2

\* An object is taken up as the document emits it.
LEMMA ProceedWorking ==
  ASSUME NEW todo \in Seq(EmittedObjects), Proceed(todo), NEW crds
  PROVE  Working(w', crds)
<1>1. CASE todo = << >>
  BY <1>1, IdleWorking DEF Proceed
<1>2. CASE todo # << >>
  <2> DEFINE o == Head(todo)
             r == [pc |-> "schema", todo |-> todo, obj |-> o.leaves, tries |-> 0]
  <2>1. w' = r
    BY <1>2 DEF Proceed
  <2>2. o \in EmittedObjects
    BY <1>2
  <2>3. o.leaves = Restrict(o.leaves, DOMAIN o.leaves)
    BY <2>2, EmittedAssumption
  <2>4. Lacks(o, o.leaves, crds[o.kind])
    BY DEF Lacks
  <2>5. r.pc = "schema" /\ r.todo = todo /\ r.obj = o.leaves /\ r.tries = 0
    OBVIOUS
  <2>6. r = [pc |-> r.pc, todo |-> r.todo, obj |-> r.obj, tries |-> r.tries]
    OBVIOUS
  <2>7. 0 \in 0..MaxTries
    BY EmittedAssumption
  <2> HIDE DEF r
  <2> QED
    BY <1>2, <2>1, <2>3, <2>4, <2>5, <2>6, <2>7 DEF Working
<1> QED
  BY <1>1, <1>2

\* The object at work is replaced by what is left of it.
LEMMA LessWorking ==
  ASSUME NEW r, NEW crds, Working(r, crds), r.pc # "idle",
         NEW left, NEW n \in 0..MaxTries,
         left = Restrict(Head(r.todo).leaves, DOMAIN left),
         Lacks(Head(r.todo), left, crds[Head(r.todo).kind])
  PROVE  Working([pc |-> "apply", todo |-> r.todo, obj |-> left, tries |-> n], crds)
<1> DEFINE t == [pc |-> "apply", todo |-> r.todo, obj |-> left, tries |-> n]
<1>1. t.pc = "apply" /\ t.todo = r.todo /\ t.obj = left /\ t.tries = n
  OBVIOUS
<1>2. t = [pc |-> t.pc, todo |-> t.todo, obj |-> t.obj, tries |-> t.tries]
  OBVIOUS
<1>3. r.todo \in Seq(EmittedObjects) /\ r.todo # << >>
  BY DEF Working
<1> HIDE DEF t
<1>4. Working(t, crds)
  BY <1>1, <1>2, <1>3 DEF Working
<1> QED
  BY <1>4 DEF t

LEMMA FailKeeps ==
  ASSUME Inv, Fail, UNCHANGED <<spec, crd, allowed, cache, child, seen>>
  PROVE  Inv'
BY IdleWorking DEF Inv, Fail

LEMMA StartKeeps == ASSUME Inv, Start PROVE Inv'
<1>1. UNCHANGED <<spec, crd, allowed, cache, child, seen>>
  BY DEF Start
<1>2. CASE Fail
  BY <1>1, <1>2, FailKeeps
<1>3. CASE ~Fail
  <2>1. Emitted # Failure /\ Proceed(Emitted) /\ queued' = FALSE
    BY <1>3 DEF Start
  <2>2. Emitted \in Seq(EmittedObjects)
    BY <2>1, EmittedAssumption DEF Emitted, Inv
  <2>3. Working(w', seen)
    BY <2>1, <2>2, ProceedWorking
  <2> QED
    BY Zenon, <1>1, <2>1, <2>3 DEF Inv
<1> QED
  BY <1>2, <1>3

LEMMA PruneBySchemaKeeps == ASSUME Inv, PruneBySchema PROVE Inv'
<1> DEFINE o == Head(w.todo)
           k == o.kind
           schema == liveCRDSchema(k)
           left == pruneUnknownSpec(w.obj, schema)
<1>1. /\ w.pc = "schema" /\ cache' = [cache EXCEPT ![k] = schema]
      /\ w' = [w EXCEPT !.pc = "apply", !.obj = left]
      /\ UNCHANGED <<spec, crd, allowed, queued, child, seen>>
  BY DEF PruneBySchema
<1>2. Working(w, seen) /\ w.pc # "idle"
  BY <1>1 DEF Inv
<1>3. o \in EmittedObjects /\ k \in Kinds
  BY <1>2, AtWork
<1>4. schema # None => schema \in {d.storage : d \in seen[k] \ {None}}
  BY <1>3, SchemaWasHad
<1>5. w.obj = Restrict(o.leaves, DOMAIN w.obj) /\ Lacks(o, w.obj, seen[k])
  BY <1>2 DEF Working
<1>6. left = Restrict(o.leaves, DOMAIN left) /\ Lacks(o, left, seen[k])
  <2> HIDE DEF o, k, schema
  <2>1. CASE schema = None
    BY <1>5, <2>1 DEF pruneUnknownSpec
  <2>2. CASE schema # None
    <3> DEFINE paths == {p \in Undeclared(schema, DOMAIN w.obj) :
                           Len(p) > 1 /\ Above(p) \cap schema.open = {}}
    <3>1. left = Without(w.obj, paths)
      BY <2>2 DEF pruneUnknownSpec
    <3>2. paths \in SUBSET Undeclared(schema, DOMAIN w.obj) /\ paths \subseteq DOMAIN w.obj
      BY DEF Undeclared
    <3>3. schema \in Had(seen[k])
      BY <1>4, <2>2 DEF Had
    <3> HIDE DEF paths, left
    <3>4. Lacks(o, left, seen[k])
      BY <1>3, <1>5, <3>1, <3>2, <3>3, WithoutLacks
    <3>5. left = Restrict(o.leaves, DOMAIN left)
      BY <1>5, <3>1, WithoutKeeps
    <3> QED
      BY <3>4, <3>5
  <2> QED
    BY <2>1, <2>2
<1> HIDE DEF schema, left
<1>7. w' = [pc |-> "apply", todo |-> w.todo, obj |-> left, tries |-> w.tries]
  BY Zenon, <1>1, <1>2 DEF Working
<1>8. w.tries \in 0..MaxTries
  BY <1>2 DEF Working
<1>9. Working(w', seen)
  BY <1>2, <1>6, <1>7, <1>8, LessWorking
<1> HIDE DEF o, k
<1>10. Remembered(crd, cache', seen)
  BY <1>1, <1>3, <1>4 DEF Inv, Remembered
<1> QED
  BY <1>1, <1>9, <1>10 DEF Inv

LEMMA SchemaUnreadKeeps == ASSUME Inv, SchemaUnread PROVE Inv'
<1>1. /\ w.pc = "schema" /\ w' = [w EXCEPT !.pc = "apply"]
      /\ UNCHANGED <<spec, crd, allowed, cache, queued, child, seen>>
  BY DEF SchemaUnread
<1>2. Working(w, seen) /\ w.pc # "idle"
  BY <1>1 DEF Inv
<1>3. w' = [pc |-> "apply", todo |-> w.todo, obj |-> w.obj, tries |-> w.tries]
  BY <1>1, <1>2 DEF Working
<1>4. /\ w.obj = Restrict(Head(w.todo).leaves, DOMAIN w.obj) /\ w.tries \in 0..MaxTries
      /\ Lacks(Head(w.todo), w.obj, seen[Head(w.todo).kind])
  BY <1>2 DEF Working
<1>5. Working(w', seen)
  BY <1>2, <1>3, <1>4, LessWorking
<1> QED
  BY <1>1, <1>5 DEF Inv

LEMMA StoredKeeps == ASSUME Inv, Stored PROVE Inv'
<1>1. /\ w.pc = "apply" /\ Proceed(Tail(w.todo))
      /\ DOMAIN child' = DOMAIN child
      /\ UNCHANGED <<spec, crd, allowed, cache, queued, seen>>
  BY DEF Stored
<1>2. w.todo \in Seq(EmittedObjects) /\ w.todo # << >>
  BY <1>1 DEF Inv, Working
<1>3. Tail(w.todo) \in Seq(EmittedObjects)
  BY <1>2
<1>4. Working(w', seen)
  BY Zenon, <1>1, <1>3, ProceedWorking
<1> QED
  BY <1>1, <1>4 DEF Inv

\* The path in the message about a refused field, if the object has it, is the
\* path of the field.
LEMMA RefusedPath ==
  ASSUME NEW o \in EmittedObjects, NEW obj, DOMAIN obj \subseteq DOMAIN o.leaves,
         NEW s, NEW p \in Refused(s, obj), undeclaredFieldPath(p) \in DOMAIN obj
  PROVE  undeclaredFieldPath(p) = p
<1>1. p \in DOMAIN obj
  <2> SUFFICES ASSUME p \notin DOMAIN obj PROVE FALSE
    OBVIOUS
  <2>1. PICK q \in DOMAIN obj : p \in Elements(q)
    BY DEF Refused, Undeclared
  <2> QED
    BY <2>1, EmittedAssumption
<1>2. \A i \in 1..Len(p) : p[i] # "[]"
  BY <1>1, EmittedAssumption
<1>3. {i \in 1..Len(p) : p[i] = "[]"} = {}
  BY <1>2
<1> QED
  BY <1>3 DEF undeclaredFieldPath

LEMMA OmitKeeps == ASSUME Inv, omitLiveUnknownFields PROVE Inv'
<1> DEFINE o == Head(w.todo)
           k == o.kind
<1>1. /\ w.pc = "apply" /\ w.tries < MaxTries /\ crd[k] # None
      /\ UNCHANGED <<spec, crd, allowed, cache, child, seen>>
  BY DEF omitLiveUnknownFields
<1>2. CASE Fail
  BY <1>1, <1>2, FailKeeps
<1>3. CASE ~Fail
  <2>1. PICK p \in Refused(crd[k].served, w.obj) :
          /\ w' = [w EXCEPT !.obj = dropField(w.obj, undeclaredFieldPath(p)), !.tries = @ + 1]
          /\ dropField(w.obj, undeclaredFieldPath(p)) # Failure
          /\ UNCHANGED queued
    BY Zenon, <1>3 DEF omitLiveUnknownFields
  <2> DEFINE path == undeclaredFieldPath(p)
             left == Without(w.obj, {path})
  <2>2. path \in DOMAIN w.obj /\ w' = [w EXCEPT !.obj = left, !.tries = @ + 1]
    BY Zenon, <2>1 DEF dropField
  <2>3. Working(w, seen) /\ w.pc # "idle"
    BY <1>1 DEF Inv
  <2>4. o \in EmittedObjects /\ k \in Kinds
    BY <2>3, AtWork
  <2>5. w.obj = Restrict(o.leaves, DOMAIN w.obj) /\ Lacks(o, w.obj, seen[k])
    BY <2>3 DEF Working
  <2>6. crd[k].served \in Had(seen[k])
    BY <1>1, <2>4 DEF Inv, Remembered, Had
  <2> HIDE DEF o, k
  <2>7. path = p
    BY <2>2, <2>4, <2>5, RefusedPath DEF Lacks
  <2> DEFINE nodes == DOMAIN w.obj \cup UNION {Elements(q) : q \in DOMAIN w.obj}
  <2>8. p \in Undeclared(crd[k].served, nodes)
    BY DEF Refused
  <2> HIDE DEF path, nodes
  <2>9. {path} \in SUBSET Undeclared(crd[k].served, nodes) /\ {path} \subseteq DOMAIN w.obj
    BY <2>2, <2>7, <2>8
  <2>10. Lacks(o, left, seen[k])
    BY <2>4, <2>5, <2>6, <2>9, WithoutLacks
  <2>11. left = Restrict(o.leaves, DOMAIN left)
    BY <2>5, WithoutKeeps
  <2> HIDE DEF left
  <2>12. w.tries + 1 \in 0..MaxTries
    BY <1>1, <2>3, EmittedAssumption DEF Working
  <2>13. w' = [pc |-> "apply", todo |-> w.todo, obj |-> left, tries |-> w.tries + 1]
    BY Zenon, <1>1, <2>2, <2>3 DEF Working
  <2>14. Working(w', seen)
    BY <2>3, <2>10, <2>11, <2>12, <2>13, LessWorking DEF o, k
  <2> QED
    BY <1>1, <2>1, <2>14 DEF Inv
<1> QED
  BY <1>2, <1>3

LEMMA ChangeCRDKeeps == ASSUME Inv, ChangeCRD PROVE Inv'
<1>0. PICK k \in Kinds : \E d \in (CRDs(k) \cup {None}) \ {crd[k]} :
        crd' = [crd EXCEPT ![k] = d] /\ seen' = [seen EXCEPT ![k] = @ \cup {d}]
  BY Zenon DEF ChangeCRD
<1>1. PICK d \in CRDs(k) \cup {None} :
        crd' = [crd EXCEPT ![k] = d] /\ seen' = [seen EXCEPT ![k] = @ \cup {d}]
  BY Zenon, <1>0
<1>2. UNCHANGED <<spec, allowed, cache, queued, w, child>>
  BY DEF ChangeCRD
<1>3. \A j \in Kinds : /\ crd'[j] = IF j = k THEN d ELSE crd[j]
                       /\ seen'[j] = IF j = k THEN seen[j] \cup {d} ELSE seen[j]
  BY <1>1 DEF Inv, Remembered
<1>4. DOMAIN crd' = Kinds /\ DOMAIN seen' = Kinds
  BY <1>1 DEF Inv, Remembered
<1>5. Remembered(crd', cache, seen')
  BY <1>3, <1>4 DEF Inv, Remembered
<1>6. \A j \in Kinds : seen[j] \subseteq seen'[j]
  BY <1>3
<1>7. Working(w, seen')
  BY Zenon, <1>6, MoreCRDs DEF Inv
<1> QED
  BY <1>2, <1>5, <1>7 DEF Inv

LEMMA RestartKeeps == ASSUME Inv, Restart PROVE Inv'
<1>1. /\ w' = Idle /\ queued' = TRUE
      /\ cache' = [k \in Kinds |-> None] /\ seen' = [k \in Kinds |-> {crd[k]}]
      /\ UNCHANGED <<spec, crd, allowed, child>>
  BY DEF Restart
<1>2. Remembered(crd, cache', seen')
  BY <1>1 DEF Inv, Remembered
<1> QED
  BY <1>1, <1>2, IdleWorking DEF Inv

LEMMA NextKeeps == Inv /\ [Next]_vars => Inv'
<1> SUFFICES ASSUME Inv, [Next]_vars PROVE Inv'
  OBVIOUS
<1>1. CASE UNCHANGED vars
  BY <1>1 DEF vars, Inv
<1>2. CASE GiveUp \/ Fault
  BY <1>2, FailKeeps DEF GiveUp, Fault
<1>3. CASE ChangeSource
  BY <1>3 DEF ChangeSource, Inv
<1>4. CASE Resync
  BY <1>4 DEF Resync, Inv
<1> QED
  BY <1>1, <1>2, <1>3, <1>4, StartKeeps, PruneBySchemaKeeps, StoredKeeps, OmitKeeps,
     SchemaUnreadKeeps, ChangeCRDKeeps, RestartKeeps
  DEF Next, Step, applyOne

LEMMA InitKeeps == Init => Inv
<1> SUFFICES ASSUME Init PROVE Inv
  OBVIOUS
<1>1. Remembered(crd, cache, seen)
  BY DEF Init, Remembered
<1> QED
  BY <1>1, IdleWorking DEF Init, Inv

--------------------------------------------------------------------------------
(* The results. *)

\* The object at work is always part of one the document emits, with its values,
\* attempts never exceed MaxTries, and a remembered schema is one the kind has
\* had since the manager started.
THEOREM DeadFieldsTypeCorrect == Spec => []TypeOK
<1>1. Inv => TypeOK
  BY DEF Inv, Working, Remembered, TypeOK
<1> QED
  BY <1>1, InitKeeps, NextKeeps, PTL DEF Spec

\* The body of OnlyDeadFieldsDropped, for the object o in the API server.
DroppedDead(o) ==
    child'[o] # child[o] =>
      LET want == Head(w.todo).leaves
          had  == {d.served : d \in seen[o[1]] \ {None}}
                  \cup {d.storage : d \in seen[o[1]] \ {None}}
      IN  /\ child'[o] = Restrict(want, DOMAIN child'[o])
          /\ \A p \in DOMAIN want \ DOMAIN child'[o] :
                \E s \in had : Undeclared(s, Above(p) \cup {p}) # {}

LEMMA DroppedDeadStep ==
  ASSUME Inv, Next, NEW o \in Kinds \X Names
  PROVE  DroppedDead(o)
<1>1. CASE child' = child
  BY <1>1 DEF DroppedDead
<1>2. CASE Stored
  <2> DEFINE e == Head(w.todo)
  <2>1. w.pc = "apply" /\ child' = [child EXCEPT ![<<e.kind, e.name>>] = w.obj]
    BY <1>2 DEF Stored
  <2>2. Working(w, seen) /\ w.pc # "idle"
    BY <2>1 DEF Inv
  <2>3. w.obj = Restrict(e.leaves, DOMAIN w.obj) /\ Lacks(e, w.obj, seen[e.kind])
    BY <2>2 DEF Working
  <2>4. CASE o = <<e.kind, e.name>>
    <3>1. child'[o] = w.obj /\ o[1] = e.kind
      BY <2>1, <2>4 DEF Inv
    <3> QED
      BY <2>3, <3>1 DEF DroppedDead, Lacks, Had, DeadIn
  <2>5. CASE o # <<e.kind, e.name>>
    <3>1. child'[o] = child[o]
      BY <2>1, <2>5 DEF Inv
    <3> QED
      BY <3>1 DEF DroppedDead
  <2> QED
    BY <2>4, <2>5
<1>3. ~Stored => child' = child
  BY Zenon DEF Next, Step, applyOne, Start, PruneBySchema, omitLiveUnknownFields, GiveUp,
         SchemaUnread, Fault, ChangeSource, ChangeCRD, Resync, Restart
<1> QED
  BY <1>1, <1>2, <1>3

\* Whatever the CRDs do meanwhile, an object reaches the API server with the
\* values the document gives it, and lacks only fields that, or objects above
\* which, some CRD of its kind did not declare since the manager started.
THEOREM OnlyDeadFieldsAreDropped == Spec => OnlyDeadFieldsDropped
<1>1. Inv /\ [Next]_vars => [\A o \in Kinds \X Names : DroppedDead(o)]_vars
  BY DroppedDeadStep
<1> QED
  BY <1>1, InitKeeps, NextKeeps, PTL DEF Spec, OnlyDeadFieldsDropped, DroppedDead

================================================================================
