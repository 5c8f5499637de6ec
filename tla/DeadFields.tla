------------------------------- MODULE DeadFields -------------------------------
(***************************************************************************)
(* applyOne of pkg/translation against CRDs that lag or lead the mapping   *)
(* document (dead_fields.go).  Fields the CRD does not declare are left    *)
(* out of an object by the CRD's schema, which is read once per kind, and  *)
(* then by the errors of the API server, one per attempt.                  *)
(*                                                                         *)
(* A schema has the paths it declares and those of them that are open,     *)
(* that is, take any field (x-kubernetes-preserve-unknown-fields,          *)
(* additionalProperties, or an object without properties).  A CRD has one  *)
(* schema for the version that is served to the adapter and one for the    *)
(* version that is stored.  A path through a list has a segment "[]".  The *)
(* gate on the LCM and the finalizer before the applies, and the pruning   *)
(* and the status mirror after them, are in module Translation.            *)
(***************************************************************************)
EXTENDS MappingEngine, FiniteSets

CONSTANTS
    Mapping,        \* the mapping document
    Specs,          \* the sources that can be submitted
    Kinds, Names,
    CRDs(_),        \* the CRDs a kind may have
    Elements(_),    \* the paths inside the list a leaf holds
    None,
    MaxTries,       \* applies per object; 8 in the code
    MaxEnv          \* bound on the steps of users, CRD owners, faults and restarts

VARIABLES
    spec,       \* the source
    crd,        \* the CRD of each kind in the API server
    allowed,    \* CRDs may be read
    cache,      \* Reconciler.schemas, per kind
    queued,     \* the source is in the work queue
    w,          \* the reconcile at work
    child,      \* the objects in the API server, by kind and name
    seen,       \* the CRDs each kind has had since the manager started
    env

vars == <<spec, crd, allowed, cache, queued, w, child, seen, env>>

Idle == [pc |-> "idle", todo |-> << >>, obj |-> << >>, tries |-> 0]

--------------------------------------------------------------------------------
(* Schemas. *)

\* The nodes the schema leaves out of an object it knows.
Undeclared(s, nodes) ==
    {p \in nodes \ s.declared : Above(p) = {} \/ Front(p) \in s.declared \ s.open}

\* The object without what is at or below one of the paths.
Without(obj, paths) ==
    [p \in {q \in DOMAIN obj : \A d \in paths : ~IsPrefix(d, q)} |-> obj[p]]

\* Mutant: open objects are pruned as well.
pruneUnknownSpecClosed(obj, s) ==
    IF s = None THEN obj
    ELSE Without(obj, {p \in Undeclared([s EXCEPT !.open = {}], DOMAIN obj) : Len(p) > 1})

\* pruneMap starts at spec; it neither enters an open object nor a list.
pruneUnknownSpec(obj, s) ==
    IF s = None THEN obj
    ELSE Without(obj, {p \in Undeclared(s, DOMAIN obj) : Len(p) > 1 /\ Above(p) \cap s.open = {}})

\* What the API server refuses: it looks into open objects and lists as well.
Refused(s, obj) ==
    Undeclared(s, DOMAIN obj \cup UNION {Elements(p) : p \in DOMAIN obj})

\* Mutant: the leading dot of the message stays.
undeclaredFieldPathDotted(p) == <<"">> \o p

\* The path found in the message: of one through a list, what follows the last
\* index.
undeclaredFieldPath(p) ==
    LET cut == {i \in 1..Len(p) : p[i] = "[]"}
    IN  IF cut = {} THEN p ELSE SubSeq(p, Max(cut) + 1, Len(p))

\* dropField fails where the path is not in the object.
dropField(obj, path) ==
    IF path \in DOMAIN obj THEN Without(obj, {path}) ELSE Failure

--------------------------------------------------------------------------------
(* The reconcile. *)

\* What mapping.Apply makes of the source.
EmittedFor == [s \in Specs |-> Apply(Mapping, s)]
Emitted == EmittedFor[spec]

\* Every object the document makes of some source.
EmittedObjects ==
    UNION {Range(EmittedFor[s]) : s \in {t \in Specs : EmittedFor[t] # Failure}}

\* The document is in order: it emits sequences of named objects of the known
\* kinds, whose nodes are at non-empty paths outside of lists.  What a message
\* about a field inside a list is cut down to is no node of the object.
ASSUME EmittedAssumption ==
    /\ MaxTries \in Nat \ {0}
    /\ \A s \in Specs : EmittedFor[s] = Failure \/ EmittedFor[s] \in Seq(EmittedObjects)
    /\ \A o \in EmittedObjects :
         /\ o.kind \in Kinds /\ o.name \in Names
         /\ o.leaves = Restrict(o.leaves, DOMAIN o.leaves)
         /\ \A p \in DOMAIN o.leaves :
              /\ p \in Seq(STRING) \ {<< >>} /\ \A i \in 1..Len(p) : p[i] # "[]"
              /\ \A q \in Elements(p) : undeclaredFieldPath(q) \notin DOMAIN o.leaves

Env == env < MaxEnv /\ env' = env + 1

\* The rate limiter puts a failed reconcile back.
Fail == w' = Idle /\ queued' = TRUE

\* The next object, or the end of the reconcile.
Proceed(todo) ==
    w' = IF todo = << >> THEN Idle
         ELSE [pc |-> "schema", todo |-> todo, obj |-> Head(todo).leaves, tries |-> 0]

\* mapping.Apply, and the gate on installed APIs.
Start ==
    /\ w.pc = "idle" /\ queued
    /\ IF Emitted = Failure \/ \E i \in 1..Len(Emitted) : crd[Emitted[i].kind] = None
       THEN Fail
       ELSE Proceed(Emitted) /\ queued' = FALSE
    /\ UNCHANGED <<spec, crd, allowed, cache, child, seen, env>>

\* The schema of the stored version is read once per kind.  A CRD that is not
\* there or may not be read is not remembered, and nothing is pruned.
liveCRDSchema(k) ==
    CASE cache[k] # None                                -> cache[k]
      [] cache[k] = None /\ allowed /\ crd[k] # None -> crd[k].storage
      [] OTHER                                          -> None

PruneBySchema ==
    /\ w.pc = "schema"
    /\ LET k == Head(w.todo).kind
       IN  /\ cache' = [cache EXCEPT ![k] = liveCRDSchema(k)]
           /\ w' = [w EXCEPT !.pc = "apply", !.obj = pruneUnknownSpec(@, liveCRDSchema(k))]
    /\ UNCHANGED <<spec, crd, allowed, queued, child, seen, env>>

\* The read of the CRD fails: the object is applied as it is.
SchemaUnread ==
    /\ w.pc = "schema" /\ cache[Head(w.todo).kind] = None /\ Env
    /\ w' = [w EXCEPT !.pc = "apply"]
    /\ UNCHANGED <<spec, crd, allowed, cache, queued, child, seen>>

Stored ==
    LET o == Head(w.todo)
    IN  /\ w.pc = "apply" /\ w.tries < MaxTries
        /\ crd[o.kind] # None /\ Refused(crd[o.kind].served, w.obj) = {}
        /\ child' = [child EXCEPT ![<<o.kind, o.name>>] = w.obj]
        /\ Proceed(Tail(w.todo))
        /\ UNCHANGED <<spec, crd, allowed, cache, queued, seen, env>>

\* Mutant: attempts are not counted.
omitLiveUnknownFieldsForever ==
    LET k == Head(w.todo).kind
    IN  /\ w.pc = "apply" /\ crd[k] # None
        /\ \E p \in Refused(crd[k].served, w.obj) :
             LET left == dropField(w.obj, undeclaredFieldPath(p))
             IN  IF left = Failure THEN Fail
                 ELSE w' = [w EXCEPT !.obj = left, !.tries = @ + 1] /\ UNCHANGED queued
        /\ UNCHANGED <<spec, crd, allowed, cache, child, seen, env>>

\* The API server names one field of those it refuses.
omitLiveUnknownFields ==
    LET k == Head(w.todo).kind
    IN  /\ w.pc = "apply" /\ w.tries < MaxTries /\ crd[k] # None
        /\ \E p \in Refused(crd[k].served, w.obj) :
             LET left == dropField(w.obj, undeclaredFieldPath(p))
             IN  IF left = Failure THEN Fail
                 ELSE w' = [w EXCEPT !.obj = left, !.tries = @ + 1] /\ UNCHANGED queued
        /\ UNCHANGED <<spec, crd, allowed, cache, child, seen, env>>

\* The attempts are used up, or the kind is gone.
GiveUp ==
    /\ w.pc = "apply" /\ (w.tries = MaxTries \/ crd[Head(w.todo).kind] = None)
    /\ Fail
    /\ UNCHANGED <<spec, crd, allowed, cache, child, seen, env>>

applyOne == PruneBySchema \/ Stored \/ omitLiveUnknownFields \/ GiveUp

\* An apply fails for another reason.
Fault ==
    /\ w.pc = "apply" /\ w.tries < MaxTries /\ Env
    /\ Fail
    /\ UNCHANGED <<spec, crd, allowed, cache, child, seen>>

--------------------------------------------------------------------------------
(* The environment. *)

ChangeSource ==
    /\ Env
    /\ spec' \in Specs \ {spec}
    /\ queued' = TRUE
    /\ UNCHANGED <<crd, allowed, cache, w, child, seen>>

\* The owner of the CRDs installs, upgrades or removes one.  No controller of
\* the adapter watches it.
ChangeCRD ==
    /\ Env
    /\ \E k \in Kinds : \E d \in (CRDs(k) \cup {None}) \ {crd[k]} :
         /\ crd' = [crd EXCEPT ![k] = d]
         /\ seen' = [seen EXCEPT ![k] = @ \cup {d}]
    /\ UNCHANGED <<spec, allowed, cache, queued, w, child>>

\* The informers hand out every source again, from time to time.
Resync ==
    /\ ~queued /\ w.pc = "idle"
    /\ queued' = TRUE
    /\ UNCHANGED <<spec, crd, allowed, cache, w, child, seen, env>>

Restart ==
    /\ Env
    /\ w' = Idle /\ queued' = TRUE
    /\ cache' = [k \in Kinds |-> None]
    /\ seen' = [k \in Kinds |-> {crd[k]}]
    /\ UNCHANGED <<spec, crd, allowed, child>>

Init ==
    /\ spec \in Specs
    /\ crd \in [Kinds -> UNION {CRDs(k) : k \in Kinds} \cup {None}]
    /\ \A k \in Kinds : crd[k] \in CRDs(k) \cup {None}
    /\ allowed \in BOOLEAN
    /\ cache = [k \in Kinds |-> None]
    /\ queued = TRUE
    /\ w = Idle
    /\ child = [o \in Kinds \X Names |-> None]
    /\ seen = [k \in Kinds |-> {crd[k]}]
    /\ env = 0

Step == Start \/ applyOne

Next == Step \/ SchemaUnread \/ Fault \/ ChangeSource \/ ChangeCRD \/ Resync \/ Restart

\* The worker runs, and the informers resync.
Spec == Init /\ [][Next]_vars /\ WF_vars(Step) /\ WF_vars(Resync)

--------------------------------------------------------------------------------
(* Properties. *)

\* The object at work is what the mapping emitted less some nodes, attempts are
\* bounded, and the schema remembered for a kind is one the kind has had since
\* the manager started.
TypeOK ==
    /\ spec \in Specs /\ allowed \in BOOLEAN /\ queued \in BOOLEAN
    /\ w.pc \in {"idle", "schema", "apply"} /\ w.tries \in 0..MaxTries
    /\ w.pc # "idle" => /\ w.todo # << >>
                        /\ w.obj = Restrict(Head(w.todo).leaves, DOMAIN w.obj)
    /\ \A k \in Kinds : /\ crd[k] \in seen[k] /\ seen[k] \subseteq CRDs(k) \cup {None}
                        /\ cache[k] # None =>
                             cache[k] \in {d.storage : d \in seen[k] \ {None}}

\* A field that the mapping gives and the stored object lacks was undeclared, it
\* or an object above it, in a CRD the kind has had since the manager started:
\* neither the schema nor the retries take more than dead fields, and no value
\* is changed on the way (pruneMap, dropNestedMap).
OnlyDeadFieldsDropped ==
    [][\A o \in Kinds \X Names : child'[o] # child[o] =>
          LET want == Head(w.todo).leaves
              had  == {d.served : d \in seen[o[1]] \ {None}}
                      \cup {d.storage : d \in seen[o[1]] \ {None}}
          IN  /\ child'[o] = Restrict(want, DOMAIN child'[o])
              /\ \A p \in DOMAIN want \ DOMAIN child'[o] :
                    \E s \in had : Undeclared(s, Above(p) \cup {p}) # {}]_vars

\* What is left of an emitted object when the schema has been applied, and then
\* what the API server refuses of it.
Pruned(o) == pruneUnknownSpec(o.leaves, liveCRDSchema(o.kind))
Dead(o) == Refused(crd[o.kind].served, Pruned(o))

\* Every emitted object can be brought to a form the API server takes.
Appliable ==
    /\ Emitted # Failure
    /\ \A i \in 1..Len(Emitted) :
         LET o == Emitted[i]
         IN  /\ crd[o.kind] # None
             /\ Cardinality(Dead(o)) < MaxTries
             /\ Dead(o) \subseteq DOMAIN o.leaves

\* Once users and CRD owners rest, every emitted object is stored with exactly
\* the fields that the remembered schema and the served one let through, if its
\* dead fields are fewer than the attempts and none is inside a list: neither a
\* stale schema, an unreadable CRD nor a fault blocks the graph (applyOne).
GraphApplied ==
    <>[](Appliable => \A i \in 1..Len(Emitted) :
            LET o == Emitted[i]
            IN  child[<<o.kind, o.name>>] = Without(Pruned(o), Dead(o)))

================================================================================
