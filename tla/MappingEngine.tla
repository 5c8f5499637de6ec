----------------------------- MODULE MappingEngine -----------------------------
(***************************************************************************)
(* What a mapping document makes of a source (pkg/mapping): the objects to *)
(* emit, or Failure.  A document is a sequence of emits.  A path is a      *)
(* sequence of names, and an object is a function from the paths of its    *)
(* nodes to their values, Object for an inner one.  A source has values at *)
(* paths, and the list its loop runs over, each item with values of its    *)
(* own.  A CEL expression is named by the path of what it evaluates to;    *)
(* where there is nothing at that path it fails.                           *)
(***************************************************************************)
EXTENDS Integers, Sequences, SequencesExt

CONSTANTS
    Empty,      \* nil or the empty string
    Failure,    \* an error
    Object      \* the value of an inner node

\* Get: a path that leads nowhere has no value.
Get(obj, path) == IF path \in DOMAIN obj THEN obj[path] ELSE Empty

\* A field takes a literal ("value"), an expression ("cel") or a path ("from");
\* of says whether it looks at the source or at the item of the loop.
resolveValue(f, source, item) ==
    LET root == IF f.of = "item" THEN item ELSE source.at
    IN  CASE f.how = "value" -> f.arg
          [] f.how = "cel"   -> IF f.arg \in DOMAIN root THEN root[f.arg] ELSE Failure
          [] f.how = "from"  -> Get(root, f.arg)

\* Empty when the field is to be left out.
fieldValue(f, source, item) ==
    LET val == resolveValue(f, source, item)
        got == IF val = Empty THEN f.default ELSE val
    IN  IF got = Empty /\ f.required THEN Failure ELSE got

Above(path) == {SubSeq(path, 1, i) : i \in 1..Len(path) - 1}

\* Set creates the objects above the path; what is there must be one.
Set(obj, path, val) ==
    IF \E p \in Above(path) \cap DOMAIN obj : obj[p] # Object THEN Failure
    ELSE LET kept == {p \in DOMAIN obj : ~IsPrefix(path, p)}
         IN  [p \in kept \cup Above(path) \cup {path} |->
                IF p = path THEN val ELSE IF p \in kept THEN obj[p] ELSE Object]

\* One more field of an object that is built.
SetField(dest, f, source, item) ==
    LET val == fieldValue(f, source, item)
    IN  CASE dest = Failure \/ val = Failure -> Failure
          [] dest # Failure /\ val = Empty   -> dest
          [] OTHER                           -> Set(dest, f.to, val)

\* The name is resolved like a field, and must not be empty.
buildObject(emit, source, item) ==
    LET val == resolveValue(emit.name, source, item)
        name == IF val = Empty THEN emit.name.default ELSE val
        dest[i \in 0..Len(emit.fields)] ==
            IF i = 0 THEN << >> ELSE SetField(dest[i - 1], emit.fields[i], source, item)
    IN  IF name \in {Empty, Failure} \/ dest[Len(emit.fields)] = Failure THEN Failure
        ELSE [kind |-> emit.kind, name |-> name, leaves |-> dest[Len(emit.fields)]]

\* when is a condition on the source or the item; none is met by all.
Wanted(emit, source, item) ==
    IF emit.when = Empty THEN "true" ELSE resolveValue(emit.when, source, item)

\* One object per item that meets the condition; without a loop there is one item.
applyEmit(emit, source) ==
    LET items == IF emit.each THEN source.items ELSE << << >> >>
        build(item) ==
            CASE Wanted(emit, source, item) = "true"  -> <<buildObject(emit, source, item)>>
              [] Wanted(emit, source, item) = "false" -> << >>
              [] OTHER                                -> <<Failure>>
    IN  IF items = Failure THEN <<Failure>>
        ELSE FlattenSeq([i \in 1..Len(items) |-> build(items[i])])

\* Apply: an error anywhere leaves nothing to emit.
Apply(mapping, source) ==
    LET objs == FlattenSeq([i \in 1..Len(mapping) |-> applyEmit(mapping[i], source)])
    IN  IF \E i \in 1..Len(objs) : objs[i] = Failure THEN Failure ELSE objs

================================================================================
