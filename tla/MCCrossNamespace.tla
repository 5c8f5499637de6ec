---------------------------- MODULE MCCrossNamespace ----------------------------
(***************************************************************************)
(* Two same-named namespaced sources.  Each emits a child in its own       *)
(* namespace (owner reference) and one in a common namespace (annotation). *)
(***************************************************************************)
EXTENDS Translation

CONSTANTS red, blue, redOwn, redFar, blueOwn, blueFar, kind

MCSourceName(s) == "chain"
MCKindOf(c) == kind
MCTargetKinds(m) == {kind}
MCCanOwn(s, c) == <<s, c>> \in {<<red, redOwn>>, <<blue, blueOwn>>}

MCEmit(m, s, p) ==
  LET own == IF s = red THEN redOwn ELSE blueOwn
      far == IF s = red THEN redFar ELSE blueFar
  IN IF p = "near" THEN <<own>> ELSE <<far, own>>

MCMapError(m, p) == FALSE
MCPruneWhen(m, p) == TRUE
MCStatusWhen(m, p, had) == TRUE
MCEligible(m, p) == TRUE

=================================================================================
