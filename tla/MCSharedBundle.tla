----------------------------- MODULE MCSharedBundle -----------------------------
(***************************************************************************)
(* Two BlueField cards under the dataprocessingunit mapping.  Neither sets *)
(* the dpu.nvidia.com/bfb annotation, so both emit the BFB of the default  *)
(* name next to their own DPU.                                             *)
(***************************************************************************)
EXTENDS Translation

CONSTANTS cardA, cardB, dpuA, dpuB, bundle, DPU, BFB

MCSourceName(s) == s
MCKindOf(c) == IF c = bundle THEN BFB ELSE DPU
MCTargetKinds(m) == {DPU, BFB}
MCCanOwn(s, c) == TRUE
MCEmit(m, s, p) == <<bundle, IF s = cardA THEN dpuA ELSE dpuB>>
MCMapError(m, p) == FALSE
MCPruneWhen(m, p) == TRUE
MCStatusWhen(m, p, had) == TRUE
MCEligible(m, p) == TRUE

=================================================================================
