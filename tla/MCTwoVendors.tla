------------------------------ MODULE MCTwoVendors ------------------------------
(***************************************************************************)
(* The two mappings of DataProcessingUnit, dataprocessingunit (NVIDIA) and *)
(* amd-dsc200, on one cluster-scoped source.  A spec is the card the       *)
(* source declares together with the inventory annotations:  "bf3" is an   *)
(* identified BlueField-3, "bf" a BlueField whose inventory is missing,    *)
(* "dsc" an identified AMD card, "bad" one whose NVIDIA mapping does not   *)
(* resolve.  DPUFlavor has no readiness to wait for, and a DSCDevice that  *)
(* publishes no conditions counts as ready.                                *)
(***************************************************************************)
EXTENDS Translation

CONSTANTS nvidia, amd, card, DPU, DPUFlavor, DSCDevice

MCSourceName(s) == s
MCKindOf(c) == c
MCTargetKinds(m) == IF m = nvidia THEN {DPU, DPUFlavor} ELSE {DSCDevice}
MCCanOwn(s, c) == TRUE

MCEmit(m, s, p) ==
  CASE m = nvidia /\ p = "bf3" -> <<DPUFlavor, DPU>>
    [] m = amd /\ p = "dsc" -> <<DSCDevice>>
    [] OTHER -> <<>>

MCMapError(m, p) == m = nvidia /\ p = "bad"
MCPruneWhen(m, p) == m = nvidia => p = "bf3"
MCStatusWhen(m, p, had) == IF m = nvidia THEN p \in {"bf3", "bf"} \/ had ELSE p = "dsc"
MCEligible(m, p) == m = nvidia => p = "bf3"

=================================================================================
