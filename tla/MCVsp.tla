--------------------------------- MODULE MCVsp ---------------------------------
(***************************************************************************)
(* One node with plugin and daemon, two units and two slots.  A BlueField  *)
(* is in the first slot at the start; users create units bare or with its  *)
(* serial.                                                                 *)
(***************************************************************************)
EXTENDS Vsp

CONSTANTS n1, n2, bf, dsc

MCVendorOf == [c \in {bf, dsc} |-> IF c = bf THEN "nvidia" ELSE "amd"]
MCProductOf == [c \in {bf, dsc} |-> IF c = bf THEN "BlueField-3" ELSE "Pensando DSC"]
MCRequested == [u \in Units |-> IF u = 1 THEN "amd" ELSE "nvidia"]
MCFilter == [n \in Nodes |-> IF n = n1 THEN None ELSE "nvidia"]
MCFirstStamps == {NoStamp, [NoStamp EXCEPT !.serial["nvidia"] = bf]}
MCFirstBus == {[n \in Nodes |-> [s \in Slots |-> IF n = n1 /\ s = 1 THEN bf ELSE None]]}

================================================================================
