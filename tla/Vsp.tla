---------------------------------- MODULE Vsp ----------------------------------
(***************************************************************************)
(* The vendor plugin's gRPC server (pkg/vsp) and the OPI daemon            *)
(* (cmd/opi-daemon) beside the annotators of Discovery.  Plugin and        *)
(* annotator are one process.  The daemon dials the plugin's socket, asks  *)
(* for the devices of the node, writes Ready on the units that carry the   *)
(* serial of one of them and on every DpuOperatorConfig, once, and then    *)
(* waits for ever.  An error ends its process and the kubelet starts it    *)
(* again.  The server reports every device as healthy, so Ready is only    *)
(* ever written as True.                                                   *)
(***************************************************************************)
EXTENDS Discovery

CONSTANTS FirstConfig  \* the state of the DpuOperatorConfig at the start

VARIABLES
  serving,  \* the plugin of the node listens on its socket
  daemon,   \* what the daemon of each node is doing
  ready,    \* units whose Ready condition is True
  config    \* the DpuOperatorConfig and its Ready condition

vspVars == <<serving, daemon, ready, config>>
allVars == <<vars, vspVars>>

Configs == {"absent", "present", "ready"}

ASSUME VspAssumption == FirstConfig \in Configs

Daemon == [pc   : {"init", "getDevices", "listUnits", "reportUnits", "listConfigs",
                   "reportConfigs", "done"},
           seen : SUBSET Cards,    \* the serials GetDevices returned
           todo : SUBSET Units]    \* matching units still to be reported

Started == [pc |-> "init", seen |-> {}, todo |-> {}]

Goto(n, pc) == daemon' = [daemon EXCEPT ![n].pc = pc]

--------------------------------------------------------------------------------
(* The handshake. *)

\* Server.Start: a stale socket is removed and a new one bound.
Serve(n) ==
  /\ ~serving[n]
  /\ serving' = [serving EXCEPT ![n] = TRUE]
  /\ UNCHANGED <<vars, daemon, ready, config>>

\* HandshakeUntil dials until the socket answers Init.
Handshake(n) ==
  /\ daemon[n].pc = "init" /\ serving[n]
  /\ Goto(n, "getDevices")
  /\ UNCHANGED <<vars, serving, ready, config>>

\* The devices are scanned for every call.  A failing scan and a plugin that
\* went away both make HandshakeUntil start over.  Without a serial there is
\* nothing to report.
GetDevices(n) ==
  /\ daemon[n].pc = "getDevices"
  /\ \/ /\ serving[n]
        /\ LET ids == {d.serial : d \in LiveDevices(n)}
           IN daemon' = [daemon EXCEPT ![n] =
                [pc |-> IF ids = {} THEN "done" ELSE "listUnits", seen |-> ids, todo |-> {}]]
        /\ UNCHANGED vars
     \/ ~serving[n] /\ Goto(n, "init") /\ UNCHANGED vars
     \/ Fails /\ Goto(n, "init") /\ UNCHANGED <<unit, bus, queue, w, edits>>
  /\ UNCHANGED <<serving, ready, config>>

--------------------------------------------------------------------------------
(* ReportReady. *)

\* Any error of the report ends the process; the next one starts from Init.
Exit(n) == daemon' = [daemon EXCEPT ![n] = Started]

\* A call to the API server fails.
ReportFails(n) ==
  /\ daemon[n].pc \in {"listUnits", "reportUnits", "listConfigs", "reportConfigs"}
  /\ Fails /\ Exit(n)
  /\ UNCHANGED <<unit, bus, queue, w, edits, serving, ready, config>>

\* matchDPUSerial looks only under NVIDIA's key.
matchDPUSerial(u, seen) == unit[u] # None /\ unit[u].ann.serial["nvidia"] \in seen

ListMatching(n) ==
  LET us == {u \in Units : matchDPUSerial(u, daemon[n].seen)}
  IN /\ daemon[n].pc = "listUnits"
     /\ daemon' = [daemon EXCEPT ![n].todo = us,
                                 ![n].pc = IF us = {} THEN "listConfigs" ELSE "reportUnits"]
     /\ UNCHANGED <<vars, serving, ready, config>>

\* patchReady reads the unit again and retries on conflict.  A unit that went
\* away is an error; one that already is Ready is not written.
ReportUnit(n) ==
  /\ daemon[n].pc = "reportUnits"
  /\ LET u == CHOOSE x \in daemon[n].todo : \A y \in daemon[n].todo : x <= y
     IN IF unit[u] = None
        THEN Exit(n) /\ UNCHANGED <<queue, ready>>
        ELSE /\ daemon' = [daemon EXCEPT ![n].todo = @ \ {u},
                  ![n].pc = IF daemon[n].todo = {u} THEN "listConfigs" ELSE @]
             /\ ready' = ready \cup {u}
             /\ queue' = IF u \in ready THEN queue ELSE UnitEvent(queue, u)
  /\ UNCHANGED <<unit, bus, w, edits, faults, serving, config>>

ListConfigs(n) ==
  /\ daemon[n].pc = "listConfigs"
  /\ Goto(n, IF config = "absent" THEN "done" ELSE "reportConfigs")
  /\ UNCHANGED <<vars, serving, ready, config>>

\* Mutant: a config that went away is retried for ever in place.
ReportConfigStuck(n) ==
  /\ daemon[n].pc = "reportConfigs" /\ config # "absent"
  /\ Goto(n, "done") /\ config' = "ready"
  /\ UNCHANGED <<vars, serving, ready>>

ReportConfig(n) ==
  /\ daemon[n].pc = "reportConfigs"
  /\ IF config = "absent"
     THEN Exit(n) /\ UNCHANGED config
     ELSE Goto(n, "done") /\ config' = "ready"
  /\ UNCHANGED <<vars, serving, ready>>

DaemonStep(n) ==
  \/ Handshake(n) \/ GetDevices(n) \/ ListMatching(n) \/ ReportUnit(n)
  \/ ListConfigs(n) \/ ReportConfig(n)

--------------------------------------------------------------------------------
(* The environment. *)

RestartDaemon(n) ==
  /\ Edit /\ Exit(n)
  /\ UNCHANGED <<unit, bus, queue, w, faults, serving, ready, config>>

\* The plugin's process restarts, and the annotator with it.
RestartPlugin(n) ==
  /\ Restart(n)
  /\ serving' = [serving EXCEPT ![n] = FALSE]
  /\ UNCHANGED <<daemon, ready, config>>

RemoveUnit(u) ==
  /\ DeleteUnit(u)
  /\ ready' = ready \ {u}
  /\ UNCHANGED <<serving, daemon, config>>

CreateConfig ==
  /\ Edit /\ config = "absent" /\ config' = "present"
  /\ UNCHANGED <<unit, bus, queue, w, faults, serving, daemon, ready>>

DeleteConfig ==
  /\ Edit /\ config # "absent" /\ config' = "absent"
  /\ UNCHANGED <<unit, bus, queue, w, faults, serving, daemon, ready>>

AnnotatorStep(n) ==
  /\ Work(n) \/ \E u \in Units : Reconcile(n, u)
  /\ UNCHANGED vspVars

VspInit ==
  /\ Init
  /\ serving = [n \in Nodes |-> FALSE]
  /\ daemon = [n \in Nodes |-> Started]
  /\ ready = {}
  /\ config = FirstConfig

VspNext ==
  \/ \E n \in Nodes : Serve(n) \/ DaemonStep(n) \/ ReportFails(n) \/ AnnotatorStep(n)
  \/ \E n \in Nodes : RestartDaemon(n) \/ RestartPlugin(n)
  \/ \E u \in Units : (CreateUnit(u) \/ MoveUnit(u)) /\ UNCHANGED vspVars
  \/ \E u \in Units : RemoveUnit(u)
  \/ \E n \in Nodes, s \in Slots : Replug(n, s) /\ UNCHANGED vspVars
  \/ CreateConfig \/ DeleteConfig

\* The kubelet keeps plugin and daemon running; the annotators are as fair as in
\* Discovery.
VspFairness ==
  /\ Fairness
  /\ \A n \in Nodes : WF_allVars(Serve(n)) /\ WF_allVars(DaemonStep(n))

VspSpec == VspInit /\ [][VspNext]_allVars /\ VspFairness

--------------------------------------------------------------------------------
(* Properties. *)

\* Every daemon gets through its handshake and its report and stays there,
\* whatever plugin restarts, failing scans, vanishing units and configs and
\* failing calls it met (HandshakeUntil, the exits of cmd/opi-daemon).
DaemonReports == \A n \in Nodes : <>[](daemon[n].pc = "done")

================================================================================
