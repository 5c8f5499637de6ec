------------------------------- MODULE Discovery -------------------------------
(***************************************************************************)
(* Hardware discovery (pkg/discovery).  On every node an annotator scans   *)
(* the PCI bus and stamps the identity of a card (serial, PCI address,     *)
(* product) on each DataProcessingUnit of the node.  It reads a unit, the  *)
(* bus and the list of units one after the other, straight from the API    *)
(* server, and writes a merge patch against the copy it read first, while  *)
(* cards are plugged and users create, move and delete units.              *)
(***************************************************************************)
EXTENDS Integers, FiniteSets

CONSTANTS
  Nodes,        \* the nodes that run the plugin
  Others,       \* nodes that do not
  Units,        \* names of DataProcessingUnits, numbers in the order of the names
  Slots,        \* PCI device positions, numbers in the order of the addresses
  Cards,        \* board serials
  Vendors,
  VendorOf,     \* the vendor of each card
  ProductOf,    \* the product name of each card
  Requested,    \* the vendor each unit's spec.dpuProductName asks for
  Filter,       \* --pci-vendor on each node, None for every vendor
  FirstStamps,  \* identity annotations users create a unit with
  FirstBus,     \* what the buses may hold at the start
  Blank,        \* a board whose serial reads as blank
  None,
  MaxEdits,     \* bound on what users, technicians and restarts do
  MaxFaults     \* bound on failing scans and calls

\* A scan skips every function of a device but the first.
Address == [dev : Slots, fn : {0}]

\* Mutant: the address is stamped as sysfs shows it.
DPFPCIAddressRaw(a) == a

\* DPFPCIAddress drops the function from an address.
DPFPCIAddress(a) == [dev |-> a.dev]

\* The identity annotations: a serial under its vendor's key, the PCI address
\* in DPF form, and the observed product.
Products == {ProductOf[c] : c \in Cards}
Stamp == [serial  : [Vendors -> Cards \cup {None}],
          pci     : [dev : Slots] \cup {None},
          product : Products \cup {None}]

Unit == [node : Nodes \cup Others, ann : Stamp]
Device == [pci : Address, serial : Cards]
Bus == [Slots -> Cards \cup {Blank, None}]

ASSUME DiscoveryAssumption ==
  /\ IsFiniteSet(Units) /\ Units \subseteq Nat
  /\ IsFiniteSet(Slots) /\ Slots \subseteq Nat
  /\ VendorOf \in [Cards -> Vendors]
  /\ Requested \in [Units -> Vendors]
  /\ Filter \in [Nodes -> Vendors \cup {None}]
  /\ None \notin Units /\ None \notin Cards /\ None \notin Vendors
  /\ None \notin Unit /\ None \notin Products /\ None \notin [dev : Slots]
  /\ Blank \notin Cards \cup {None}
  /\ FirstStamps \subseteq Stamp
  /\ FirstBus \subseteq [Nodes -> Bus]
  /\ MaxEdits \in Nat /\ MaxFaults \in Nat

VARIABLES
  unit,    \* the units in the API server
  bus,     \* what sysfs shows on each node
  queue,   \* work queue of each annotator
  w,       \* the reconcile each annotator is running
  edits,
  faults

vars == <<unit, bus, queue, w, edits, faults>>

\* views is what the reconcile's listing returned.
Reconciling == [pc : {"idle", "scan", "list", "stamp"}, key : Units \cup {None},
                copy : Unit \cup {None}, live : SUBSET Device,
                views : [Units -> Unit \cup {None}]]

NoUnits == [u \in Units |-> None]

Idle == [pc |-> "idle", key |-> None, copy |-> None, live |-> {}, views |-> NoUnits]

--------------------------------------------------------------------------------
(* Reading the bus. *)

\* The vendor filter is applied before the serial is read.
Scanned(n) ==
  LET counts(c) == c # None /\ (Filter[n] = None \/ c = Blank \/ VendorOf[c] = Filter[n])
  IN {[pci |-> [dev |-> s, fn |-> 0], serial |-> bus[n][s]] :
        s \in {x \in Slots : counts(bus[n][x])}}

\* One function per board: the one with the lowest address.
uniqueBySerial(ds) ==
  {d \in ds : \A e \in ds : e.serial = d.serial => d.pci.dev <= e.pci.dev}

\* A board without a serial is not a DPU.
LiveDevices(n) == {d \in uniqueBySerial(Scanned(n)) : d.serial # Blank}

--------------------------------------------------------------------------------
(* Reading the annotations. *)

NoStamp == [serial |-> [v \in Vendors |-> None], pci |-> None, product |-> None]

\* The serials a unit claims: the first key found wins, in no particular order.
claimedSerial(ann) ==
  LET found == {ann.serial[v] : v \in Vendors} \ {None}
  IN IF found = {} THEN {None} ELSE found

HasIdentity(ann) == ann # NoStamp

IdentityAnnotations(d) ==
  LET v == VendorOf[d.serial]
  IN [serial  |-> [NoStamp.serial EXCEPT ![v] = d.serial],
      pci     |-> IF v = "nvidia" THEN DPFPCIAddress(d.pci) ELSE None,
      product |-> ProductOf[d.serial]]

--------------------------------------------------------------------------------
(* AssignDevices.  A question q holds the units of the node, what each claims *)
(* (serial, pci, whether it is stamped at all), and the live devices.  The    *)
(* API server lists the units in the order of their names.                    *)

\* First pass: the first unit of the list that claims the device's serial.
BySerial(q, u, d) ==
  /\ q.serial[u] = d.serial
  /\ \A v \in q.units : q.serial[v] = q.serial[u] => u <= v

SerialBound(q, u) == \E d \in q.live : BySerial(q, u, d)

\* Mutant: a device already used by the first pass may be taken.
ByPCITaken(q, u, d) ==
  /\ ~SerialBound(q, u)
  /\ q.pci[u] \in {d.pci, DPFPCIAddress(d.pci)}
  /\ \A v \in q.units :
       q.pci[v] = q.pci[u] /\ ~SerialBound(q, v) => u <= v

\* Second pass: the first of the others that claims the device's address.
ByPCI(q, u, d) ==
  /\ ~SerialBound(q, u)
  /\ q.pci[u] \in {d.pci, DPFPCIAddress(d.pci)}
  /\ \A v \in q.units : ~BySerial(q, v, d)
  /\ \A v \in q.units :
       q.pci[v] = q.pci[u] /\ ~SerialBound(q, v) => u <= v

Claims(q, u, d) == BySerial(q, u, d) \/ ByPCI(q, u, d)

\* Units without, and devices left over after, the first two passes.
Empty(q) == {u \in q.units : ~q.stamped[u]}
Leftover(q) == {d \in q.live : \A u \in q.units : ~Claims(q, u, d)}

\* Third pass: units never stamped, by name, meet leftover devices, by address.
ByPlace(q, u, d) ==
  /\ u \in Empty(q) /\ d \in Leftover(q)
  /\ Cardinality({v \in Empty(q) : v < u})
       = Cardinality({e \in Leftover(q) : e.pci.dev < d.pci.dev})

\* Stamped units that lose their card, and devices nobody got.
Cleared(q) == {u \in q.units : q.stamped[u] /\ \A d \in q.live : ~Claims(q, u, d)}
Spare(q) == {d \in Leftover(q) : \A u \in q.units : ~ByPlace(q, u, d)}

\* Last: a single spare device replaces the card of a single cleared unit.
Swapped(q, u, d) == Cleared(q) = {u} /\ Spare(q) = {d}

\* Mutant: the address wins over the serial.
AssignDevicesPCIFirst(q, u, d) ==
  IF \E e \in q.live : q.pci[u] = DPFPCIAddress(e.pci)
  THEN q.pci[u] = DPFPCIAddress(d.pci)
  ELSE BySerial(q, u, d) \/ ByPlace(q, u, d) \/ Swapped(q, u, d)

\* AssignDevices binds unit u to device d.
AssignDevices(q, u, d) == Claims(q, u, d) \/ ByPlace(q, u, d) \/ Swapped(q, u, d)

\* Mutant: a stale identity is not stripped.
desiredAnnotationsKept(have, q, u) ==
  IF \E d \in q.live : u \in q.units /\ AssignDevices(q, u, d)
  THEN IdentityAnnotations(CHOOSE d \in q.live : AssignDevices(q, u, d))
  ELSE have

\* The annotations u should have, given the ones it was read with.
desiredAnnotations(have, q, u) ==
  IF \E d \in q.live : u \in q.units /\ AssignDevices(q, u, d)
  THEN IdentityAnnotations(CHOOSE d \in q.live : AssignDevices(q, u, d))
  ELSE IF u \in Cleared(q) THEN NoStamp ELSE have

--------------------------------------------------------------------------------
(* The annotator. *)

\* A vendor-specific deployment leaves other vendors' units alone.
ownsSource(n, u) == Filter[n] = None \/ Requested[u] = Filter[n]

nodeViews(n) ==
  {u \in Units : /\ w[n].views[u] # None
                 /\ w[n].views[u].node = n /\ ownsSource(n, u)}

Question(n, claim) ==
  [units   |-> nodeViews(n),
   serial  |-> claim,
   pci     |-> [u \in nodeViews(n) |-> w[n].views[u].ann.pci],
   stamped |-> [u \in nodeViews(n) |-> HasIdentity(w[n].views[u].ann)],
   live    |-> w[n].live]

\* One question for each way the units' serials may be read.
Questions(n) ==
  {Question(n, claim) : claim \in
     {f \in [nodeViews(n) -> Cards \cup {None}] :
        \A v \in nodeViews(n) : f[v] \in claimedSerial(w[n].views[v].ann)}}

\* The merge patch MergeFrom(copy) carries only the keys that differ.
Merge(now, copy, want) ==
  [serial  |-> [v \in Vendors |-> IF want.serial[v] = copy.serial[v]
                                  THEN now.serial[v] ELSE want.serial[v]],
   pci     |-> IF want.pci = copy.pci THEN now.pci ELSE want.pci,
   product |-> IF want.product = copy.product THEN now.product ELSE want.product]

\* The reconcile ends; its key comes back after InventoryRefresh, or after an
\* error with the queue's backoff.
Requeue(n) ==
  /\ w' = [w EXCEPT ![n] = Idle]
  /\ queue' = [queue EXCEPT ![n] = @ \cup {w[n].key}]

Fails == faults < MaxFaults /\ faults' = faults + 1

\* A write to a unit wakes every annotator (For).
UnitEvent(q, u) == [n \in Nodes |-> q[n] \cup {u}]

\* A unit that is gone or on another node is forgotten.  One of another vendor
\* is only requeued, which changes nothing.
Reconcile(n, u) ==
  /\ w[n].pc = "idle" /\ u \in queue[n]
  /\ IF unit[u] = None \/ unit[u].node # n
     THEN UNCHANGED w
     ELSE /\ ownsSource(n, u)
          /\ w' = [w EXCEPT ![n] = [Idle EXCEPT !.pc = "scan", !.key = u, !.copy = unit[u]]]
  /\ queue' = [queue EXCEPT ![n] = @ \ {u}]
  /\ UNCHANGED <<unit, bus, edits, faults>>

\* An unreadable bus ends the reconcile with an error and clears nothing.
Enumerate(n) ==
  /\ w[n].pc = "scan"
  /\ \/ /\ w' = [w EXCEPT ![n].pc = "list", ![n].live = LiveDevices(n)]
        /\ UNCHANGED <<queue, faults>>
     \/ Fails /\ Requeue(n)
  /\ UNCHANGED <<unit, bus, edits>>

ListUnits(n) ==
  /\ w[n].pc = "list"
  /\ \/ /\ w' = [w EXCEPT ![n].pc = "stamp", ![n].views = unit]
        /\ UNCHANGED <<queue, faults>>
     \/ Fails /\ Requeue(n)
  /\ UNCHANGED <<unit, bus, edits>>

\* Assign, and patch if anything differs.  A patch of a unit that is gone is an
\* error.
StampUnit(n, u) ==
  /\ w[n].pc = "stamp" /\ w[n].key = u
  /\ w' = [w EXCEPT ![n] = Idle]
  /\ LET have == w[n].copy.ann
     IN \E want \in {desiredAnnotations(have, q, u) : q \in Questions(n)} :
          \/ /\ want = have \/ unit[u] = None
             /\ queue' = [queue EXCEPT ![n] = @ \cup {u}]
             /\ UNCHANGED <<unit, faults>>
          \/ /\ want # have /\ unit[u] # None
             /\ unit' = [unit EXCEPT ![u].ann = Merge(@, have, want)]
             /\ queue' = UnitEvent(queue, u)
             /\ UNCHANGED faults
          \/ /\ want # have /\ Fails
             /\ queue' = [queue EXCEPT ![n] = @ \cup {u}]
             /\ UNCHANGED unit
  /\ UNCHANGED <<bus, edits>>

Work(n) == Enumerate(n) \/ ListUnits(n) \/ \E u \in Units : StampUnit(n, u)

--------------------------------------------------------------------------------
(* The environment. *)

Edit == edits < MaxEdits /\ edits' = edits + 1

CreateUnit(u) ==
  /\ unit[u] = None /\ Edit
  /\ \E n \in Nodes \cup Others, a \in FirstStamps :
       unit' = [unit EXCEPT ![u] = [node |-> n, ann |-> a]]
  /\ queue' = UnitEvent(queue, u)
  /\ UNCHANGED <<bus, w, faults>>

DeleteUnit(u) ==
  /\ unit[u] # None /\ Edit
  /\ unit' = [unit EXCEPT ![u] = None]
  /\ queue' = UnitEvent(queue, u)
  /\ UNCHANGED <<bus, w, faults>>

MoveUnit(u) ==
  /\ unit[u] # None /\ Edit
  /\ \E n \in (Nodes \cup Others) \ {unit[u].node} : unit' = [unit EXCEPT ![u].node = n]
  /\ queue' = UnitEvent(queue, u)
  /\ UNCHANGED <<bus, w, faults>>

\* A board is plugged, pulled or swapped; it is in one node at a time.
Replug(n, s) ==
  /\ Edit
  /\ \E c \in Cards \cup {Blank, None} :
       /\ c # bus[n][s]
       /\ c \in Cards => \A m \in Nodes \ {n}, t \in Slots : bus[m][t] # c
       /\ bus' = [bus EXCEPT ![n][s] = c]
  /\ UNCHANGED <<unit, queue, w, faults>>

\* The plugin restarts: its informer lists the units and enqueues each.
Restart(n) ==
  /\ Edit
  /\ w' = [w EXCEPT ![n] = Idle]
  /\ queue' = [queue EXCEPT ![n] = {u \in Units : unit[u] # None}]
  /\ UNCHANGED <<unit, bus, faults>>

--------------------------------------------------------------------------------

Init ==
  /\ unit = NoUnits
  /\ bus \in FirstBus
  /\ queue = [n \in Nodes |-> {}]
  /\ w = [n \in Nodes |-> Idle]
  /\ edits = 0
  /\ faults = 0

Next ==
  \/ \E n \in Nodes : Work(n) \/ \E u \in Units : Reconcile(n, u)
  \/ \E u \in Units : CreateUnit(u) \/ DeleteUnit(u) \/ MoveUnit(u)
  \/ \E n \in Nodes, s \in Slots : Replug(n, s)
  \/ \E n \in Nodes : Restart(n)

\* A running reconcile goes on, and queued keys are served in turn.
Fairness ==
  \A n \in Nodes :
    WF_vars(Work(n)) /\ \A u \in Units : SF_vars(Reconcile(n, u))

Spec == Init /\ [][Next]_vars /\ Fairness

--------------------------------------------------------------------------------
(* Properties. *)

\* Every variable has its type; an identity is always in the form the mappings
\* read (PCI addresses in DPF form, serials under their vendor's key).
TypeOK ==
  /\ unit \in [Units -> Unit \cup {None}]
  /\ bus \in [Nodes -> Bus]
  /\ queue \in [Nodes -> SUBSET Units]
  /\ w \in [Nodes -> Reconciling]
  /\ \A n \in Nodes : w[n].pc # "idle" => w[n].key \in Units /\ w[n].copy \in Unit
  /\ edits \in Nat /\ faults \in Nat

Serials(ann) == claimedSerial(ann) \ {None}

\* Annotator n writes its key u with a copy and a listing that are up to date.
WritesFresh(n, u) ==
  /\ w[n].pc = "stamp" /\ w[n].key = u /\ w'[n].pc = "idle"
  /\ w[n].views = unit /\ w[n].copy = unit[u]
  /\ unit'[u] # unit[u] /\ edits' = edits

\* A reconcile that works from current data keeps the identity of a unit whose
\* card it saw on the bus, wherever on the bus the card now is, unless another
\* unit of the node claims the same serial ("Serial wins, then PCI").
LiveCardKept ==
  [][\A n \in Nodes, u \in Units : \A d \in w[n].live :
          /\ WritesFresh(n, u)
          /\ Serials(unit[u].ann) = {d.serial}
          /\ \A v \in nodeViews(n) \ {u} : d.serial \notin Serials(w[n].views[v].ann)
       => Serials(unit'[u].ann) = {d.serial}]_vars

\* A reconcile that works from current data never stamps a unit with a card that
\* another unit of its node already claims (the used set of AssignDevices).
NoCardTwice ==
  [][\A n \in Nodes, u \in Units : \A d \in w[n].live :
          /\ WritesFresh(n, u)
          /\ d.serial \notin Serials(unit[u].ann)
          /\ d.serial \in Serials(unit'[u].ann)
       => \A v \in nodeViews(n) \ {u} : Serials(unit[v].ann) # {d.serial}]_vars

\* Every unit of node n that has an identity has, completely, the one of a live
\* card, no two have the same, and no card is left over beside a bare unit.
Settled(n) ==
  LET mine == {u \in Units : unit[u] # None /\ unit[u].node = n /\ ownsSource(n, u)}
      stamped == {u \in mine : HasIdentity(unit[u].ann)}
      live == LiveDevices(n)
  IN /\ \A u \in stamped : \E d \in live : unit[u].ann = IdentityAnnotations(d)
     /\ \A u, v \in stamped : unit[u].ann = unit[v].ann => u = v
     /\ stamped = mine \/ Cardinality(stamped) = Cardinality(live)

\* Once cards, users and faults pause, the annotators settle: whatever stale
\* copies, mixed patches, moves and duplicate serials have left behind is
\* repaired, and stays so (Reconcile and its refresh every InventoryRefresh).
Settles == <>[](\A n \in Nodes : Settled(n))

================================================================================
