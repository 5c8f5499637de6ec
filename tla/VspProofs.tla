-------------------------------- MODULE VspProofs --------------------------------
(***************************************************************************)
(* Theorems about hardware discovery for any number of nodes, units, slots *)
(* and cards, alone and beside the vendor plugin's server and the daemon.  *)
(* Working is the inductive invariant of Discovery: besides the types it   *)
(* says that a running reconcile holds a copy of a unit of its own node    *)
(* and vendor, which is what puts that unit among nodeViews.               *)
(***************************************************************************)
EXTENDS Vsp, WellFoundedInduction, TLAPS

Working ==
  /\ TypeOK
  /\ \A n \in Nodes : w[n].pc # "idle" =>
       w[n].copy.node = n /\ ownsSource(n, w[n].key)

--------------------------------------------------------------------------------
(* Identity stamps. *)

\* The stamp of a device is well formed and carries exactly the device's serial.
LEMMA StampOfDevice ==
  ASSUME NEW d \in Device
  PROVE  /\ IdentityAnnotations(d) \in Stamp
         /\ Serials(IdentityAnnotations(d)) = {d.serial}
<1>1. d.serial \in Cards /\ d.pci \in Address
  BY DEF Device
<1>2. VendorOf[d.serial] \in Vendors /\ d.serial # None
  BY <1>1, DiscoveryAssumption
<1>3. IdentityAnnotations(d).serial
        = [v \in Vendors |-> IF v = VendorOf[d.serial] THEN d.serial ELSE None]
  BY <1>2 DEF IdentityAnnotations, NoStamp
<1>4. DPFPCIAddress(d.pci) \in [dev : Slots]
  BY <1>1 DEF DPFPCIAddress, Address
<1>5. ProductOf[d.serial] \in Products
  BY <1>1 DEF Products
<1>6. IdentityAnnotations(d) \in Stamp
  <2>1. IdentityAnnotations(d).serial \in [Vendors -> Cards \cup {None}]
    BY <1>1, <1>3
  <2>. QED
    BY <2>1, <1>4, <1>5 DEF IdentityAnnotations, Stamp
<1>7. {IdentityAnnotations(d).serial[v] : v \in Vendors} \ {None} = {d.serial}
  BY <1>2, <1>3
<1>. QED
  BY <1>6, <1>7, <1>2 DEF Serials, claimedSerial

\* The empty stamp is well formed and carries no serial.
LEMMA StampOfNothing == NoStamp \in Stamp /\ Serials(NoStamp) = {}
<1>1. NoStamp \in Stamp
  BY DEF NoStamp, Stamp
<1>2. {NoStamp.serial[v] : v \in Vendors} \ {None} = {}
  BY DEF NoStamp
<1>. QED
  BY <1>1, <1>2 DEF Serials, claimedSerial

\* A unit that carries exactly one serial claims that serial.
LEMMA ClaimOfStamp ==
  ASSUME NEW ann, NEW s, s # None, NEW c \in claimedSerial(ann)
  PROVE  /\ Serials(ann) = {s} => c = s
         /\ s \notin Serials(ann) => c # s
BY DEF Serials, claimedSerial

\* What a unit should carry is a well-formed stamp.
LEMMA DesiredIsStamp ==
  ASSUME NEW have \in Stamp, NEW q, q.live \subseteq Device, NEW u
  PROVE  desiredAnnotations(have, q, u) \in Stamp
<1>1. CASE \E d \in q.live : u \in q.units /\ AssignDevices(q, u, d)
  <2>1. (CHOOSE d \in q.live : AssignDevices(q, u, d)) \in Device
    BY <1>1
  <2>. QED
    BY <1>1, <2>1, StampOfDevice DEF desiredAnnotations
<1>2. CASE ~ \E d \in q.live : u \in q.units /\ AssignDevices(q, u, d)
  BY <1>2, StampOfNothing DEF desiredAnnotations
<1>. QED
  BY <1>1, <1>2

\* A merge of stamps is a stamp; against an unchanged copy it is what is wanted.
LEMMA MergeOfStamps ==
  ASSUME NEW now \in Stamp, NEW copy \in Stamp, NEW want \in Stamp
  PROVE  /\ Merge(now, copy, want) \in Stamp
         /\ now = copy => Merge(now, copy, want) = want
<1>1. Merge(now, copy, want) \in Stamp
  BY DEF Merge, Stamp
<1>2. ASSUME now = copy PROVE Merge(now, copy, want) = want
  <2>1. Merge(now, copy, want).serial = want.serial
    BY <1>2 DEF Merge, Stamp
  <2>2. /\ Merge(now, copy, want).pci = want.pci
        /\ Merge(now, copy, want).product = want.product
    BY <1>2 DEF Merge
  <2>. QED
    BY <2>1, <2>2, <1>1 DEF Stamp
<1>. QED
  BY <1>1, <1>2

--------------------------------------------------------------------------------
(* AssignDevices. *)

\* A non-empty set of numbers has a smallest element.
LEMMA SmallestNumber ==
  ASSUME NEW S \in SUBSET Nat, S # {}
  PROVE  \E x \in S : \A y \in S : x <= y
<1>1. PICK x \in S : \A y \in S : ~ (<<y, x>> \in OpToRel(<, Nat))
  BY Zenon, NatLessThanWellFounded, WFMin
<1>2. OpToRel(<, Nat) = {p \in Nat \X Nat : p[1] < p[2]}
  BY Zenon DEF OpToRel
<1>3. ASSUME NEW y \in S PROVE x <= y
  <2>1. <<y, x>> \notin {p \in Nat \X Nat : p[1] < p[2]}
    BY <1>1, <1>2, Zenon
  <2>2. ~(y < x)
    BY <2>1
  <2>. QED
    BY <2>2
<1>. QED
  BY <1>3

\* A live device whose serial some unit claims goes to a unit that claims it.
LEMMA ClaimedGoesToClaimant ==
  ASSUME NEW q, q.units \subseteq Units,
         NEW d, NEW u, u \notin q.units \/ q.serial[u] # d.serial,
         NEW v \in q.units, q.serial[v] = d.serial
  PROVE  ~AssignDevices(q, u, d) \/ u \notin q.units
<1>. SUFFICES ASSUME u \in q.units, AssignDevices(q, u, d) PROVE FALSE
  OBVIOUS
<1>. DEFINE Claimants == {y \in q.units : q.serial[y] = d.serial}
<1>1. Claimants \in SUBSET Nat /\ Claimants # {}
  BY Zenon, DiscoveryAssumption
<1>2. PICK x \in Claimants : \A y \in Claimants : x <= y
  BY Zenon, <1>1, SmallestNumber
<1>5. BySerial(q, x, d)
  BY <1>2 DEF BySerial
<1>6. ~BySerial(q, u, d) /\ ~ByPCI(q, u, d)
  BY <1>2, <1>5 DEF BySerial, ByPCI
<1>7. d \notin Leftover(q)
  BY <1>2, <1>5 DEF Leftover, Claims
<1>. QED
  BY <1>6, <1>7 DEF AssignDevices, Claims, ByPlace, Swapped, Spare

\* A stamped unit that alone claims the serial of a live device is assigned
\* devices of that serial only, and at least that one.
LEMMA SoleClaimantKeeps ==
  ASSUME NEW q, q.units \subseteq Units,
         NEW u \in q.units, q.stamped[u], NEW d \in q.live, q.serial[u] = d.serial,
         \A v \in q.units \ {u} : q.serial[v] # d.serial
  PROVE  /\ AssignDevices(q, u, d)
         /\ \A e \in q.live : AssignDevices(q, u, e) => e.serial = d.serial
<1>1. u \in Int
  <2>1. u \in Units /\ Units \subseteq Nat
    BY DiscoveryAssumption
  <2>. QED
    BY <2>1
<1>2. BySerial(q, u, d)
  BY <1>1 DEF BySerial
<1>3. ASSUME NEW e \in q.live, AssignDevices(q, u, e) PROVE e.serial = d.serial
  <2>1. SerialBound(q, u)
    BY <1>2 DEF SerialBound
  <2>2. u \notin Empty(q)
    BY DEF Empty
  <2>3. u \notin Cleared(q)
    BY <1>2 DEF Cleared, Claims
  <2>4. BySerial(q, u, e)
    BY <1>3, <2>1, <2>2, <2>3 DEF AssignDevices, Claims, ByPCI, ByPlace, Swapped
  <2>. QED
    BY <2>4 DEF BySerial
<1>. QED
  BY <1>2, <1>3 DEF AssignDevices, Claims

--------------------------------------------------------------------------------
(* Types, and what a running reconcile holds. *)

\* Scanning yields well-formed devices (LiveDevices drops boards without serial).
LEMMA LiveAreDevices ==
  ASSUME TypeOK, NEW n \in Nodes
  PROVE  LiveDevices(n) \subseteq Device
<1>1. bus[n] \in Bus
  BY DEF TypeOK
<1>2. ASSUME NEW d \in LiveDevices(n) PROVE d \in Device
  <2>1. d \in Scanned(n) /\ d.serial # Blank
    BY DEF LiveDevices, uniqueBySerial
  <2>2. PICK s \in Slots : d = [pci |-> [dev |-> s, fn |-> 0], serial |-> bus[n][s]] /\ bus[n][s] # None
    BY <2>1 DEF Scanned
  <2>. QED
    BY <1>1, <2>1, <2>2 DEF Bus, Device, Address
<1>. QED
  BY <1>2

\* One step of one annotator's record keeps the record well formed.
LEMMA StampWrite ==
  ASSUME Working, NEW n \in Nodes, NEW u \in Units, StampUnit(n, u)
  PROVE  unit' \in [Units -> Unit \cup {None}]
<1>1. w[n].copy \in Unit /\ w[n].copy.ann \in Stamp /\ w[n].live \subseteq Device
  BY DEF Working, TypeOK, StampUnit, Unit, Reconciling
<1>2. CASE UNCHANGED unit
  BY <1>2 DEF Working, TypeOK
<1>3. CASE unit' # unit
  <2>1. PICK q \in Questions(n) :
          /\ unit[u] # None
          /\ unit' = [unit EXCEPT ![u].ann = Merge(@, w[n].copy.ann,
                desiredAnnotations(w[n].copy.ann, q, u))]
    BY <1>3 DEF StampUnit
  <2>. DEFINE want == desiredAnnotations(w[n].copy.ann, q, u)
  <2>2. want \in Stamp
    BY <1>1, DesiredIsStamp DEF Question, Questions
  <2>3. unit[u] \in Unit /\ unit[u].ann \in Stamp
    BY <2>1 DEF Working, TypeOK, Unit
  <2>4. Merge(unit[u].ann, w[n].copy.ann, want) \in Stamp
    BY <1>1, <2>2, <2>3, MergeOfStamps
  <2>5. [unit[u] EXCEPT !.ann = Merge(unit[u].ann, w[n].copy.ann, want)] \in Unit
    BY <2>3, <2>4 DEF Unit
  <2>. QED
    BY <2>1, <2>5 DEF Working, TypeOK
<1>. QED
  BY <1>2, <1>3

\* A running reconcile that goes on with a scan or a listing keeps its key and
\* its copy.
LEMMA RecordStep ==
  ASSUME Working, NEW n \in Nodes, w[n].pc # "idle",
         UNCHANGED <<unit, bus, edits>>, faults' \in Nat,
         queue' \in [Nodes -> SUBSET Units],
         \/ /\ LiveDevices(n) \subseteq Device
            /\ w' = [w EXCEPT ![n].pc = "list", ![n].live = LiveDevices(n)]
         \/ w' = [w EXCEPT ![n].pc = "stamp", ![n].views = unit]
  PROVE  Working'
<1>1. w \in [Nodes -> Reconciling] /\ unit \in [Units -> Unit \cup {None}]
  BY DEF Working, TypeOK
<1>. DEFINE scanned == [w[n] EXCEPT !.pc = "list", !.live = LiveDevices(n)]
            listed == [w[n] EXCEPT !.pc = "stamp", !.views = unit]
<1>2. /\ w' \in [Nodes -> Reconciling]
      /\ w'[n].key = w[n].key /\ w'[n].copy = w[n].copy
      /\ \A m \in Nodes \ {n} : w'[m] = w[m]
  <2>1. w[n] \in Reconciling
    BY <1>1
  <2>2. CASE LiveDevices(n) \subseteq Device /\ w' = [w EXCEPT ![n] = scanned]
    <3>1. /\ scanned \in Reconciling
          /\ scanned.key = w[n].key /\ scanned.copy = w[n].copy
      BY Zenon, <2>1, <2>2 DEF Reconciling
    <3>. HIDE DEF scanned
    <3>. QED
      BY <1>1, <2>2, <3>1
  <2>3. CASE w' = [w EXCEPT ![n] = listed]
    <3>1. listed \in Reconciling /\ listed.key = w[n].key /\ listed.copy = w[n].copy
      BY Zenon, <1>1, <2>1 DEF Reconciling
    <3>. HIDE DEF listed
    <3>. QED
      BY <1>1, <2>3, <3>1
  <2>. QED
    BY Zenon, <2>2, <2>3
<1>3. \A m \in Nodes : w'[m].pc # "idle" =>
        w[m].pc # "idle" /\ w'[m].key = w[m].key /\ w'[m].copy = w[m].copy
  BY <1>2
<1>. QED
  BY <1>2, <1>3 DEF Working, TypeOK, ownsSource

\* Every step keeps Working.
LEMMA WorkingStep == Working /\ [Next]_vars => Working'
<1>. SUFFICES ASSUME Working, [Next]_vars PROVE Working'
  OBVIOUS
<1>0. \A n \in Nodes : LiveDevices(n) \subseteq Device
  BY LiveAreDevices DEF Working
<1>. USE DEF Working, TypeOK, Reconciling, ownsSource
<1>1. ASSUME NEW n \in Nodes, NEW u \in Units, Reconcile(n, u) PROVE Working'
  <2>1. CASE unit[u] = None \/ unit[u].node # n
    BY <1>1, <2>1 DEF Reconcile
  <2>2. CASE ~(unit[u] = None \/ unit[u].node # n)
    <3>1. unit[u] \in Unit
      BY <2>2
    <3>. DEFINE r == [Idle EXCEPT !.pc = "scan", !.key = u, !.copy = unit[u]]
    <3>2. r \in Reconciling /\ r.key = u /\ r.copy = unit[u]
      BY Zenon, <3>1 DEF Idle, NoUnits
    <3>3. w' = [w EXCEPT ![n] = r] /\ ownsSource(n, u)
      BY <1>1, <2>2 DEF Reconcile
    <3>4. /\ w' \in [Nodes -> Reconciling]
          /\ w'[n] = r /\ \A m \in Nodes \ {n} : w'[m] = w[m]
      BY <3>2, <3>3
    <3>5. /\ UNCHANGED <<unit, bus, edits, faults>>
          /\ queue' \in [Nodes -> SUBSET Units]
      BY <1>1 DEF Reconcile
    <3>. HIDE DEF r
    <3>. QED
      BY <2>2, <3>1, <3>2, <3>3, <3>4, <3>5
  <2>. QED
    BY <2>1, <2>2
<1>2. ASSUME NEW n \in Nodes, Enumerate(n) PROVE Working'
  <2>1. CASE /\ w' = [w EXCEPT ![n].pc = "list", ![n].live = LiveDevices(n)]
             /\ UNCHANGED <<queue, faults>>
    <3>1. w[n].pc # "idle" /\ LiveDevices(n) \subseteq Device
      BY <1>0, <1>2 DEF Enumerate
    <3>2. /\ UNCHANGED <<unit, bus, edits>> /\ faults' \in Nat
          /\ queue' \in [Nodes -> SUBSET Units]
      BY <1>2, <2>1 DEF Enumerate
    <3>. HIDE DEF Working
    <3>. QED
      BY Zenon, <2>1, <3>1, <3>2, RecordStep
  <2>2. CASE Fails /\ Requeue(n)
    BY <1>2, <2>2 DEF Enumerate, Requeue, Idle, NoUnits, Fails
  <2>. QED
    BY Zenon, <1>2, <2>1, <2>2 DEF Enumerate
<1>3. ASSUME NEW n \in Nodes, ListUnits(n) PROVE Working'
  <2>1. CASE /\ w' = [w EXCEPT ![n].pc = "stamp", ![n].views = unit]
             /\ UNCHANGED <<queue, faults>>
    <3>1. w[n].pc # "idle"
      BY <1>3 DEF ListUnits
    <3>2. /\ UNCHANGED <<unit, bus, edits>> /\ faults' \in Nat
          /\ queue' \in [Nodes -> SUBSET Units]
      BY <1>3, <2>1 DEF ListUnits
    <3>. HIDE DEF Working
    <3>. QED
      BY Zenon, <2>1, <3>1, <3>2, RecordStep
  <2>2. CASE Fails /\ Requeue(n)
    BY <1>3, <2>2 DEF ListUnits, Requeue, Idle, NoUnits, Fails
  <2>. QED
    BY <1>3, <2>1, <2>2 DEF ListUnits
<1>4. ASSUME NEW n \in Nodes, NEW u \in Units, StampUnit(n, u) PROVE Working'
  <2>1. unit' \in [Units -> Unit \cup {None}]
    BY <1>4, StampWrite
  <2>2. faults' \in Nat
    BY <1>4 DEF StampUnit, Fails
  <2>3. queue' \in [Nodes -> SUBSET Units]
    <3>1. \/ queue' = [queue EXCEPT ![n] = @ \cup {u}]
          \/ queue' = UnitEvent(queue, u)
      BY <1>4 DEF StampUnit
    <3>2. queue \in [Nodes -> SUBSET Units]
      OBVIOUS
    <3>. HIDE DEF Working
    <3>. QED
      BY <3>1, <3>2 DEF UnitEvent
  <2>. QED
    BY Zenon, <1>4, <2>1, <2>2, <2>3 DEF StampUnit, Idle, NoUnits
<1>5. ASSUME NEW u \in Units, CreateUnit(u) \/ DeleteUnit(u) \/ MoveUnit(u) PROVE Working'
  <2>1. unit' \in [Units -> Unit \cup {None}]
    <3>1. CASE CreateUnit(u)
      BY <3>1, DiscoveryAssumption DEF CreateUnit, Unit
    <3>2. CASE DeleteUnit(u)
      BY <3>2 DEF DeleteUnit
    <3>3. CASE MoveUnit(u)
      <4>1. PICK n \in Nodes \cup Others : unit' = [unit EXCEPT ![u].node = n]
        BY Zenon, <3>3 DEF MoveUnit
      <4>2. unit[u] \in Unit
        BY <3>3 DEF MoveUnit
      <4>3. [unit[u] EXCEPT !.node = n] \in Unit
        BY <4>2 DEF Unit
      <4>. HIDE DEF Working, TypeOK
      <4>4. unit \in [Units -> Unit \cup {None}]
        BY DEF Working, TypeOK
      <4>. QED
        BY <4>1, <4>3, <4>4
    <3>. QED
      BY <1>5, <3>1, <3>2, <3>3
  <2>. QED
    BY <1>5, <2>1 DEF CreateUnit, DeleteUnit, MoveUnit, Edit, UnitEvent
<1>6. ASSUME NEW n \in Nodes, NEW s \in Slots, Replug(n, s) PROVE Working'
  BY <1>6 DEF Replug, Edit, Bus
<1>7. ASSUME NEW n \in Nodes, Restart(n) PROVE Working'
  BY <1>7 DEF Restart, Edit, Idle, NoUnits
<1>8. CASE UNCHANGED vars
  BY <1>8 DEF vars
<1>. HIDE DEF Working
<1>. QED
  BY <1>1, <1>2, <1>3, <1>4, <1>5, <1>6, <1>7, <1>8 DEF Next, Work

\* Initially nothing runs, so Working holds.
LEMMA WorkingInit == Init => Working
BY DiscoveryAssumption DEF Init, Working, TypeOK, Reconciling, Idle, NoUnits

\* In every reachable state a running reconcile works on a unit of its own node
\* and vendor (the early returns of Reconcile).
THEOREM DiscoveryWorking == Spec => []Working
<1>. QED
  BY WorkingInit, WorkingStep, PTL DEF Spec

\* Every reachable state of the annotators, the API server and the buses is well
\* typed: merge patches and stamps never leave a malformed identity (Reconcile,
\* IdentityAnnotations, StripIdentity).
THEOREM DiscoveryTypeCorrect == Spec => []TypeOK
<1>1. Working => TypeOK
  BY DEF Working
<1>. QED
  BY <1>1, DiscoveryWorking, PTL

--------------------------------------------------------------------------------
(* What a write from current data does. *)

\* Only StampUnit writes a unit and ends the annotator's reconcile.
LEMMA OnlyStampWrites ==
  ASSUME Working, [Next]_vars, NEW n \in Nodes, NEW u \in Units, WritesFresh(n, u)
  PROVE  StampUnit(n, u)
<1>. USE DEF WritesFresh, Working, TypeOK
<1>1. ASSUME NEW m \in Nodes, NEW x \in Units, Reconcile(m, x) PROVE FALSE
  BY <1>1 DEF Reconcile
<1>2. ASSUME NEW m \in Nodes, Enumerate(m) \/ ListUnits(m) PROVE FALSE
  BY <1>2 DEF Enumerate, ListUnits
<1>3. ASSUME NEW x \in Units, CreateUnit(x) \/ DeleteUnit(x) \/ MoveUnit(x) PROVE FALSE
  BY <1>3 DEF CreateUnit, DeleteUnit, MoveUnit, Edit
<1>4. ASSUME NEW m \in Nodes, NEW s \in Slots, Replug(m, s) PROVE FALSE
  BY <1>4 DEF Replug, Edit
<1>5. ASSUME NEW m \in Nodes, Restart(m) PROVE FALSE
  BY <1>5 DEF Restart, Edit
<1>6. CASE UNCHANGED vars
  BY <1>6 DEF vars
<1>7. ASSUME NEW m \in Nodes, NEW x \in Units, StampUnit(m, x) PROVE StampUnit(n, u)
  <2>1. w' = [w EXCEPT ![m] = Idle]
    BY <1>7 DEF StampUnit
  <2>2. m = n
    BY <2>1
  <2>3. x = u
    BY <1>7, <2>2 DEF StampUnit
  <2>. QED
    BY <1>7, <2>2, <2>3
<1>. QED
  BY <1>1, <1>2, <1>3, <1>4, <1>5, <1>6, <1>7 DEF Next, Work

\* A write from current data leaves exactly what desiredAnnotations asks for, for
\* a unit that is among the node's views.
LEMMA FreshWrite ==
  ASSUME Working, [Next]_vars, NEW n \in Nodes, NEW u \in Units, WritesFresh(n, u)
  PROVE  /\ u \in nodeViews(n) /\ w[n].live \subseteq Device /\ unit[u].ann \in Stamp
         /\ \E claim \in [nodeViews(n) -> Cards \cup {None}] :
              /\ \A v \in nodeViews(n) : claim[v] \in claimedSerial(w[n].views[v].ann)
              /\ unit'[u].ann = desiredAnnotations(unit[u].ann, Question(n, claim), u)
              /\ unit'[u].ann # unit[u].ann
<1>1. StampUnit(n, u)
  BY OnlyStampWrites
<1>2. /\ w[n].copy = unit[u] /\ w[n].copy \in Unit /\ unit[u] \in Unit
      /\ w[n].live \subseteq Device /\ unit[u].ann \in Stamp /\ unit[u] = w[n].views[u]
  BY DEF WritesFresh, Working, TypeOK, Reconciling, Unit
<1>3. u \in nodeViews(n)
  BY <1>2, DiscoveryAssumption DEF WritesFresh, Working, nodeViews
<1>4. PICK claim \in [nodeViews(n) -> Cards \cup {None}] :
        /\ \A v \in nodeViews(n) : claim[v] \in claimedSerial(w[n].views[v].ann)
        /\ unit' = [unit EXCEPT ![u].ann = Merge(@, w[n].copy.ann,
              desiredAnnotations(w[n].copy.ann, Question(n, claim), u))]
  BY <1>1 DEF StampUnit, Questions, WritesFresh
<1>. DEFINE want == desiredAnnotations(unit[u].ann, Question(n, claim), u)
<1>5. want \in Stamp
  BY Zenon, <1>2, DesiredIsStamp DEF Question
<1>6. Merge(unit[u].ann, unit[u].ann, want) = want
  BY <1>2, <1>5, MergeOfStamps
<1>7. unit'[u] = [unit[u] EXCEPT !.ann = want]
  <2>1. u \in DOMAIN unit
    BY DEF Working, TypeOK
  <2>. HIDE DEF want
  <2>2. unit' = [unit EXCEPT ![u].ann = Merge(@, unit[u].ann, want)]
    BY Zenon, <1>2, <1>4 DEF want
  <2>. QED
    BY <1>6, <2>1, <2>2
<1>8. unit'[u].ann = want /\ unit'[u].ann # unit[u].ann
  <2>. HIDE DEF want
  <2>. QED
    BY <1>2, <1>7 DEF WritesFresh, Unit
<1>. QED
  BY <1>2, <1>3, <1>4, <1>8

\* One step of LiveCardKept.
LEMMA KeepsStep ==
  ASSUME Working, [Next]_vars, NEW n \in Nodes, NEW u \in Units, NEW d \in w[n].live,
         WritesFresh(n, u), Serials(unit[u].ann) = {d.serial},
         \A v \in nodeViews(n) \ {u} : d.serial \notin Serials(w[n].views[v].ann)
  PROVE  Serials(unit'[u].ann) = {d.serial}
<1>1. PICK claim \in [nodeViews(n) -> Cards \cup {None}] :
        /\ \A v \in nodeViews(n) : claim[v] \in claimedSerial(w[n].views[v].ann)
        /\ unit'[u].ann = desiredAnnotations(unit[u].ann, Question(n, claim), u)
  BY FreshWrite
<1>2. u \in nodeViews(n) /\ w[n].live \subseteq Device
  BY FreshWrite
<1>3. w[n].views[u] = unit[u] /\ d.serial # None /\ d \in Device
  BY <1>2, DiscoveryAssumption DEF WritesFresh, Device
<1>. DEFINE q == Question(n, claim)
<1>4. /\ q.units = nodeViews(n) /\ q.units \subseteq Units
      /\ q.serial = claim /\ q.live = w[n].live
  BY Zenon DEF Question, nodeViews
<1>5. q.stamped[u]
  <2>1. unit[u].ann # NoStamp
    BY StampOfNothing
  <2>. QED
    BY Zenon, <1>2, <1>3, <2>1 DEF Question, HasIdentity
<1>6. claim[u] = d.serial /\ \A v \in nodeViews(n) \ {u} : claim[v] # d.serial
  <2>1. claim[u] \in claimedSerial(unit[u].ann)
    BY <1>1, <1>2, <1>3
  <2>2. claim[u] = d.serial
    BY <1>3, <2>1, ClaimOfStamp
  <2>3. ASSUME NEW v \in nodeViews(n) \ {u} PROVE claim[v] # d.serial
    <3>1. claim[v] \in claimedSerial(w[n].views[v].ann) /\ d.serial \notin Serials(w[n].views[v].ann)
      BY <1>1
    <3>. QED
      BY <1>3, <3>1, ClaimOfStamp
  <2>. QED
    BY <2>2, <2>3
<1>7. /\ AssignDevices(q, u, d)
      /\ \A e \in q.live : AssignDevices(q, u, e) => e.serial = d.serial
  <2>. HIDE DEF q
  <2>. QED
    BY <1>2, <1>4, <1>5, <1>6, SoleClaimantKeeps
<1>. DEFINE e == CHOOSE x \in q.live : AssignDevices(q, u, x)
<1>8. e \in q.live /\ e.serial = d.serial
  <2>. HIDE DEF q
  <2>1. \E x \in q.live : AssignDevices(q, u, x)
    BY <1>4, <1>7
  <2>2. e \in q.live /\ AssignDevices(q, u, e)
    BY <2>1, Zenon
  <2>. QED
    BY <1>7, <2>2
<1>9. desiredAnnotations(unit[u].ann, q, u) = IdentityAnnotations(e)
  <2>. HIDE DEF q
  <2>. QED
    BY <1>2, <1>4, <1>7 DEF desiredAnnotations
<1>10. Serials(IdentityAnnotations(e)) = {e.serial}
  <2>. HIDE DEF e, q
  <2>. QED
    BY <1>2, <1>4, <1>8, StampOfDevice
<1>. QED
  BY Zenon, <1>1, <1>8, <1>9, <1>10

\* One step of NoCardTwice.
LEMMA TwiceStep ==
  ASSUME Working, [Next]_vars, NEW n \in Nodes, NEW u \in Units, NEW d \in w[n].live,
         WritesFresh(n, u), d.serial \notin Serials(unit[u].ann),
         d.serial \in Serials(unit'[u].ann), NEW v \in nodeViews(n) \ {u}
  PROVE  Serials(unit[v].ann) # {d.serial}
<1>. SUFFICES ASSUME Serials(unit[v].ann) = {d.serial} PROVE FALSE
  OBVIOUS
<1>1. PICK claim \in [nodeViews(n) -> Cards \cup {None}] :
        /\ \A x \in nodeViews(n) : claim[x] \in claimedSerial(w[n].views[x].ann)
        /\ unit'[u].ann = desiredAnnotations(unit[u].ann, Question(n, claim), u)
  BY FreshWrite
<1>2. u \in nodeViews(n) /\ w[n].live \subseteq Device
  BY FreshWrite
<1>3. w[n].views[u] = unit[u] /\ w[n].views[v] = unit[v] /\ d.serial # None /\ d \in Device
  BY <1>2, DiscoveryAssumption DEF WritesFresh, Device
<1>. DEFINE q == Question(n, claim)
<1>4. /\ q.units = nodeViews(n) /\ q.units \subseteq Units
      /\ q.serial = claim /\ q.live = w[n].live
  BY Zenon DEF Question, nodeViews
<1>5. claim[u] # d.serial /\ claim[v] = d.serial
  BY <1>1, <1>2, <1>3, ClaimOfStamp
<1>. DEFINE e == CHOOSE x \in q.live : AssignDevices(q, u, x)
<1>. HIDE DEF q
<1>6. /\ \E x \in q.live : u \in q.units /\ AssignDevices(q, u, x)
      /\ unit'[u].ann = IdentityAnnotations(e)
  <2>1. unit'[u].ann = desiredAnnotations(unit[u].ann, q, u)
    BY <1>1 DEF q
  <2>2. unit'[u].ann # NoStamp /\ unit'[u].ann # unit[u].ann
    BY StampOfNothing
  <2>. QED
    BY <2>1, <2>2 DEF desiredAnnotations
<1>7. e \in q.live /\ AssignDevices(q, u, e) /\ e \in Device
  BY <1>2, <1>4, <1>6
<1>8. e.serial = d.serial
  <2>. HIDE DEF e
  <2>1. Serials(IdentityAnnotations(e)) = {e.serial}
    BY <1>7, StampOfDevice
  <2>. QED
    BY <1>6, <2>1
<1>. HIDE DEF e
<1>9. /\ u \in q.units /\ q.serial[u] # e.serial
      /\ v \in q.units /\ q.serial[v] = e.serial
  BY <1>2, <1>4, <1>5, <1>8
<1>10. ~AssignDevices(q, u, e) \/ u \notin q.units
  BY <1>4, <1>9, ClaimedGoesToClaimant
<1>. QED
  BY <1>7, <1>9, <1>10

--------------------------------------------------------------------------------

\* A reconcile that works from current data keeps the identity of a unit whose
\* card is on the bus, unless another unit claims the same serial: "Serial wins,
\* then PCI" (AssignDevices), for every bus and unit set.
THEOREM LiveCardIsKept == Spec => LiveCardKept
<1>1. Working /\ [Next]_vars =>
        [\A n \in Nodes, u \in Units : \A d \in w[n].live :
            /\ WritesFresh(n, u)
            /\ Serials(unit[u].ann) = {d.serial}
            /\ \A v \in nodeViews(n) \ {u} : d.serial \notin Serials(w[n].views[v].ann)
         => Serials(unit'[u].ann) = {d.serial}]_vars
  BY KeepsStep
<1>. QED
  BY <1>1, DiscoveryWorking, PTL DEF Spec, LiveCardKept

\* A reconcile that works from current data never gives a unit a card that
\* another unit of the node already claims (the used set of AssignDevices).
THEOREM CardIsNotGivenTwice == Spec => NoCardTwice
<1>1. Working /\ [Next]_vars =>
        [\A n \in Nodes, u \in Units : \A d \in w[n].live :
            /\ WritesFresh(n, u)
            /\ d.serial \notin Serials(unit[u].ann)
            /\ d.serial \in Serials(unit'[u].ann)
         => \A v \in nodeViews(n) \ {u} : Serials(unit[v].ann) # {d.serial}]_vars
  BY TwiceStep
<1>. QED
  BY <1>1, DiscoveryWorking, PTL DEF Spec, NoCardTwice

--------------------------------------------------------------------------------
(* Beside the plugin's server and the daemon: a step of theirs is a step of      *)
(* Discovery, or it wakes an annotator and leaves units, bus and running         *)
(* reconciles as they are.  Reporting makes the invariant inductive: a daemon    *)
(* that reports units has some left, so the next one is a unit.                  *)

Reporting ==
  /\ daemon \in [Nodes -> Daemon]
  /\ \A n \in Nodes : daemon[n].pc = "reportUnits" => daemon[n].todo # {}

VspInv == Working /\ Reporting

\* Somebody else's write of a unit's status, or a step that only counts.
Beside ==
  /\ UNCHANGED <<unit, bus, w>>
  /\ queue' \in [Nodes -> SUBSET Units]
  /\ edits' \in Nat /\ faults' \in Nat

\* What ListMatching found is a set of units, and the first of them is one.
LEMMA NextUnit ==
  ASSUME NEW us \in SUBSET Units, us # {}
  PROVE  (CHOOSE x \in us : \A y \in us : x <= y) \in us
<1>1. \E x \in us : \A y \in us : x <= y
  BY SmallestNumber, DiscoveryAssumption
<1>. QED
  BY <1>1

\* A daemon record that changes as a step of the daemon changes it.
LEMMA DaemonRecord ==
  ASSUME Reporting, NEW n \in Nodes, NEW r \in Daemon, r.pc = "reportUnits" => r.todo # {},
         daemon' = [daemon EXCEPT ![n] = r]
  PROVE  Reporting'
BY DEF Reporting

LEMMA StartedRecord == Started \in Daemon /\ Started.pc = "init"
BY DEF Started, Daemon

\* Steps of the daemon that go on to a step without units to report.
LEMMA GotoRecord ==
  ASSUME Reporting, NEW n \in Nodes,
         NEW pc \in {"init", "getDevices", "listUnits", "listConfigs", "reportConfigs", "done"},
         Goto(n, pc)
  PROVE  Reporting'
<1>. DEFINE r == [daemon[n] EXCEPT !.pc = pc]
<1>1. daemon' = [daemon EXCEPT ![n] = r]
  BY DEF Goto, Reporting
<1>2. r \in Daemon /\ r.pc # "reportUnits"
  BY DEF Reporting, Daemon
<1>. HIDE DEF r
<1>. QED
  BY Zenon, <1>1, <1>2, DaemonRecord

LEMMA ExitRecord ==
  ASSUME Reporting, NEW n \in Nodes, Exit(n)
  PROVE  Reporting'
BY Zenon, StartedRecord, DaemonRecord DEF Exit

\* The daemon and the server are beside the annotators, and keep Reporting.
LEMMA DaemonBeside ==
  ASSUME VspInv, NEW n \in Nodes,
         Serve(n) \/ DaemonStep(n) \/ ReportFails(n) \/ RestartDaemon(n)
  PROVE  (UNCHANGED vars \/ Beside) /\ Reporting'
<1>. USE DEF Beside, vars
<1>0. /\ Working /\ Reporting /\ daemon[n] \in Daemon /\ edits \in Nat /\ faults \in Nat
      /\ queue \in [Nodes -> SUBSET Units]
  BY Zenon DEF VspInv, Working, TypeOK, Reporting
<1>1. CASE Serve(n)
  BY Zenon, <1>0, <1>1 DEF Serve, Reporting
<1>2. CASE Handshake(n) \/ ListConfigs(n) \/ ReportConfig(n)
  <2>1. UNCHANGED vars
    BY <1>2 DEF Handshake, ListConfigs, ReportConfig
  <2>2. \/ Exit(n)
        \/ \E pc \in {"getDevices", "reportConfigs", "done"} : Goto(n, pc)
    BY <1>2 DEF Handshake, ListConfigs, ReportConfig
  <2>. QED
    BY <1>0, <2>1, <2>2, ExitRecord, GotoRecord
<1>3. CASE GetDevices(n)
  <2>1. UNCHANGED vars \/ Beside
    BY <1>0, <1>3 DEF GetDevices, Fails
  <2>2. CASE Goto(n, "init")
    BY <1>0, <2>1, <2>2, GotoRecord
  <2>3. CASE ~Goto(n, "init")
    <3>. DEFINE ids == {d.serial : d \in LiveDevices(n)}
                r == [pc |-> IF ids = {} THEN "done" ELSE "listUnits", seen |-> ids, todo |-> {}]
    <3>1. daemon' = [daemon EXCEPT ![n] = r]
      BY Zenon, <1>3, <2>3 DEF GetDevices
    <3>2. ids \subseteq Cards
      BY <1>0, LiveAreDevices DEF Device, Working
    <3>. HIDE DEF ids
    <3>3. r \in Daemon /\ r.pc # "reportUnits"
      BY <3>2 DEF Daemon
    <3>. HIDE DEF r
    <3>. QED
      BY Zenon, <1>0, <2>1, <3>1, <3>3, DaemonRecord
  <2>. QED
    BY <2>2, <2>3
<1>4. CASE ListMatching(n)
  <2>. DEFINE us == {u \in Units : matchDPUSerial(u, daemon[n].seen)}
              r == [daemon[n] EXCEPT !.todo = us,
                                     !.pc = IF us = {} THEN "listConfigs" ELSE "reportUnits"]
  <2>1. UNCHANGED vars /\ daemon' = [daemon EXCEPT ![n] = r]
    BY Zenon, <1>0, <1>4 DEF ListMatching, Reporting
  <2>2. us \subseteq Units
    OBVIOUS
  <2>. HIDE DEF us
  <2>3. r \in Daemon /\ (r.pc = "reportUnits" => r.todo # {})
    BY Zenon, <1>0, <2>2 DEF Daemon
  <2>. HIDE DEF r
  <2>. QED
    BY Zenon, <1>0, <2>1, <2>3, DaemonRecord
<1>5. CASE ReportUnit(n)
  <2>. DEFINE todo == daemon[n].todo
              u == CHOOSE x \in todo : \A y \in todo : x <= y
              r == [daemon[n] EXCEPT !.todo = todo \ {u},
                                     !.pc = IF todo = {u} THEN "listConfigs" ELSE @]
  <2>1. todo \in SUBSET Units /\ todo # {} /\ daemon[n].pc = "reportUnits"
    BY <1>0, <1>5 DEF ReportUnit, Reporting, Daemon
  <2>2. /\ \/ Exit(n) /\ queue' = queue
           \/ daemon' = [daemon EXCEPT ![n] = r] /\ queue' \in {queue, UnitEvent(queue, u)}
        /\ UNCHANGED <<unit, bus, w, edits, faults>>
    BY Zenon, <1>0, <1>5 DEF ReportUnit, Reporting
  <2>3. u \in todo
    BY <2>1, NextUnit
  <2>. HIDE DEF u
  <2>4. r \in Daemon /\ (r.pc = "reportUnits" => r.todo # {})
    BY Zenon, <1>0, <2>1, <2>3 DEF Daemon
  <2>5. UnitEvent(queue, u) \in [Nodes -> SUBSET Units]
    BY <1>0, <2>1, <2>3 DEF UnitEvent
  <2>. HIDE DEF r, todo
  <2>. QED
    BY Zenon, <1>0, <2>2, <2>4, <2>5, DaemonRecord, ExitRecord
<1>6. CASE ReportFails(n)
  BY <1>0, <1>6, ExitRecord DEF ReportFails, Fails
<1>7. CASE RestartDaemon(n)
  BY <1>0, <1>7, ExitRecord DEF RestartDaemon, Edit
<1>. QED
  BY <1>1, <1>2, <1>3, <1>4, <1>5, <1>6, <1>7 DEF DaemonStep

\* A step of the composition, as Discovery sees it.
LEMMA SeenByDiscovery ==
  ASSUME VspInv, [VspNext]_allVars
  PROVE  ([Next]_vars \/ Beside) /\ Reporting'
<1>0. /\ Reporting /\ edits \in Nat /\ faults \in Nat /\ queue \in [Nodes -> SUBSET Units]
      /\ (daemon' = daemon => Reporting')
  BY DEF VspInv, Working, TypeOK, Reporting
<1>1. ASSUME NEW n \in Nodes, AnnotatorStep(n) PROVE Next /\ daemon' = daemon
  BY <1>1 DEF AnnotatorStep, Next, vspVars
<1>2. ASSUME NEW n \in Nodes, RestartPlugin(n) PROVE Next /\ daemon' = daemon
  BY <1>2 DEF RestartPlugin, Next
<1>3. ASSUME NEW u \in Units, (CreateUnit(u) \/ MoveUnit(u)) /\ UNCHANGED vspVars
      PROVE  Next /\ daemon' = daemon
  BY <1>3 DEF Next, vspVars
<1>4. ASSUME NEW u \in Units, RemoveUnit(u) PROVE Next /\ daemon' = daemon
  BY <1>4 DEF RemoveUnit, Next
<1>5. ASSUME NEW n \in Nodes, NEW s \in Slots, Replug(n, s) /\ UNCHANGED vspVars
      PROVE  Next /\ daemon' = daemon
  BY <1>5 DEF Next, vspVars
<1>6. CASE CreateConfig \/ DeleteConfig
  <2>1. Beside /\ daemon' = daemon
    BY <1>0, <1>6 DEF CreateConfig, DeleteConfig, Edit, Beside
  <2>. QED
    BY <1>0, <2>1
<1>7. CASE UNCHANGED allVars
  <2>1. UNCHANGED vars /\ daemon' = daemon
    BY <1>7 DEF allVars, vspVars
  <2>. QED
    BY <1>0, <2>1
<1>8. ASSUME NEW n \in Nodes,
             Serve(n) \/ DaemonStep(n) \/ ReportFails(n) \/ RestartDaemon(n)
      PROVE  (UNCHANGED vars \/ Beside) /\ Reporting'
  BY <1>8, DaemonBeside
<1>. QED
  BY <1>0, <1>1, <1>2, <1>3, <1>4, <1>5, <1>6, <1>7, <1>8 DEF VspNext

\* A step beside the annotators keeps their invariant.
LEMMA BesideWorking ==
  ASSUME Working, Beside
  PROVE  Working'
BY DEF Working, TypeOK, Beside, ownsSource

LEMMA VspInvStep == VspInv /\ [VspNext]_allVars => VspInv'
BY SeenByDiscovery, BesideWorking, WorkingStep DEF VspInv

LEMMA VspInvInit == VspInit => VspInv
BY WorkingInit, StartedRecord DEF VspInit, VspInv, Reporting

\* Beside a plugin and a daemon that come, go and report, a running reconcile
\* still works on a unit of its own node and vendor, and a reporting daemon on a
\* unit (Reconcile, reportReadyOnGVKs).
THEOREM VspInvariant == VspSpec => []VspInv
<1>. QED
  BY VspInvInit, VspInvStep, PTL DEF VspSpec

\* The units, buses, queues and reconciles of the composition are well typed,
\* whatever the daemon's writes wake.
THEOREM VspTypeCorrect == VspSpec => []TypeOK
<1>1. VspInv => TypeOK
  BY DEF VspInv, Working
<1>. QED
  BY <1>1, VspInvariant, PTL

\* No write to a unit is beside the annotators.
LEMMA BesideWritesNothing ==
  ASSUME Beside, NEW n \in Nodes, NEW u \in Units
  PROVE  ~WritesFresh(n, u)
BY DEF Beside, WritesFresh

\* With the daemon at work, a reconcile from current data keeps the identity of a
\* unit whose card it saw ("Serial wins, then PCI", AssignDevices).
THEOREM VspKeepsLiveCard == VspSpec => LiveCardKept
<1>1. VspInv /\ [VspNext]_allVars =>
        [\A n \in Nodes, u \in Units : \A d \in w[n].live :
            /\ WritesFresh(n, u)
            /\ Serials(unit[u].ann) = {d.serial}
            /\ \A v \in nodeViews(n) \ {u} : d.serial \notin Serials(w[n].views[v].ann)
         => Serials(unit'[u].ann) = {d.serial}]_vars
  BY SeenByDiscovery, BesideWritesNothing, KeepsStep DEF VspInv
<1>. QED
  BY <1>1, VspInvariant, PTL DEF VspSpec, LiveCardKept

\* With the daemon at work, a reconcile from current data never gives a unit a
\* card that another unit of the node already claims (the used set).
THEOREM VspGivesNoCardTwice == VspSpec => NoCardTwice
<1>1. VspInv /\ [VspNext]_allVars =>
        [\A n \in Nodes, u \in Units : \A d \in w[n].live :
            /\ WritesFresh(n, u)
            /\ d.serial \notin Serials(unit[u].ann)
            /\ d.serial \in Serials(unit'[u].ann)
         => \A v \in nodeViews(n) \ {u} : Serials(unit[v].ann) # {d.serial}]_vars
  BY SeenByDiscovery, BesideWritesNothing, TwiceStep DEF VspInv
<1>. QED
  BY <1>1, VspInvariant, PTL DEF VspSpec, NoCardTwice

================================================================================
