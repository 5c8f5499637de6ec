---------------------------- MODULE HelmStorageLemmas ----------------------------
(***************************************************************************)
(* The inductive invariant of HelmStorage, Inv: types and mutexes, and for *)
(* every running call what the Secrets it is about to touch look like as   *)
(* long as nobody overtook it.  What the operators on the Secrets return,  *)
(* what a step of one call must show to keep Inv, and what it must show to *)
(* be a step of ReleaseCalls.                                              *)
(***************************************************************************)
EXTENDS HelmStorage, WellFoundedInduction, TLAPS

Items == [Revision -> Secret \cup {None}]

\* What holds of call k while the storage is items.
Working(k, items) ==
  /\ k.pc # "idle" => k.op \in Ops
  /\ k.pc \in {"claimLock", "claimRead", "claimList", "claimGet", "claimUpdate"} => k.op = "claim"
  /\ k.pc \in {"lock", "read", "find", "supersede", "apply", "store", "objects", "list", "secrets"}
       => k.op # "claim" /\ ~protected
  /\ k.pc \in {"find", "supersede"} =>
       /\ k.op \in {"upgrade", "rollback"} /\ k.rev \in Revision /\ k.rev < MaxRevision
       /\ ~k.overtaken => k.rev \in Visible(items)
  /\ k.pc \in {"apply", "store"} =>
       k.op \in {"install", "upgrade", "rollback"} /\ k.rev < MaxRevision
  /\ k.pc \in {"objects", "list", "secrets"} => k.op = "uninstall"
  /\ k.pc = "secrets" /\ ~k.overtaken => \A r \in Revision : items[r] # None => r \in k.todo
  /\ k.pc \in {"claimGet", "claimUpdate"} => k.rev \in Revision

Inv == TypeOK /\ \A c \in Callers : Working(call[c], secret)

--------------------------------------------------------------------------------
(* Storage. *)

LEMMA SmallestNumber ==
  ASSUME NEW S \in SUBSET Nat, S # {}
  PROVE  \E x \in S : \A y \in S : x <= y
<1>1. PICK x \in S : \A y \in S : ~ (<<y, x>> \in OpToRel(<, Nat))
  BY Zenon, NatLessThanWellFounded, WFMin
<1>2. OpToRel(<, Nat) = {p \in Nat \X Nat : p[1] < p[2]}
  BY Zenon DEF OpToRel
<1>3. ASSUME NEW y \in S PROVE x <= y
  <2>1. <<y, x>> \notin {p \in Nat \X Nat : p[1] < p[2]}
    BY <1>1, <1>2, Zenon
  <2>2. ~(y < x)
    BY <2>1
  <2>. QED
    BY <2>2
<1>. QED
  BY <1>3

\* A non-empty set of revisions has a smallest and a largest element.
LEMMA Extremes ==
  ASSUME NEW S \in SUBSET Revision, S # {}
  PROVE  /\ Max(S) \in S /\ \A x \in S : x <= Max(S)
         /\ Min(S) \in S /\ \A x \in S : Min(S) <= x
<1>0. MaxRevision \in Nat
  BY StorageAssumption
<1>1. S \in SUBSET Nat
  BY <1>0 DEF Revision
<1>2. \E x \in S : \A y \in S : x <= y
  BY <1>1, SmallestNumber
<1>. DEFINE T == {MaxRevision - x : x \in S}
<1>3. T \in SUBSET Nat /\ T # {}
  <2>1. \A x \in S : MaxRevision - x \in Nat
    BY <1>0 DEF Revision
  <2>. QED
    BY <2>1
<1>4. PICK t \in T : \A u \in T : t <= u
  BY Zenon, <1>3, SmallestNumber
<1>5. \E x \in S : \A y \in S : x >= y
  <2>1. PICK x \in S : t = MaxRevision - x
    BY <1>4
  <2>2. ASSUME NEW y \in S PROVE x >= y
    <3>1. MaxRevision - x <= MaxRevision - y
      BY <1>4, <2>1
    <3>. QED
      BY <1>0, <1>1, <3>1
  <2>. QED
    BY <2>2
<1>6. Max(S) \in S /\ \A y \in S : Max(S) >= y
  BY <1>5 DEF Max
<1>7. Min(S) \in S /\ \A y \in S : Min(S) <= y
  BY <1>2 DEF Min
<1>. QED
  BY <1>1, <1>6, <1>7

\* The release is the one of the newest visible Secret.
LEMMA ReleaseOfNewest ==
  ASSUME NEW items, NEW r \in Visible(items), \A x \in Visible(items) : x <= r
  PROVE  ReleaseIn(items) = releaseFromHelmSecret(items[r])
<1>1. Visible(items) \in SUBSET Revision /\ Visible(items) # {}
  BY DEF Visible
<1>2. Max(Visible(items)) \in Visible(items) /\ r <= Max(Visible(items))
  BY <1>1, Extremes
<1>3. Max(Visible(items)) <= r
  BY <1>2
<1>4. r \in Int /\ Max(Visible(items)) \in Int
  BY <1>1, <1>2, StorageAssumption DEF Revision
<1>5. Max(Visible(items)) = r
  BY <1>2, <1>3, <1>4
<1>. QED
  BY <1>1, <1>5 DEF ReleaseIn, latestHelmSecret

\* Some Secret is the newest visible one, unless there is no release.
LEMMA NewestVisible ==
  ASSUME NEW items
  PROVE  \/ Visible(items) = {} /\ ReleaseIn(items) = None /\ latestHelmSecret(items) = 0
         \/ /\ latestHelmSecret(items) \in Visible(items)
            /\ \A x \in Visible(items) : x <= latestHelmSecret(items)
            /\ ReleaseIn(items) = releaseFromHelmSecret(items[latestHelmSecret(items)])
<1>1. CASE Visible(items) = {}
  BY <1>1 DEF ReleaseIn, latestHelmSecret
<1>2. CASE Visible(items) # {}
  <2>1. Visible(items) \in SUBSET Revision
    BY DEF Visible
  <2>. QED
    BY <1>2, <2>1, Extremes DEF ReleaseIn, latestHelmSecret
<1>. QED
  BY <1>1, <1>2

LEMMA ReleaseOfSecret ==
  ASSUME NEW s \in Secret
  PROVE  releaseFromHelmSecret(s) \in Release
BY Zenon DEF Secret, Release, releaseFromHelmSecret, Storages, Owners, Modes

\* What GetRelease returns is a release.
LEMMA ReleaseType ==
  ASSUME NEW items \in Items
  PROVE  ReleaseIn(items) \in Release \cup {None}
<1>1. CASE Visible(items) = {}
  BY <1>1, NewestVisible
<1>2. CASE Visible(items) # {}
  <2>1. PICK r \in Visible(items) : ReleaseIn(items) = releaseFromHelmSecret(items[r])
    BY <1>2, NewestVisible
  <2>2. items[r] \in Secret
    BY DEF Visible, Items
  <2>. QED
    BY <2>1, <2>2, ReleaseOfSecret
<1>. QED
  BY <1>1, <1>2

\* A change that hides nothing and changes no release's content is not seen.
LEMMA SameRelease ==
  ASSUME NEW items, NEW next, Visible(next) = Visible(items),
         \A r \in Visible(items) : releaseFromHelmSecret(next[r]) = releaseFromHelmSecret(items[r])
  PROVE  ReleaseIn(next) = ReleaseIn(items)
<1>1. CASE Visible(items) = {}
  BY <1>1, NewestVisible
<1>2. CASE Visible(items) # {}
  <2>1. PICK n \in Visible(items) : /\ \A x \in Visible(items) : x <= n
                                    /\ ReleaseIn(items) = releaseFromHelmSecret(items[n])
    BY <1>2, NewestVisible
  <2>2. ReleaseIn(next) = releaseFromHelmSecret(next[n])
    BY <2>1, ReleaseOfNewest
  <2>. QED
    BY <2>1, <2>2
<1>. QED
  BY <1>1, <1>2

\* storeSecret: the release is the stored one, or a newer one stays.
LEMMA StoreRelease ==
  ASSUME NEW items \in Items, NEW k \in Revision, NEW v \in Version,
         NEW next, next = [items EXCEPT ![k] = StoredSecret(v)]
  PROVE  ReleaseIn(next) \in {ReleaseIn(items), StoredRelease(v)}
<1>1. /\ k \in Visible(next) /\ releaseFromHelmSecret(next[k]) = StoredRelease(v)
      /\ \A r \in Revision \ {k} : next[r] = items[r]
  <2>1. StoredSecret(v) # None
    <3>1. StoredSecret(v) \in Secret
      BY DEF StoredSecret, Secret, Statuses, Owners, Modes
    <3>. QED
      BY <3>1, StorageAssumption
  <2>2. next[k] = StoredSecret(v)
    BY DEF Items
  <2>. QED
    BY <2>1, <2>2 DEF Items, Visible, StoredSecret, StoredRelease
<1>2. PICK n \in Visible(next) : /\ \A x \in Visible(next) : x <= n
                                 /\ ReleaseIn(next) = releaseFromHelmSecret(next[n])
  BY Zenon, <1>1, NewestVisible
<1>3. CASE n = k
  BY <1>1, <1>2, <1>3
<1>4. CASE n # k
  <2>1. n \in Visible(items) /\ next[n] = items[n]
    BY <1>1, <1>2, <1>4 DEF Visible
  <2>2. ASSUME NEW x \in Visible(items) PROVE x <= n
    <3>1. x \in Visible(next)
      BY <1>1 DEF Visible
    <3>. QED
      BY Zenon, <1>2, <3>1
  <2>3. ReleaseIn(items) = releaseFromHelmSecret(items[n])
    BY <2>1, <2>2, ReleaseOfNewest
  <2>. QED
    BY <1>2, <2>1, <2>3
<1>. QED
  BY <1>3, <1>4

\* The Secrets after ClaimUpdate's stamp on revision k.
Stamped(items, k) == [items EXCEPT ![k] = [items[k] EXCEPT !.owner = "adapter", !.mode = "adopted"]]

\* The adoption stamp: the release is stamped, or it is another revision's.
LEMMA StampRelease ==
  ASSUME NEW items \in Items, NEW k \in Revision, items[k] # None,
         NEW next, next = Stamped(items, k)
  PROVE  /\ next \in Items /\ Visible(next) = Visible(items)
         /\ \A r \in Revision : next[r] = None <=> items[r] = None
         /\ \/ ReleaseIn(next) = ReleaseIn(items)
            \/ /\ ReleaseIn(items) # None
               /\ ReleaseIn(next) = stampAdoptedLabels(ReleaseIn(items))
<1>. DEFINE s == [items[k] EXCEPT !.owner = "adapter", !.mode = "adopted"]
<1>1. items[k] \in Secret
  BY DEF Items
<1>2. s \in Secret /\ s.label = items[k].label
  BY Zenon, <1>1 DEF Secret, Owners, Modes
<1>3. s # None
  BY <1>2, StorageAssumption
<1>4. /\ releaseFromHelmSecret(s) = IF items[k].owned THEN releaseFromHelmSecret(items[k])
                                    ELSE stampAdoptedLabels(releaseFromHelmSecret(items[k]))
  BY Zenon, <1>1 DEF Secret, releaseFromHelmSecret, stampAdoptedLabels
<1>5. next = [items EXCEPT ![k] = s]
  BY DEF Stamped
<1>. HIDE DEF s
<1>6. next \in Items /\ next[k] = s /\ \A r \in Revision \ {k} : next[r] = items[r]
  BY <1>2, <1>5 DEF Items
<1>7. Visible(next) = Visible(items)
  BY <1>2, <1>3, <1>6 DEF Visible
<1>8. CASE Visible(items) = {}
  BY <1>3, <1>6, <1>7, <1>8, NewestVisible
<1>9. CASE Visible(items) # {}
  <2>1. PICK n \in Visible(items) : /\ \A x \in Visible(items) : x <= n
                                    /\ ReleaseIn(items) = releaseFromHelmSecret(items[n])
    BY <1>9, NewestVisible
  <2>2. ReleaseIn(next) = releaseFromHelmSecret(next[n])
    BY <1>7, <2>1, ReleaseOfNewest
  <2>3. n \in Revision /\ items[n] \in Secret
    BY DEF Visible, Items
  <2>4. ReleaseIn(items) # None
    <3>1. ReleaseIn(items) \in Release
      BY <2>1, <2>3, ReleaseOfSecret
    <3>. QED
      BY <3>1, StorageAssumption
  <2>. QED
    BY <1>3, <1>4, <1>6, <1>7, <2>1, <2>2, <2>3, <2>4
<1>. QED
  BY <1>8, <1>9

\* The oldest Secret of a storage is deleted: nothing is seen of it, unless it
\* was the only visible one.
LEMMA DeleteOldest ==
  ASSUME NEW items \in Items, NEW k \in Revision, \A r \in Revision : items[r] # None => k <= r,
         NEW next, next = [items EXCEPT ![k] = None]
  PROVE  \/ Visible(items) \subseteq {k} /\ ReleaseIn(next) = None
         \/ /\ \E r \in Revision : r # k /\ items[r] # None
            /\ ReleaseIn(next) = ReleaseIn(items)
<1>1. Visible(next) = Visible(items) \ {k} /\ \A r \in Revision \ {k} : next[r] = items[r]
  BY DEF Items, Visible
<1>2. CASE Visible(items) \subseteq {k}
  <2>1. Visible(next) = {}
    BY Zenon, <1>1, <1>2
  <2>. QED
    BY Zenon, <1>2, <2>1, NewestVisible
<1>3. CASE ~(Visible(items) \subseteq {k})
  <2>1. PICK n \in Visible(next) : /\ \A x \in Visible(next) : x <= n
                                   /\ ReleaseIn(next) = releaseFromHelmSecret(next[n])
    BY Zenon, <1>1, <1>3, NewestVisible
  <2>2. n \in Visible(items) /\ n # k /\ n \in Revision /\ items[n] # None /\ next[n] = items[n]
    BY <1>1, <2>1 DEF Visible
  <2>3. k <= n
    BY <2>2
  <2>4. \A x \in Visible(items) : x <= n
    BY Zenon, <1>1, <2>1, <2>3
  <2>5. ReleaseIn(items) = releaseFromHelmSecret(items[n])
    BY <2>2, <2>4, ReleaseOfNewest
  <2>. QED
    BY <2>1, <2>2, <2>5
<1>. QED
  BY <1>2, <1>3

--------------------------------------------------------------------------------
(* The invariant. *)

LEMMA IdleType == Idle \in Call
BY PinAssumption, StorageAssumption DEF Idle, Call, Steps, Version

LEMMA InvInit == Init => Inv
<1>. SUFFICES ASSUME Init PROVE Inv
  OBVIOUS
<1>1. ASSUME NEW c \in Callers
      PROVE  /\ call[c] = Idle /\ lock # c /\ claimLock # c
             /\ ~Holds(call[c]) /\ ~HoldsClaim(call[c])
  BY StorageAssumption DEF Init, Idle, Holds, HoldsClaim
<1>2. TypeOK
  BY <1>1, IdleType DEF Init, TypeOK
<1>3. ASSUME NEW c \in Callers PROVE Working(call[c], secret)
  BY <1>1 DEF Idle, Working
<1>. QED
  BY <1>2, <1>3 DEF Inv

\* The storage changes in a way that calls other than c's do not mind: it does
\* not, c holds the mutex, or only labels change.
Compatible(c) ==
  \/ secret' = secret
  \/ ~protected /\ lock = c
  \/ /\ Visible(secret') = Visible(secret)
     /\ \A r \in Revision : secret'[r] = None <=> secret[r] = None

\* Mutex m stays, is taken or is freed by c, whose call becomes one that holds it
\* (after) or not.
Locks(c, m, next, before, after) ==
  \/ next = m /\ (before <=> after)
  \/ m = None /\ next = c /\ after
  \/ next = (IF m = c THEN None ELSE m) /\ ~after

\* What a step of c may do.
LEMMA StepInv ==
  ASSUME Inv, NEW c \in Callers, NEW k \in Call,
         call' = [call EXCEPT ![c] = k], protected' = protected,
         secret' \in Items, chart' \in Version \cup {None}, edits' \in Nat, faults' \in Nat,
         Compatible(c), Working(k, secret'),
         Locks(c, lock, lock', Holds(call[c]), Holds(k)),
         Locks(c, claimLock, claimLock', HoldsClaim(call[c]), HoldsClaim(k))
  PROVE  Inv'
<1>1. /\ call' \in [Callers -> Call] /\ call'[c] = k
      /\ \A d \in Callers \ {c} : call'[d] = call[d]
  BY DEF Inv, TypeOK
<1>2. /\ lock \in Callers \cup {None} /\ claimLock \in Callers \cup {None}
      /\ \A d \in Callers : /\ lock = d <=> Holds(call[d])
                            /\ claimLock = d <=> HoldsClaim(call[d])
  BY DEF Inv, TypeOK
<1>3. None \notin Callers
  BY StorageAssumption
<1>4. /\ lock' \in Callers \cup {None} /\ (lock' = c <=> Holds(k))
      /\ \A d \in Callers \ {c} : lock' = d <=> lock = d
  BY <1>2, <1>3 DEF Locks
<1>5. /\ claimLock' \in Callers \cup {None} /\ (claimLock' = c <=> HoldsClaim(k))
      /\ \A d \in Callers \ {c} : claimLock' = d <=> claimLock = d
  BY <1>2, <1>3 DEF Locks
<1>6. ASSUME NEW d \in Callers
      PROVE  (lock' = d <=> Holds(call[d])') /\ (claimLock' = d <=> HoldsClaim(call[d])')
  <2>1. CASE d = c
    BY <1>1, <1>4, <1>5, <2>1 DEF Holds, HoldsClaim
  <2>2. CASE d # c
    <3>1. lock = d <=> Holds(call[d])
      BY <1>2
    <3>2. claimLock = d <=> HoldsClaim(call[d])
      BY <1>2
    <3>3. call'[d] = call[d] /\ (lock' = d <=> lock = d) /\ (claimLock' = d <=> claimLock = d)
      BY <1>1, <1>4, <1>5, <2>2
    <3>4. (Holds(call[d])' <=> Holds(call[d])) /\ (HoldsClaim(call[d])' <=> HoldsClaim(call[d]))
      BY <3>3 DEF Holds, HoldsClaim
    <3>. QED
      BY <3>1, <3>2, <3>3, <3>4
  <2>. QED
    BY <2>1, <2>2
<1>7. TypeOK'
  BY <1>1, <1>4, <1>5, <1>6 DEF TypeOK, Inv, Items
<1>8. ASSUME NEW d \in Callers PROVE Working(call[d], secret)'
  <2>1. CASE d = c
    BY <1>1, <2>1 DEF Working
  <2>2. CASE d # c
    <3>1. call'[d] = call[d] /\ Working(call[d], secret)
      BY <1>1, <2>2 DEF Inv
    <3>2. CASE secret' = secret
      BY Zenon, <3>1, <3>2 DEF Working
    <3>3. CASE ~protected /\ lock = c
      <4>1. ~Holds(call[d])
        BY <1>2, <2>2, <3>3
      <4>2. call[d].pc \notin {"find", "supersede", "secrets"}
        BY <3>3, <4>1 DEF Holds
      <4>. QED
        BY Zenon, <3>1, <4>2 DEF Working
    <3>4. CASE /\ Visible(secret') = Visible(secret)
               /\ \A r \in Revision : secret'[r] = None <=> secret[r] = None
      BY <3>1, <3>4 DEF Working
    <3>. QED
      BY <3>2, <3>3, <3>4 DEF Compatible
  <2>. QED
    BY <2>1, <2>2
<1>. QED
  BY <1>7, <1>8 DEF Inv

\* A step that leaves the storage and the mutexes alone.
LEMMA Proceeds ==
  ASSUME Inv, NEW c \in Callers, NEW k \in Call,
         call' = [call EXCEPT ![c] = k], chart' \in Version \cup {None},
         UNCHANGED <<secret, lock, claimLock, protected, edits, faults>>,
         Working(k, secret), Holds(k) <=> Holds(call[c]), HoldsClaim(k) <=> HoldsClaim(call[c])
  PROVE  Inv'
<1>1. secret' \in Items /\ edits' \in Nat /\ faults' \in Nat
  BY DEF Inv, TypeOK, Items
<1>2. Compatible(c) /\ Working(k, secret')
  BY DEF Compatible
<1>3. /\ Locks(c, lock, lock', Holds(call[c]), Holds(k))
      /\ Locks(c, claimLock, claimLock', HoldsClaim(call[c]), HoldsClaim(k))
  BY DEF Locks
<1>. QED
  BY Zenon, <1>1, <1>2, <1>3, StepInv

--------------------------------------------------------------------------------
(* The steps of ReleaseCalls. *)

Mapped == [c \in Callers |-> Decided(call[c])]

Unmapped == [op |-> "none", to |-> 0, done |-> FALSE, overtaken |-> FALSE]

Sim == Calls!CallsNext \/ UNCHANGED Calls!callVars

DecidedCall == [op : Ops \cup {"none"}, to : Version, done : BOOLEAN, overtaken : BOOLEAN]

LEMMA DecidedType ==
  ASSUME NEW k \in Call
  PROVE  Decided(k) \in DecidedCall
BY PinAssumption DEF Decided, DecidedCall, Call, Version

LEMMA DoneOf ==
  ASSUME NEW a \in DecidedCall, NEW b \in DecidedCall, b.op = a.op, b.to = a.to,
         b.overtaken = a.overtaken, b.done = TRUE
  PROVE  b = [a EXCEPT !.done = TRUE]
BY SMT DEF DecidedCall

LEMMA MappedStep ==
  ASSUME TypeOK, NEW c \in Callers, NEW k \in Call, call' = [call EXCEPT ![c] = k]
  PROVE  Mapped' = [Mapped EXCEPT ![c] = Decided(k)] /\ Mapped[c] = Decided(call[c])
<1>1. \A d \in Callers : call'[d] = IF d = c THEN k ELSE call[d]
  BY DEF TypeOK
<1>2. Mapped' = [d \in Callers |-> Decided(call'[d])]
  BY DEF Mapped, Decided
<1>3. ASSUME NEW d \in Callers
      PROVE  Decided(call'[d]) = [Mapped EXCEPT ![c] = Decided(k)][d]
  <2>1. CASE d = c
    BY <1>1, <2>1 DEF Mapped
  <2>2. CASE d # c
    BY <1>1, <2>2 DEF Mapped
  <2>. QED
    BY <2>1, <2>2
<1>. QED
  BY Zenon, <1>2, <1>3 DEF Mapped

LEMMA SameSets == Calls!Release = Release /\ Calls!Version = Version /\ Calls!Ops = Ops
BY DEF Calls!Release, Release, Calls!Version, Version, Calls!Ops, Ops,
       Calls!Statuses, Statuses, Calls!Owners, Owners, Calls!Modes, Modes, Calls!Storages, Storages

LEMMA SimStutter ==
  ASSUME TypeOK, NEW c \in Callers, NEW k \in Call, call' = [call EXCEPT ![c] = k],
         Decided(k) = Decided(call[c]), ReleaseIn(secret') = ReleaseIn(secret),
         UNCHANGED <<protected, edits>>
  PROVE  Sim
<1>1. Mapped' = Mapped
  <2>1. Mapped' = [Mapped EXCEPT ![c] = Mapped[c]]
    BY Zenon, MappedStep
  <2>. QED
    BY <2>1 DEF Mapped
<1>2. GetRelease' = GetRelease
  BY DEF GetRelease, ReleaseIn, latestHelmSecret, Visible
<1>. QED
  BY <1>1, <1>2 DEF Sim, Calls!callVars, Mapped

LEMMA SimReturn ==
  ASSUME TypeOK, NEW c \in Callers, NEW k \in Call, call' = [call EXCEPT ![c] = k],
         Decided(k) = Unmapped, UNCHANGED <<secret, protected, edits>>
  PROVE  Sim
<1>1. Mapped' = [Mapped EXCEPT ![c] = Unmapped]
  BY Zenon, MappedStep
<1>2. GetRelease' = GetRelease
  BY DEF GetRelease, ReleaseIn, latestHelmSecret, Visible
<1>3. Calls!Return(c)
  BY <1>1, <1>2 DEF Calls!Return, Calls!NoCall, Mapped, Unmapped
<1>. QED
  BY <1>3 DEF Sim, Calls!CallsNext

LEMMA SimDecide ==
  ASSUME TypeOK, NEW c \in Callers, NEW k \in Call, call' = [call EXCEPT ![c] = k],
         Decided(call[c]) = Unmapped, NEW op \in Ops, NEW to \in Version,
         Decided(k) = [op |-> op, to |-> to, done |-> FALSE, overtaken |-> FALSE],
         Calls!May(op, ReleaseIn(secret)), protected => op = "claim",
         UNCHANGED <<secret, protected, edits>>
  PROVE  Sim
<1>1. Mapped' = [Mapped EXCEPT ![c] = [op |-> op, to |-> to, done |-> FALSE, overtaken |-> FALSE]]
      /\ Mapped[c] = Unmapped
  BY Zenon, MappedStep
<1>2. GetRelease' = GetRelease
  BY DEF GetRelease, ReleaseIn, latestHelmSecret, Visible
<1>3. Calls!Decide(c)
  BY Zenon, <1>1, <1>2, SameSets DEF Calls!Decide, Calls!NoCall, Mapped, Unmapped, GetRelease
<1>. QED
  BY <1>3 DEF Sim, Calls!CallsNext

LEMMA SimEffect ==
  ASSUME TypeOK, NEW c \in Callers, NEW k \in Call, call' = [call EXCEPT ![c] = k],
         Decided(call[c]).op # "none", ~Decided(call[c]).done,
         \/ ReleaseIn(secret') = ReleaseIn(secret)
         \/ ReleaseIn(secret') \in
               Calls!Outcomes(Decided(call[c]).op, Decided(call[c]).to, ReleaseIn(secret)),
         \/ Decided(k) = [Decided(call[c]) EXCEPT !.done = TRUE]
         \/ Decided(call[c]).op = "uninstall" /\ Decided(k) = Decided(call[c]),
         UNCHANGED <<protected, edits>>
  PROVE  Sim
<1>1. Mapped' = [Mapped EXCEPT ![c] = Decided(k)] /\ Mapped[c] = Decided(call[c])
  BY Zenon, MappedStep
<1>2. \/ Mapped' = [Mapped EXCEPT ![c].done = TRUE]
      \/ Mapped[c].op = "uninstall" /\ Mapped' = Mapped
  BY Zenon, <1>1 DEF Mapped
<1>3. GetRelease = ReleaseIn(secret) /\ GetRelease' = ReleaseIn(secret')
  BY DEF GetRelease, ReleaseIn, latestHelmSecret, Visible
<1>4. Calls!TakeEffect(c)
  <2>1. GetRelease' \in {GetRelease} \cup Calls!Outcomes(Mapped[c].op, Mapped[c].to, GetRelease)
    BY <1>1, <1>3
  <2>2. Mapped[c].op # "none" /\ ~Mapped[c].done
    BY <1>1
  <2>. QED
    BY <1>2, <2>1, <2>2 DEF Calls!TakeEffect, Mapped
<1>. QED
  BY <1>4 DEF Sim, Calls!CallsNext

LEMMA SimOvertaken ==
  ASSUME TypeOK, NEW c \in Callers, NEW k \in Call, call' = [call EXCEPT ![c] = k],
         Decided(call[c]).op \in Ops \ {"claim"}, ~Decided(call[c]).done, Decided(call[c]).overtaken,
         \/ Decided(k) = [Decided(call[c]) EXCEPT !.done = TRUE]
         \/ Decided(k) = Decided(call[c]),
         secret' \in Items, UNCHANGED <<protected, edits>>
  PROVE  Sim
<1>1. Mapped' = [Mapped EXCEPT ![c] = Decided(k)] /\ Mapped[c] = Decided(call[c])
  BY Zenon, MappedStep
<1>2. Mapped' \in {Mapped, [Mapped EXCEPT ![c].done = TRUE]}
  BY Zenon, <1>1 DEF Mapped
<1>3. GetRelease' = ReleaseIn(secret') /\ ReleaseIn(secret') \in Release \cup {None}
  BY ReleaseType DEF GetRelease, ReleaseIn, latestHelmSecret, Visible
<1>4. Calls!WorkOnWhatOthersWrote(c)
  BY <1>1, <1>2, <1>3, SameSets DEF Calls!WorkOnWhatOthersWrote, Mapped
<1>. QED
  BY <1>4 DEF Sim, Calls!CallsNext

\* A call returns.
LEMMA Returned ==
  ASSUME Inv, NEW c \in Callers, Returns(c), UNCHANGED <<secret, chart, protected, edits>>,
         faults' \in Nat
  PROVE  Inv' /\ Sim
<1>1. call' = [call EXCEPT ![c] = Idle]
  BY DEF Returns
<1>2. ~Holds(Idle) /\ ~HoldsClaim(Idle) /\ Working(Idle, secret') /\ Decided(Idle) = Unmapped
  BY Zenon DEF Holds, HoldsClaim, Idle, Working, Decided, Unmapped, Undecided
<1>3. /\ Locks(c, lock, lock', Holds(call[c]), Holds(Idle))
      /\ Locks(c, claimLock, claimLock', HoldsClaim(call[c]), HoldsClaim(Idle))
  BY <1>2 DEF Locks, Returns
<1>4. /\ secret' \in Items /\ chart' \in Version \cup {None} /\ edits' \in Nat
      /\ Compatible(c) /\ TypeOK
  BY DEF Inv, TypeOK, Items, Compatible
<1>5. Inv'
  BY Zenon, <1>1, <1>2, <1>3, <1>4, IdleType, StepInv
<1>6. Sim
  BY Zenon, <1>1, <1>2, <1>4, IdleType, SimReturn
<1>. QED
  BY <1>5, <1>6

================================================================================
