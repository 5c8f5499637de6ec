---------------------------- MODULE HelmStorageProofs ----------------------------
(***************************************************************************)
(* The cluster Helm clients implement ReleaseCalls, and a call that        *)
(* succeeds leaves what it was asked for, for any number of callers,       *)
(* versions, edits and faults, and every bound on revisions up to nine.    *)
(***************************************************************************)
EXTENDS HelmStorageLemmas

--------------------------------------------------------------------------------
(* Every action keeps the invariant and is a step of ReleaseCalls. *)

LEMMA BeginStep ==
  ASSUME Inv, NEW c \in Callers, Begin(c)
  PROVE  Inv' /\ Sim
<1>1. PICK op \in Ops, to \in Version \ {0} :
        call' = [call EXCEPT ![c] = [Idle EXCEPT !.op = op, !.to = to,
                        !.pc = IF op = "claim" THEN "claimLock"
                               ELSE IF guardMutation THEN "lock" ELSE "refused"]]
  BY Zenon DEF Begin
<1>. DEFINE k == [Idle EXCEPT !.op = op, !.to = to,
                        !.pc = IF op = "claim" THEN "claimLock"
                               ELSE IF guardMutation THEN "lock" ELSE "refused"]
<1>2. k \in Call
  BY Zenon, IdleType DEF Idle, Call, Steps
<1>3. /\ k.op = op
      /\ k.pc = IF op = "claim" THEN "claimLock" ELSE IF ~protected THEN "lock" ELSE "refused"
  BY DEF Idle, guardMutation
<1>4. call' = [call EXCEPT ![c] = k]
  BY <1>1
<1>. HIDE DEF k
<1>5. Working(k, secret') /\ ~HoldsClaim(k) /\ (Holds(k) <=> protected) /\ Decided(k) = Unmapped
  BY <1>3 DEF Working, Holds, HoldsClaim, Decided, Unmapped, Undecided
<1>6. /\ secret' \in Items /\ chart' \in Version \cup {None} /\ edits' \in Nat /\ faults' \in Nat
      /\ UNCHANGED <<secret, protected, edits>> /\ Compatible(c) /\ TypeOK
  BY DEF Begin, Inv, TypeOK, Items, Compatible
<1>7. call[c].pc = "idle" /\ ~Holds(call[c]) /\ ~HoldsClaim(call[c])
  BY <1>6 DEF Begin, Holds, HoldsClaim
<1>8. /\ Locks(c, lock, lock', Holds(call[c]), Holds(k))
      /\ Locks(c, claimLock, claimLock', HoldsClaim(call[c]), HoldsClaim(k))
  BY <1>5, <1>7 DEF Begin, Locks
<1>9. Inv'
  BY Zenon, <1>2, <1>4, <1>5, <1>6, <1>8, StepInv
<1>10. Sim
  BY Zenon, <1>2, <1>4, <1>5, <1>6, SimReturn
<1>. QED
  BY <1>9, <1>10

LEMMA AcquireStep ==
  ASSUME Inv, NEW c \in Callers, Acquire(c)
  PROVE  Inv' /\ Sim
<1>. DEFINE k == [call[c] EXCEPT !.pc = "read"]
<1>1. call[c] \in Call /\ Working(call[c], secret) /\ call[c].pc = "lock" /\ TypeOK
  BY DEF Inv, TypeOK, Acquire
<1>2. k \in Call /\ k.op = call[c].op /\ k.pc = "read"
  BY <1>1 DEF Call, Steps
<1>3. call' = [call EXCEPT ![c] = k]
  BY DEF Acquire, Goto
<1>. HIDE DEF k
<1>4. /\ Working(k, secret) /\ ~HoldsClaim(k) /\ Holds(k) /\ ~HoldsClaim(call[c])
      /\ Decided(k) = Unmapped /\ Decided(call[c]) = Unmapped
  BY <1>1, <1>2 DEF Working, Holds, HoldsClaim, Decided, Unmapped, Undecided
<1>5. /\ secret' \in Items /\ chart' \in Version \cup {None} /\ edits' \in Nat /\ faults' \in Nat
      /\ UNCHANGED <<secret, protected, edits>> /\ Compatible(c)
  BY DEF Acquire, Inv, TypeOK, Items, Compatible
<1>6. /\ Locks(c, lock, lock', Holds(call[c]), Holds(k))
      /\ Locks(c, claimLock, claimLock', HoldsClaim(call[c]), HoldsClaim(k))
  BY <1>4 DEF Acquire, Locks
<1>7. Working(k, secret')
  BY <1>4, <1>5
<1>8. Inv'
  BY Zenon, <1>2, <1>3, <1>5, <1>6, <1>7, StepInv
<1>9. Sim
  BY Zenon, <1>1, <1>2, <1>3, <1>4, <1>5, SimReturn
<1>. QED
  BY <1>8, <1>9

LEMMA ClaimLockStep ==
  ASSUME Inv, NEW c \in Callers, ClaimLock(c)
  PROVE  Inv' /\ Sim
<1>. DEFINE k == [call[c] EXCEPT !.pc = "claimRead"]
<1>1. call[c] \in Call /\ Working(call[c], secret) /\ call[c].pc = "claimLock" /\ TypeOK
  BY DEF Inv, TypeOK, ClaimLock
<1>2. k \in Call /\ k.op = call[c].op /\ k.pc = "claimRead"
  BY <1>1 DEF Call, Steps
<1>3. call' = [call EXCEPT ![c] = k]
  BY DEF ClaimLock, Goto
<1>. HIDE DEF k
<1>4. /\ Working(k, secret) /\ HoldsClaim(k) /\ (Holds(k) <=> Holds(call[c]))
      /\ Decided(k) = Unmapped
  BY <1>1, <1>2 DEF Working, Holds, HoldsClaim, Decided, Unmapped, Undecided
<1>5. /\ secret' \in Items /\ chart' \in Version \cup {None} /\ edits' \in Nat /\ faults' \in Nat
      /\ UNCHANGED <<secret, protected, edits>> /\ Compatible(c)
  BY DEF ClaimLock, Inv, TypeOK, Items, Compatible
<1>6. /\ Locks(c, lock, lock', Holds(call[c]), Holds(k))
      /\ Locks(c, claimLock, claimLock', HoldsClaim(call[c]), HoldsClaim(k))
  BY <1>4 DEF ClaimLock, Locks
<1>7. Working(k, secret')
  BY <1>4, <1>5
<1>8. Inv'
  BY Zenon, <1>2, <1>3, <1>5, <1>6, <1>7, StepInv
<1>9. Sim
  BY Zenon, <1>1, <1>2, <1>3, <1>4, <1>5, SimReturn
<1>. QED
  BY <1>8, <1>9

\* Steps that only return.
LEMMA ReturningStep ==
  ASSUME Inv, NEW c \in Callers, Refused(c) \/ CallFails(c) \/ Confirm(c) \/ Uninstalled(c)
  PROVE  Inv' /\ Sim
<1>1. Returns(c) /\ UNCHANGED <<secret, chart, protected, edits>>
  BY DEF Refused, CallFails, Confirm, Uninstalled
<1>2. faults' \in Nat
  BY DEF Refused, CallFails, Confirm, Uninstalled, Fails, Inv, TypeOK
<1>. QED
  BY <1>1, <1>2, Returned

LEMMA ReadReleaseStep ==
  ASSUME Inv, NEW c \in Callers, ReadRelease(c)
  PROVE  Inv' /\ Sim
<1>1. call[c] \in Call /\ Working(call[c], secret) /\ call[c].pc = "read" /\ TypeOK
  BY DEF Inv, TypeOK, ReadRelease
<1>2. /\ secret' = secret /\ chart' = chart /\ protected' = protected
      /\ edits' = edits /\ faults' = faults
  BY DEF ReadRelease
<1>3. CASE Returns(c)
  <2>1. faults' \in Nat
    BY <1>1, <1>2 DEF TypeOK
  <2>. QED
    BY <1>2, <1>3, <2>1, Returned
<1>4. CASE ~Returns(c)
  <2>. DEFINE next == [install |-> "apply", upgrade |-> "supersede",
                       rollback |-> "find", uninstall |-> "objects"]
              old == latestHelmSecret(secret)
              k == [call[c] EXCEPT !.pc = next[call[c].op], !.rev = old, !.overtaken = FALSE]
  <2>1. /\ MayMutate(call[c].op) /\ old < BoundFor(call[c].op)
        /\ call' = [call EXCEPT ![c].pc = next[call[c].op], ![c].rev = old,
                                ![c].overtaken = FALSE]
        /\ UNCHANGED <<lock, claimLock>>
    BY <1>4 DEF ReadRelease
  <2>2. call' = [call EXCEPT ![c] = k]
    BY Zenon, <1>1, <2>1 DEF TypeOK
  <2>3. call[c].op \in {"install", "upgrade", "rollback", "uninstall"} /\ ~protected
    BY <1>1 DEF Working, Ops
  <2>4. \/ call[c].op = "install" /\ next[call[c].op] = "apply"
        \/ call[c].op = "upgrade" /\ next[call[c].op] = "supersede"
        \/ call[c].op = "rollback" /\ next[call[c].op] = "find"
        \/ call[c].op = "uninstall" /\ next[call[c].op] = "objects"
    BY <2>3
  <2>. HIDE DEF next
  <2>5. /\ old \in 0..MaxRevision
        /\ ReleaseIn(secret) # None => old \in Visible(secret) /\ old \in Revision
        /\ ReleaseIn(secret) = None => old = 0
    <3>1. MaxRevision \in Nat
      BY StorageAssumption
    <3>2. Visible(secret) \subseteq Revision
      BY DEF Visible
    <3>3. old \in Visible(secret) => ReleaseIn(secret) # None
      <4>1. SUFFICES ASSUME old \in Visible(secret) PROVE ReleaseIn(secret) # None
        OBVIOUS
      <4>2. secret[old] \in Secret
        BY <1>1, <4>1 DEF Visible, TypeOK
      <4>3. ReleaseIn(secret) = releaseFromHelmSecret(secret[old])
        BY <4>1, NewestVisible DEF ReleaseIn
      <4>4. ReleaseIn(secret) \in Release
        BY <4>2, <4>3, ReleaseOfSecret
      <4>. QED
        BY <4>4, StorageAssumption
    <3>. QED
      BY <3>1, <3>2, <3>3, NewestVisible DEF Revision
  <2>. HIDE DEF old
  <2>6. /\ k.pc = next[call[c].op] /\ k.op = call[c].op /\ k.rev = old
        /\ k.overtaken = FALSE /\ k.to = call[c].to
    BY <1>1 DEF Call
  <2>7. k \in Call
    BY Zenon, <1>1, <2>4, <2>5 DEF Call, Steps
  <2>. HIDE DEF k
  <2>8. Working(k, secret)
    <3>1. MayMutate(call[c].op) => (call[c].op \in {"upgrade", "rollback"} => ReleaseIn(secret) # None)
      BY Zenon, <2>3 DEF MayMutate, GetRelease
    <3>2. MayMutate(call[c].op) => (call[c].op = "install" => ReleaseIn(secret) = None)
      BY <2>3 DEF MayMutate, GetRelease
    <3>3. old < MaxRevision \/ call[c].op \notin {"install", "upgrade", "rollback"}
      BY <2>1, <2>3, <2>5, <3>2, StorageAssumption DEF BoundFor
    <3>. QED
      BY <2>1, <2>3, <2>4, <2>5, <2>6, <3>1, <3>3 DEF Working, Ops
  <2>9. /\ Holds(k) <=> Holds(call[c])
        /\ HoldsClaim(k) <=> HoldsClaim(call[c])
    BY <1>1, <2>3, <2>4, <2>6 DEF Holds, HoldsClaim
  <2>10. Inv'
    <3>1. chart' \in Version \cup {None}
      BY <1>1, <1>2 DEF TypeOK
    <3>. QED
      BY Zenon, <1>2, <2>1, <2>2, <2>7, <2>8, <2>9, <3>1, Proceeds
  <2>11. Sim
    <3>1. Decided(call[c]) = Unmapped
      BY <1>1 DEF Decided, Unmapped, Undecided
    <3>2. Decided(k) = [op |-> call[c].op, to |-> call[c].to, done |-> FALSE, overtaken |-> FALSE]
      BY Zenon, <2>4, <2>6 DEF Decided, Undecided
    <3>3. Calls!May(call[c].op, ReleaseIn(secret))
      BY Zenon, <2>1, <2>3 DEF MayMutate, GetRelease, Calls!May, Calls!ManagedByAdapter, ManagedByAdapter,
         Calls!AllowsDelete, AllowsDelete, Calls!ClassifyReleaseOwnership, ClassifyReleaseOwnership
    <3>4. call[c].op \in Ops /\ call[c].to \in Version
      BY <1>1, <2>3 DEF Call, Ops
    <3>. QED
      BY Zenon, <1>1, <1>2, <2>2, <2>3, <2>7, <3>1, <3>2, <3>3, <3>4, SimDecide
  <2>. QED
    BY <2>10, <2>11
<1>. QED
  BY <1>3, <1>4

\* A step on the way, which ReleaseCalls does not see.
LEMMA Continues ==
  ASSUME Inv, NEW c \in Callers, NEW k \in Call,
         call' = [call EXCEPT ![c] = k], chart' \in Version \cup {None},
         UNCHANGED <<secret, lock, claimLock, protected, edits, faults>>,
         Working(k, secret), Holds(k) <=> Holds(call[c]), HoldsClaim(k) <=> HoldsClaim(call[c]),
         Decided(k) = Decided(call[c])
  PROVE  Inv' /\ Sim
<1>1. Inv'
  BY Zenon, Proceeds
<1>2. TypeOK /\ ReleaseIn(secret') = ReleaseIn(secret)
  BY DEF Inv
<1>3. Sim
  BY Zenon, <1>2, SimStutter
<1>. QED
  BY <1>1, <1>3

LEMMA FindRevisionStep ==
  ASSUME Inv, NEW c \in Callers, FindRevision(c)
  PROVE  Inv' /\ Sim
<1>1. call[c] \in Call /\ Working(call[c], secret) /\ call[c].pc = "find" /\ TypeOK
  BY DEF Inv, TypeOK, FindRevision
<1>2. UNCHANGED <<secret, chart, protected, edits, faults>> /\ faults' \in Nat
      /\ chart' \in Version \cup {None}
  BY <1>1 DEF FindRevision, TypeOK
<1>3. CASE Returns(c)
  BY <1>2, <1>3, Returned
<1>4. CASE ~Returns(c)
  <2>. DEFINE k == [call[c] EXCEPT !.pc = "supersede"]
  <2>1. call' = [call EXCEPT ![c] = k] /\ UNCHANGED <<lock, claimLock>>
    BY <1>4 DEF FindRevision, Goto
  <2>2. /\ k \in Call /\ k.pc = "supersede" /\ k.op = call[c].op /\ k.to = call[c].to
        /\ k.rev = call[c].rev /\ k.overtaken = call[c].overtaken /\ k.todo = call[c].todo
    BY <1>1 DEF Call, Steps
  <2>. HIDE DEF k
  <2>3. /\ Working(k, secret) /\ (Holds(k) <=> Holds(call[c]))
        /\ (HoldsClaim(k) <=> HoldsClaim(call[c]))
    BY <1>1, <2>2 DEF Working, Holds, HoldsClaim
  <2>4. Decided(k) = Decided(call[c])
    BY <1>1, <2>2 DEF Decided, Undecided
  <2>. QED
    BY Zenon, <1>2, <2>1, <2>2, <2>3, <2>4, Continues
<1>. QED
  BY <1>3, <1>4

LEMMA MarkSupersededStep ==
  ASSUME Inv, NEW c \in Callers, MarkSuperseded(c)
  PROVE  Inv' /\ Sim
<1>1. call[c] \in Call /\ Working(call[c], secret) /\ call[c].pc = "supersede" /\ TypeOK
  BY DEF Inv, TypeOK, MarkSuperseded
<1>2. /\ UNCHANGED <<chart, protected, edits, faults>> /\ faults' \in Nat /\ edits' \in Nat
      /\ chart' \in Version \cup {None} /\ secret \in Items
  BY <1>1 DEF MarkSuperseded, TypeOK, Items
<1>. DEFINE rev == call[c].rev
<1>3. rev \in Revision /\ ~protected /\ call[c].op \in {"upgrade", "rollback"} /\ rev < MaxRevision
  BY <1>1 DEF Working
<1>4. CASE secret[rev] = None
  BY <1>2, <1>4, Returned DEF MarkSuperseded
<1>5. CASE secret[rev] # None
  <2>. DEFINE k == [call[c] EXCEPT !.pc = "apply"]
              s == [secret[rev] EXCEPT !.label = "superseded"]
  <2>1. /\ call' = [call EXCEPT ![c] = k] /\ UNCHANGED <<lock, claimLock>>
        /\ secret' = [secret EXCEPT ![rev] = s]
    BY <1>2, <1>3, <1>5 DEF MarkSuperseded, Goto, Items
  <2>2. /\ k \in Call /\ k.pc = "apply" /\ k.op = call[c].op /\ k.to = call[c].to
        /\ k.rev = rev /\ k.overtaken = call[c].overtaken /\ k.todo = call[c].todo
    BY <1>1 DEF Call, Steps
  <2>3. secret[rev] \in Secret
    BY <1>2, <1>3, <1>5 DEF Items
  <2>4. /\ s \in Secret /\ s.label = "superseded"
        /\ releaseFromHelmSecret(s) = releaseFromHelmSecret(secret[rev])
    BY <2>3 DEF Secret, releaseFromHelmSecret
  <2>. HIDE DEF k, s
  <2>5. secret' \in Items /\ secret'[rev] = s /\ \A r \in Revision \ {rev} : secret'[r] = secret[r]
    BY <1>2, <1>3, <2>1, <2>4 DEF Items
  <2>6. /\ Working(k, secret') /\ (Holds(k) <=> Holds(call[c]))
        /\ (HoldsClaim(k) <=> HoldsClaim(call[c])) /\ Holds(call[c])
    BY <1>1, <1>3, <2>2 DEF Working, Holds, HoldsClaim, Ops
  <2>7. /\ Locks(c, lock, lock', Holds(call[c]), Holds(k))
        /\ Locks(c, claimLock, claimLock', HoldsClaim(call[c]), HoldsClaim(k))
    BY <2>1, <2>6 DEF Locks
  <2>8. Compatible(c)
    BY <1>1, <1>3, <2>6 DEF Compatible, TypeOK
  <2>9. Inv'
    BY Zenon, <1>2, <2>1, <2>2, <2>5, <2>6, <2>7, <2>8, StepInv
  <2>10. /\ Decided(k) = Decided(call[c]) /\ Decided(call[c]).op = call[c].op
         /\ ~Decided(call[c]).done /\ Decided(call[c]).overtaken = call[c].overtaken
    BY Zenon, <1>1, <2>2 DEF Decided, Undecided
  <2>11. CASE call[c].overtaken
    <3>1. Decided(call[c]).op \in Ops \ {"claim"}
      BY <1>3, <2>10 DEF Ops
    <3>. QED
      BY Zenon, <1>1, <1>2, <2>1, <2>2, <2>5, <2>9, <2>10, <2>11, <3>1, SimOvertaken
  <2>12. CASE ~call[c].overtaken
    <3>1. rev \in Visible(secret)
      BY <1>1, <2>12 DEF Working
    <3>2. s # None
      BY <2>4, StorageAssumption
    <3>3. Visible(secret') = Visible(secret)
      BY <2>4, <2>5, <3>1, <3>2 DEF Visible
    <3>4. \A r \in Visible(secret) :
             releaseFromHelmSecret(secret'[r]) = releaseFromHelmSecret(secret[r])
      BY <2>4, <2>5 DEF Visible
    <3>5. ReleaseIn(secret') = ReleaseIn(secret)
      BY <3>3, <3>4, SameRelease
    <3>. QED
      BY Zenon, <1>1, <1>2, <2>1, <2>2, <2>9, <2>10, <3>5, SimStutter
  <2>. QED
    BY <2>11, <2>12
<1>. QED
  BY <1>4, <1>5

LEMMA ApplyManifestsStep ==
  ASSUME Inv, NEW c \in Callers, ApplyManifests(c)
  PROVE  Inv' /\ Sim
<1>1. call[c] \in Call /\ Working(call[c], secret) /\ call[c].pc = "apply" /\ TypeOK
  BY DEF Inv, TypeOK, ApplyManifests
<1>. DEFINE k == [call[c] EXCEPT !.pc = "store"]
<1>2. /\ UNCHANGED <<secret, lock, claimLock, protected, edits, faults>>
      /\ chart' \in Version \cup {None} /\ call' = [call EXCEPT ![c] = k]
  BY <1>1 DEF ApplyManifests, Goto, Call
<1>3. /\ k \in Call /\ k.pc = "store" /\ k.op = call[c].op /\ k.to = call[c].to
      /\ k.rev = call[c].rev /\ k.overtaken = call[c].overtaken /\ k.todo = call[c].todo
  BY <1>1 DEF Call, Steps
<1>. HIDE DEF k
<1>4. /\ Working(k, secret) /\ (Holds(k) <=> Holds(call[c]))
      /\ (HoldsClaim(k) <=> HoldsClaim(call[c]))
  BY <1>1, <1>3 DEF Working, Holds, HoldsClaim
<1>5. Decided(k) = Decided(call[c])
  BY <1>1, <1>3 DEF Decided, Undecided
<1>. QED
  BY Zenon, <1>2, <1>3, <1>4, <1>5, Continues

\* What Written makes of a call, and how ReleaseCalls sees it.
LEMMA WrittenCall ==
  ASSUME TypeOK, NEW c \in Callers, call[c].pc \notin Undecided \cup {"confirm", "secrets"},
         call[c].op \in Ops, Written(c)
  PROVE  \E k \in Call :
           /\ call' = [call EXCEPT ![c] = k] /\ k.pc = "confirm" /\ k.op = call[c].op
           /\ Decided(k) = [Decided(call[c]) EXCEPT !.done = TRUE]
           /\ Decided(call[c]).op = call[c].op /\ Decided(call[c]).to = call[c].to
           /\ ~Decided(call[c]).done /\ \A items : Working(k, items)
<1>. DEFINE k == [call[c] EXCEPT !.pc = "confirm", !.rev = 0, !.copy = None, !.tries = 1]
<1>1. call[c] \in Call
  BY DEF TypeOK
<1>2. call' = [call EXCEPT ![c] = k]
  BY Zenon, <1>1 DEF Written, TypeOK
<1>3. /\ k \in Call /\ k.pc = "confirm" /\ k.op = call[c].op /\ k.to = call[c].to
      /\ k.overtaken = call[c].overtaken
  <2>1. 0 \in 0..MaxRevision
    BY StorageAssumption
  <2>2. "confirm" \in Steps
    BY DEF Steps
  <2>. QED
    BY Zenon, <1>1, <2>1, <2>2 DEF Call
<1>. HIDE DEF k
<1>4. /\ Decided(k) = [Decided(call[c]) EXCEPT !.done = TRUE]
      /\ Decided(call[c]).op = call[c].op /\ Decided(call[c]).to = call[c].to
      /\ ~Decided(call[c]).done
  <2>1. Decided(call[c]) = [op |-> call[c].op, to |-> call[c].to, overtaken |-> call[c].overtaken,
                            done |-> FALSE]
    BY Zenon DEF Decided
  <2>2. Decided(k) = [op |-> call[c].op, to |-> call[c].to, overtaken |-> call[c].overtaken,
                      done |-> TRUE]
    BY Zenon, <1>3 DEF Decided, Undecided
  <2>3. Decided(call[c]) \in DecidedCall /\ Decided(k) \in DecidedCall
    BY <1>1, <1>3, DecidedType
  <2>4. Decided(k) = [Decided(call[c]) EXCEPT !.done = TRUE]
    <3>1. /\ Decided(k).op = Decided(call[c]).op /\ Decided(k).to = Decided(call[c]).to
          /\ Decided(k).overtaken = Decided(call[c]).overtaken /\ Decided(k).done = TRUE
      BY <2>1, <2>2
    <3>. QED
      BY Zenon, <2>3, <3>1, DoneOf
  <2>5. /\ Decided(call[c]).op = call[c].op /\ Decided(call[c]).to = call[c].to
        /\ ~Decided(call[c]).done
    BY <2>1
  <2>. QED
    BY <2>4, <2>5
<1>5. \A items : Working(k, items)
  BY <1>3 DEF Working
<1>. QED
  BY Zenon, <1>2, <1>3, <1>4, <1>5

LEMMA StoreSecretStep ==
  ASSUME Inv, NEW c \in Callers, StoreSecret(c)
  PROVE  Inv' /\ Sim
<1>1. call[c] \in Call /\ Working(call[c], secret) /\ call[c].pc = "store" /\ TypeOK
  BY DEF Inv, TypeOK, StoreSecret
<1>2. /\ UNCHANGED <<chart, lock, claimLock, protected, edits, faults>> /\ faults' \in Nat
      /\ edits' \in Nat /\ chart' \in Version \cup {None} /\ secret \in Items
  BY <1>1 DEF StoreSecret, TypeOK, Items
<1>3. /\ ~protected /\ call[c].op \in {"install", "upgrade", "rollback"} /\ call[c].to \in Version
      /\ call[c].rev + 1 \in Revision
  BY <1>1, StorageAssumption DEF Working, Call, Revision
<1>4. call[c].pc \notin Undecided \cup {"confirm", "secrets"} /\ call[c].op \in Ops
  BY <1>1, <1>3 DEF Undecided, Ops
<1>5. PICK k \in Call :
           /\ call' = [call EXCEPT ![c] = k] /\ k.pc = "confirm" /\ k.op = call[c].op
           /\ Decided(k) = [Decided(call[c]) EXCEPT !.done = TRUE]
           /\ Decided(call[c]).op = call[c].op /\ Decided(call[c]).to = call[c].to
           /\ ~Decided(call[c]).done /\ \A items : Working(k, items)
  BY <1>1, <1>4, WrittenCall DEF StoreSecret
<1>6. secret' = [secret EXCEPT ![call[c].rev + 1] = StoredSecret(call[c].to)] /\ secret' \in Items
  <2>1. StoredSecret(call[c].to) \in Secret
    BY <1>3 DEF StoredSecret, Secret, Statuses, Owners, Modes
  <2>. QED
    BY Zenon, <1>2, <2>1 DEF StoreSecret, Items
<1>7. /\ Holds(k) /\ Holds(call[c]) /\ ~HoldsClaim(k) /\ ~HoldsClaim(call[c])
  BY <1>1, <1>3, <1>5 DEF Holds, HoldsClaim
<1>8. /\ Locks(c, lock, lock', Holds(call[c]), Holds(k))
      /\ Locks(c, claimLock, claimLock', HoldsClaim(call[c]), HoldsClaim(k))
  BY <1>2, <1>7 DEF Locks
<1>9. Compatible(c)
  BY <1>1, <1>3, <1>7 DEF Compatible, TypeOK
<1>10. Inv'
  BY Zenon, <1>2, <1>5, <1>6, <1>8, <1>9, StepInv
<1>11. ReleaseIn(secret') \in {ReleaseIn(secret), StoredRelease(call[c].to)}
  BY Zenon, <1>2, <1>3, <1>6, StoreRelease
<1>12. StoredRelease(call[c].to) \in Calls!Outcomes(call[c].op, call[c].to, ReleaseIn(secret))
  <2>1. StoredRelease(call[c].to) = Calls!Stored(call[c].to)
    BY DEF Calls!Stored, Calls!OwnedRelease, StoredRelease, StoredSecret, releaseFromHelmSecret
  <2>2. Calls!Outcomes(call[c].op, call[c].to, ReleaseIn(secret)) = {Calls!Stored(call[c].to)}
    BY <1>3 DEF Calls!Outcomes
  <2>. QED
    BY <2>1, <2>2
<1>13. Sim
  BY Zenon, <1>1, <1>2, <1>3, <1>5, <1>11, <1>12, SimEffect
<1>. QED
  BY <1>10, <1>13

LEMMA DeleteReleaseObjectsStep ==
  ASSUME Inv, NEW c \in Callers, DeleteReleaseObjects(c)
  PROVE  Inv' /\ Sim
<1>1. call[c] \in Call /\ Working(call[c], secret) /\ call[c].pc = "objects" /\ TypeOK
  BY DEF Inv, TypeOK, DeleteReleaseObjects
<1>. DEFINE k == [call[c] EXCEPT !.pc = "list"]
<1>2. /\ UNCHANGED <<secret, lock, claimLock, protected, edits, faults>>
      /\ chart' \in Version \cup {None} /\ call' = [call EXCEPT ![c] = k]
  BY <1>1 DEF DeleteReleaseObjects, Goto
<1>3. /\ k \in Call /\ k.pc = "list" /\ k.op = call[c].op /\ k.to = call[c].to
      /\ k.rev = call[c].rev /\ k.overtaken = call[c].overtaken /\ k.todo = call[c].todo
  BY <1>1 DEF Call, Steps
<1>. HIDE DEF k
<1>4. /\ Working(k, secret) /\ (Holds(k) <=> Holds(call[c]))
      /\ (HoldsClaim(k) <=> HoldsClaim(call[c]))
  BY <1>1, <1>3 DEF Working, Holds, HoldsClaim
<1>5. Decided(k) = Decided(call[c])
  BY <1>1, <1>3 DEF Decided, Undecided
<1>. QED
  BY Zenon, <1>2, <1>3, <1>4, <1>5, Continues

LEMMA ListSecretsStep ==
  ASSUME Inv, NEW c \in Callers, ListSecrets(c)
  PROVE  Inv' /\ Sim
<1>1. call[c] \in Call /\ Working(call[c], secret) /\ call[c].pc = "list" /\ TypeOK
  BY DEF Inv, TypeOK, ListSecrets
<1>. DEFINE found == {r \in Revision : secret[r] # None}
            k == [call[c] EXCEPT !.pc = "secrets", !.todo = found]
<1>2. /\ UNCHANGED <<secret, lock, claimLock, protected, edits, faults>>
      /\ chart' \in Version \cup {None}
  BY <1>1 DEF ListSecrets, TypeOK
<1>3. call' = [call EXCEPT ![c] = k]
  BY Zenon, <1>1 DEF ListSecrets, TypeOK
<1>4. /\ k \in Call /\ k.pc = "secrets" /\ k.op = call[c].op /\ k.to = call[c].to
      /\ k.overtaken = call[c].overtaken /\ k.todo = found
  BY Zenon, <1>1 DEF Call, Steps
<1>. HIDE DEF k
<1>5. /\ Working(k, secret) /\ (Holds(k) <=> Holds(call[c]))
      /\ (HoldsClaim(k) <=> HoldsClaim(call[c]))
  BY <1>1, <1>4 DEF Working, Holds, HoldsClaim
<1>6. Inv'
  BY Zenon, <1>2, <1>3, <1>4, <1>5, Proceeds
<1>. HIDE DEF found
<1>7. /\ Decided(call[c]) = [op |-> call[c].op, to |-> call[c].to, overtaken |-> call[c].overtaken,
                             done |-> FALSE]
      /\ Decided(k) = [op |-> call[c].op, to |-> call[c].to, overtaken |-> call[c].overtaken,
                       done |-> found = {}]
  BY Zenon, <1>1, <1>4 DEF Decided, Undecided
<1>8. CASE found = {}
  <2>1. /\ Decided(k).op = Decided(call[c]).op /\ Decided(k).to = Decided(call[c]).to
        /\ Decided(k).overtaken = Decided(call[c]).overtaken /\ Decided(k).done = TRUE
    <3>1. Decided(k) = [op |-> call[c].op, to |-> call[c].to, overtaken |-> call[c].overtaken,
                        done |-> TRUE]
      BY Zenon, <1>4, <1>8 DEF Decided, Undecided
    <3>. QED
      BY <1>7, <3>1
  <2>2. Decided(k) = [Decided(call[c]) EXCEPT !.done = TRUE]
    <3>1. Decided(call[c]) \in DecidedCall /\ Decided(k) \in DecidedCall
      BY <1>1, <1>4, DecidedType
    <3>. QED
      BY Zenon, <2>1, <3>1, DoneOf
  <2>3. Decided(call[c]).op # "none" /\ ~Decided(call[c]).done
    BY <1>1, <1>7 DEF Working
  <2>4. ReleaseIn(secret') = ReleaseIn(secret)
    BY <1>2
  <2>. QED
    BY Zenon, <1>1, <1>2, <1>3, <1>4, <1>6, <2>2, <2>3, <2>4, SimEffect
<1>9. CASE found # {}
  <2>1. Decided(k) = Decided(call[c]) /\ ReleaseIn(secret') = ReleaseIn(secret)
    BY Zenon, <1>2, <1>7, <1>9
  <2>. QED
    BY Zenon, <1>1, <1>2, <1>3, <1>4, <1>6, <2>1, SimStutter
<1>. QED
  BY <1>8, <1>9

LEMMA DeleteSecretStep ==
  ASSUME Inv, NEW c \in Callers, DeleteSecret(c)
  PROVE  Inv' /\ Sim
<1>1. /\ call[c] \in Call /\ Working(call[c], secret) /\ TypeOK
      /\ call[c].pc = "secrets" /\ call[c].todo # {} /\ call[c].todo \in SUBSET Revision
  BY DEF Inv, TypeOK, DeleteSecret, Call
<1>. DEFINE r == Min(call[c].todo)
            rest == call[c].todo \ {r}
            k == [call[c] EXCEPT !.todo = rest]
<1>2. r \in call[c].todo /\ r \in Revision /\ \A x \in call[c].todo : r <= x
  BY <1>1, Extremes
<1>3. /\ UNCHANGED <<chart, lock, claimLock, protected, edits, faults>> /\ secret \in Items
      /\ chart' \in Version \cup {None} /\ edits' \in Nat /\ faults' \in Nat
  BY <1>1 DEF DeleteSecret, TypeOK, Items
<1>4. secret' = [secret EXCEPT ![r] = None] /\ call' = [call EXCEPT ![c].todo = @ \ {r}]
  BY DEF DeleteSecret
<1>. HIDE DEF r
<1>5. call' = [call EXCEPT ![c] = k]
  BY <1>4
<1>6. /\ k \in Call /\ k.pc = "secrets" /\ k.op = call[c].op /\ k.to = call[c].to
      /\ k.overtaken = call[c].overtaken /\ k.todo = rest
  BY <1>1 DEF Call
<1>. HIDE DEF k
<1>7. secret' \in Items /\ secret'[r] = None /\ \A x \in Revision \ {r} : secret'[x] = secret[x]
  BY <1>2, <1>3, <1>4 DEF Items
<1>8. ~protected /\ call[c].op = "uninstall" /\ k.op = "uninstall"
  BY <1>1, <1>6 DEF Working
<1>9. Working(k, secret')
  <2>1. ~call[c].overtaken => \A x \in Revision : secret[x] # None => x \in call[c].todo
    BY <1>1 DEF Working
  <2>2. ~k.overtaken => \A x \in Revision : secret'[x] # None => x \in rest
    BY <1>6, <1>7, <2>1
  <2>. QED
    BY <1>6, <1>8, <2>2 DEF Working, Ops
<1>10. /\ Holds(k) /\ Holds(call[c]) /\ ~HoldsClaim(k) /\ ~HoldsClaim(call[c])
  BY <1>1, <1>6, <1>8 DEF Holds, HoldsClaim
<1>11. /\ Locks(c, lock, lock', Holds(call[c]), Holds(k))
       /\ Locks(c, claimLock, claimLock', HoldsClaim(call[c]), HoldsClaim(k))
  BY <1>3, <1>10 DEF Locks
<1>12. Compatible(c)
  BY <1>1, <1>8, <1>10 DEF Compatible, TypeOK
<1>13. Inv'
  BY Zenon, <1>3, <1>5, <1>6, <1>7, <1>9, <1>11, <1>12, StepInv
<1>. HIDE DEF rest
<1>14. /\ Decided(call[c]) = [op |-> "uninstall", to |-> call[c].to, overtaken |-> call[c].overtaken,
                              done |-> FALSE]
       /\ Decided(k) = [op |-> "uninstall", to |-> call[c].to, overtaken |-> call[c].overtaken,
                        done |-> rest = {}]
  BY Zenon, <1>1, <1>6, <1>8 DEF Decided, Undecided
<1>15. \/ Decided(k) = [Decided(call[c]) EXCEPT !.done = TRUE]
       \/ rest # {} /\ Decided(k) = Decided(call[c])
  <2>1. CASE rest = {}
    <3>1. /\ Decided(k).op = Decided(call[c]).op /\ Decided(k).to = Decided(call[c]).to
          /\ Decided(k).overtaken = Decided(call[c]).overtaken /\ Decided(k).done = TRUE
      <4>1. Decided(k) = [op |-> "uninstall", to |-> call[c].to, overtaken |-> call[c].overtaken,
                          done |-> TRUE]
        BY Zenon, <1>6, <1>8, <2>1 DEF Decided, Undecided
      <4>. QED
        BY <1>14, <4>1
    <3>2. Decided(call[c]) \in DecidedCall /\ Decided(k) \in DecidedCall
      BY <1>1, <1>6, DecidedType
    <3>. QED
      BY Zenon, <3>1, <3>2, DoneOf
  <2>2. CASE rest # {}
    BY Zenon, <1>14, <2>2
  <2>. QED
    BY <2>1, <2>2
<1>16. /\ Decided(call[c]).op = "uninstall" /\ ~Decided(call[c]).done
       /\ Decided(call[c]).overtaken = call[c].overtaken
  BY <1>14
<1>17. CASE call[c].overtaken
  <2>1. Decided(call[c]).op \in Ops \ {"claim"}
    BY <1>16 DEF Ops
  <2>. QED
    BY Zenon, <1>1, <1>3, <1>5, <1>6, <1>7, <1>13, <1>15, <1>16, <1>17, <2>1, SimOvertaken
<1>18. CASE ~call[c].overtaken
  <2>1. \A x \in Revision : secret[x] # None => x \in call[c].todo
    BY <1>1, <1>18 DEF Working
  <2>2. \/ ReleaseIn(secret') = None
        \/ (\E x \in Revision : x # r /\ secret[x] # None) /\ ReleaseIn(secret') = ReleaseIn(secret)
    BY Zenon, <1>2, <1>3, <1>4, <2>1, DeleteOldest
  <2>3. CASE ReleaseIn(secret') = None
    <3>1. ReleaseIn(secret') \in
            Calls!Outcomes(Decided(call[c]).op, Decided(call[c]).to, ReleaseIn(secret))
      BY <1>16, <2>3 DEF Calls!Outcomes
    <3>2. Decided(call[c]).op # "none"
      BY <1>16
    <3>. QED
      BY Zenon, <1>1, <1>3, <1>5, <1>6, <1>13, <1>15, <1>16, <3>1, <3>2, SimEffect
  <2>4. CASE /\ \E x \in Revision : x # r /\ secret[x] # None
             /\ ReleaseIn(secret') = ReleaseIn(secret)
    <3>1. rest # {}
      BY <2>1, <2>4 DEF rest
    <3>2. Decided(k) = Decided(call[c])
      BY Zenon, <1>14, <3>1
    <3>. QED
      BY Zenon, <1>1, <1>3, <1>5, <1>6, <1>13, <2>4, <3>2, SimStutter
  <2>. QED
    BY <2>2, <2>3, <2>4
<1>. QED
  BY <1>17, <1>18

LEMMA ClaimReadStep ==
  ASSUME Inv, NEW c \in Callers, ClaimRead(c)
  PROVE  Inv' /\ Sim
<1>1. call[c] \in Call /\ Working(call[c], secret) /\ call[c].pc = "claimRead" /\ TypeOK
  BY DEF Inv, TypeOK, ClaimRead
<1>2. UNCHANGED <<secret, chart, protected, edits, faults>> /\ faults' \in Nat
      /\ chart' \in Version \cup {None}
  BY <1>1 DEF ClaimRead, TypeOK
<1>3. CASE Returns(c)
  BY <1>2, <1>3, Returned
<1>4. CASE ~Returns(c)
  <2>. DEFINE k == [call[c] EXCEPT !.pc = "claimList", !.overtaken = FALSE]
  <2>1. /\ GetRelease # None /\ matchesPinnedRelease(GetRelease)
        /\ call' = [call EXCEPT ![c].pc = "claimList", ![c].overtaken = FALSE]
        /\ UNCHANGED <<lock, claimLock>>
    BY <1>4 DEF ClaimRead
  <2>2. call' = [call EXCEPT ![c] = k]
    BY Zenon, <1>1, <2>1 DEF TypeOK
  <2>3. /\ k \in Call /\ k.pc = "claimList" /\ k.op = call[c].op /\ k.to = call[c].to
        /\ k.overtaken = FALSE
    BY Zenon, <1>1 DEF Call, Steps
  <2>. HIDE DEF k
  <2>4. call[c].op = "claim"
    BY <1>1 DEF Working
  <2>5. /\ Working(k, secret) /\ (Holds(k) <=> Holds(call[c]))
        /\ (HoldsClaim(k) <=> HoldsClaim(call[c]))
    BY Zenon, <1>1, <2>3, <2>4 DEF Working, Holds, HoldsClaim, Ops
  <2>6. Inv'
    BY Zenon, <1>2, <2>1, <2>2, <2>3, <2>5, Proceeds
  <2>7. Decided(call[c]) = Unmapped
    BY <1>1 DEF Decided, Unmapped, Undecided
  <2>8. Decided(k) = [op |-> "claim", to |-> call[c].to, done |-> FALSE, overtaken |-> FALSE]
    BY Zenon, <2>3, <2>4 DEF Decided, Undecided
  <2>9. Calls!May("claim", ReleaseIn(secret))
    BY <2>1 DEF GetRelease, Calls!May, Calls!matchesPinnedRelease, matchesPinnedRelease,
                Calls!AtPin, AtPin, Calls!versionsEqual, versionsEqual
  <2>10. "claim" \in Ops /\ call[c].to \in Version
    BY <1>1 DEF Ops, Call
  <2>11. Sim
    BY Zenon, <1>1, <1>2, <2>2, <2>3, <2>7, <2>8, <2>9, <2>10, SimDecide
  <2>. QED
    BY <2>6, <2>11
<1>. QED
  BY <1>3, <1>4

LEMMA ClaimListStep ==
  ASSUME Inv, NEW c \in Callers, ClaimList(c)
  PROVE  Inv' /\ Sim
<1>1. call[c] \in Call /\ Working(call[c], secret) /\ call[c].pc = "claimList" /\ TypeOK
  BY DEF Inv, TypeOK, ClaimList
<1>2. UNCHANGED <<secret, chart, protected, edits, faults>> /\ faults' \in Nat
      /\ chart' \in Version \cup {None}
  BY <1>1 DEF ClaimList, TypeOK
<1>3. CASE Returns(c)
  BY <1>2, <1>3, Returned
<1>4. CASE ~Returns(c)
  <2>. DEFINE old == latestHelmSecret(secret)
              k == [call[c] EXCEPT !.pc = "claimGet", !.rev = old]
  <2>1. /\ Visible(secret) # {}
        /\ call' = [call EXCEPT ![c].pc = "claimGet", ![c].rev = old]
        /\ UNCHANGED <<lock, claimLock>>
    BY <1>4 DEF ClaimList
  <2>2. call' = [call EXCEPT ![c] = k]
    BY Zenon, <1>1, <2>1 DEF TypeOK
  <2>3. old \in Revision /\ old \in 0..MaxRevision
    <3>1. old \in Visible(secret)
      BY <2>1, NewestVisible
    <3>. QED
      BY <3>1, StorageAssumption DEF Visible, Revision
  <2>. HIDE DEF old
  <2>4. /\ k \in Call /\ k.pc = "claimGet" /\ k.op = call[c].op /\ k.to = call[c].to
        /\ k.overtaken = call[c].overtaken /\ k.rev = old
    BY Zenon, <1>1, <2>3 DEF Call, Steps
  <2>. HIDE DEF k
  <2>5. /\ Working(k, secret) /\ (Holds(k) <=> Holds(call[c]))
        /\ (HoldsClaim(k) <=> HoldsClaim(call[c]))
    BY Zenon, <1>1, <2>3, <2>4 DEF Working, Holds, HoldsClaim
  <2>6. Decided(k) = Decided(call[c])
    BY <1>1, <2>4 DEF Decided, Undecided
  <2>. QED
    BY Zenon, <1>2, <2>1, <2>2, <2>4, <2>5, <2>6, Continues
<1>. QED
  BY <1>3, <1>4

\* An adoption is done, with the stamp or without.
LEMMA ClaimWritten ==
  ASSUME Inv, NEW c \in Callers, call[c].pc \in {"claimGet", "claimUpdate"}, Written(c),
         UNCHANGED <<chart, lock, claimLock, protected, edits, faults>>,
         secret' \in Items, Visible(secret') = Visible(secret),
         \A r \in Revision : secret'[r] = None <=> secret[r] = None,
         \/ ReleaseIn(secret') = ReleaseIn(secret)
         \/ /\ ReleaseIn(secret) # None
            /\ ReleaseIn(secret') = stampAdoptedLabels(ReleaseIn(secret))
  PROVE  Inv' /\ Sim
<1>1. call[c] \in Call /\ Working(call[c], secret) /\ TypeOK
  BY DEF Inv, TypeOK
<1>2. call[c].op = "claim"
  BY <1>1 DEF Working
<1>3. call[c].pc \notin Undecided \cup {"confirm", "secrets"} /\ call[c].op \in Ops
  BY <1>2 DEF Undecided, Ops
<1>4. PICK k \in Call :
           /\ call' = [call EXCEPT ![c] = k] /\ k.pc = "confirm" /\ k.op = call[c].op
           /\ Decided(k) = [Decided(call[c]) EXCEPT !.done = TRUE]
           /\ Decided(call[c]).op = call[c].op /\ Decided(call[c]).to = call[c].to
           /\ ~Decided(call[c]).done /\ \A items : Working(k, items)
  BY <1>1, <1>3, WrittenCall
<1>5. /\ HoldsClaim(k) /\ HoldsClaim(call[c]) /\ (Holds(k) <=> Holds(call[c]))
  BY <1>1, <1>2, <1>4 DEF Holds, HoldsClaim
<1>6. /\ Locks(c, lock, lock', Holds(call[c]), Holds(k))
      /\ Locks(c, claimLock, claimLock', HoldsClaim(call[c]), HoldsClaim(k))
  BY <1>5 DEF Locks
<1>7. Compatible(c) /\ chart' \in Version \cup {None} /\ edits' \in Nat /\ faults' \in Nat
  BY <1>1 DEF Compatible, TypeOK
<1>8. Inv'
  BY Zenon, <1>4, <1>6, <1>7, StepInv
<1>9. \/ ReleaseIn(secret') = ReleaseIn(secret)
      \/ ReleaseIn(secret') \in Calls!Outcomes(call[c].op, call[c].to, ReleaseIn(secret))
  BY <1>2 DEF Calls!Outcomes, Calls!stampAdoptedLabels, stampAdoptedLabels
<1>10. Sim
  <2>1. call[c].op # "none"
    BY <1>2
  <2>. QED
    BY Zenon, <1>1, <1>4, <1>9, <2>1, SimEffect
<1>. QED
  BY <1>8, <1>10

LEMMA ClaimGetStep ==
  ASSUME Inv, NEW c \in Callers, ClaimGet(c)
  PROVE  Inv' /\ Sim
<1>1. call[c] \in Call /\ Working(call[c], secret) /\ call[c].pc = "claimGet" /\ TypeOK
  BY DEF Inv, TypeOK, ClaimGet
<1>2. UNCHANGED <<secret, chart, protected, edits, faults>> /\ faults' \in Nat
      /\ chart' \in Version \cup {None} /\ secret' \in Items /\ call[c].rev \in Revision
  BY <1>1 DEF ClaimGet, TypeOK, Items, Working
<1>3. CASE Returns(c)
  BY <1>2, <1>3, Returned
<1>4. CASE Written(c) /\ UNCHANGED <<lock, claimLock>>
  BY <1>1, <1>2, <1>4, ClaimWritten
<1>5. CASE ~Returns(c) /\ ~(Written(c) /\ UNCHANGED <<lock, claimLock>>)
  <2>. DEFINE s == secret[call[c].rev]
              k == [call[c] EXCEPT !.pc = "claimUpdate", !.copy = s]
  <2>1. /\ s # None /\ call' = [call EXCEPT ![c].pc = "claimUpdate", ![c].copy = s]
        /\ UNCHANGED <<lock, claimLock>>
    BY <1>5 DEF ClaimGet
  <2>2. call' = [call EXCEPT ![c] = k]
    BY Zenon, <1>1, <2>1 DEF TypeOK
  <2>3. s \in Secret
    BY <1>1, <1>2, <2>1 DEF TypeOK
  <2>. HIDE DEF s
  <2>4. /\ k \in Call /\ k.pc = "claimUpdate" /\ k.op = call[c].op /\ k.to = call[c].to
        /\ k.overtaken = call[c].overtaken /\ k.rev = call[c].rev
    BY Zenon, <1>1, <2>3 DEF Call, Steps
  <2>. HIDE DEF k
  <2>5. /\ Working(k, secret) /\ (Holds(k) <=> Holds(call[c]))
        /\ (HoldsClaim(k) <=> HoldsClaim(call[c]))
    BY <1>1, <2>4 DEF Working, Holds, HoldsClaim
  <2>6. Decided(k) = Decided(call[c])
    BY <1>1, <2>4 DEF Decided, Undecided
  <2>. QED
    BY Zenon, <1>2, <2>1, <2>2, <2>4, <2>5, <2>6, Continues
<1>. QED
  BY <1>3, <1>4, <1>5

LEMMA ClaimUpdateStep ==
  ASSUME Inv, NEW c \in Callers, ClaimUpdate(c)
  PROVE  Inv' /\ Sim
<1>1. call[c] \in Call /\ Working(call[c], secret) /\ call[c].pc = "claimUpdate" /\ TypeOK
  BY DEF Inv, TypeOK, ClaimUpdate
<1>. DEFINE r == call[c].rev
<1>2. UNCHANGED <<chart, protected, edits, faults>> /\ faults' \in Nat
      /\ chart' \in Version \cup {None} /\ secret \in Items /\ r \in Revision /\ call[c].op = "claim"
  BY <1>1 DEF ClaimUpdate, TypeOK, Items, Working
<1>3. \/ Returns(c) /\ UNCHANGED secret
      \/ TryAgain(c) /\ UNCHANGED secret
      \/ /\ secret[r] # None
         /\ secret' = [secret EXCEPT ![r].owner = "adapter", ![r].mode = "adopted"]
         /\ Written(c) /\ UNCHANGED <<lock, claimLock>>
  BY DEF ClaimUpdate
<1>4. CASE Returns(c) /\ UNCHANGED secret
  BY <1>2, <1>4, Returned
<1>5. CASE TryAgain(c) /\ UNCHANGED secret /\ ~Returns(c)
  <2>. DEFINE k == [Idle EXCEPT !.op = "claim", !.to = Pin,
                        !.pc = "claimRead", !.tries = call[c].tries + 1]
  <2>1. call' = [call EXCEPT ![c] = k] /\ UNCHANGED <<lock, claimLock>>
    BY <1>5 DEF TryAgain
  <2>2. Pin \in Version /\ call[c].tries + 1 \in Nat
    BY <1>1, PinAssumption DEF Version, Call
  <2>3. k \in Call /\ k.pc = "claimRead" /\ k.op = "claim"
    BY Zenon, <2>2, IdleType DEF Idle, Call, Steps, Ops
  <2>. HIDE DEF k
  <2>4. /\ Working(k, secret) /\ (Holds(k) <=> Holds(call[c]))
        /\ (HoldsClaim(k) <=> HoldsClaim(call[c])) /\ Decided(k) = Unmapped
    BY <1>1, <2>3 DEF Working, Holds, HoldsClaim, Decided, Undecided, Unmapped, Ops
  <2>5. Inv'
    BY Zenon, <1>2, <1>5, <2>1, <2>3, <2>4, Proceeds
  <2>6. Sim
    BY Zenon, <1>1, <1>2, <1>5, <2>1, <2>3, <2>4, SimReturn
  <2>. QED
    BY <2>5, <2>6
<1>6. CASE /\ secret[r] # None
           /\ secret' = [secret EXCEPT ![r].owner = "adapter", ![r].mode = "adopted"]
           /\ Written(c) /\ UNCHANGED <<lock, claimLock>>
  <2>0. secret' = Stamped(secret, r)
    BY Zenon, <1>2, <1>6 DEF Items, Stamped
  <2>a. secret \in Items /\ r \in Revision /\ secret[r] # None
    BY <1>2, <1>6
  <2>. HIDE DEF r
  <2>1. /\ secret' \in Items /\ Visible(secret') = Visible(secret)
        /\ \A x \in Revision : secret'[x] = None <=> secret[x] = None
        /\ \/ ReleaseIn(secret') = ReleaseIn(secret)
           \/ /\ ReleaseIn(secret) # None
              /\ ReleaseIn(secret') = stampAdoptedLabels(ReleaseIn(secret))
    BY Zenon, <2>0, <2>a, StampRelease
  <2>. QED
    BY Zenon, <1>1, <1>2, <1>6, <2>1, ClaimWritten
<1>. QED
  BY <1>3, <1>4, <1>5, <1>6

LEMMA RestartStep ==
  ASSUME Inv, Restart
  PROVE  Inv' /\ Sim
<1>1. /\ call' = [c \in Callers |-> Idle] /\ lock' = None /\ claimLock' = None
      /\ UNCHANGED <<secret, chart, protected, edits>> /\ faults' \in Nat /\ TypeOK
  BY DEF Restart, Fails, Inv, TypeOK
<1>2. ASSUME NEW c \in Callers
      PROVE  /\ call'[c] = Idle /\ lock' # c /\ claimLock' # c
             /\ ~Holds(call[c])' /\ ~HoldsClaim(call[c])'
  BY Zenon, <1>1, StorageAssumption DEF Idle, Holds, HoldsClaim
<1>3. TypeOK'
  BY <1>1, <1>2, IdleType DEF TypeOK
<1>4. ASSUME NEW c \in Callers PROVE Working(call[c], secret)'
  <2>1. Idle.pc = "idle"
    BY DEF Idle
  <2>2. call'[c].pc = "idle"
    BY <1>2, <2>1
  <2>. QED
    BY <2>2 DEF Working
<1>5. Mapped' = [c \in Callers |-> Unmapped]
  <2>1. \A c \in Callers : Decided(call'[c]) = Unmapped
    BY <1>2 DEF Decided, Idle, Undecided, Unmapped
  <2>2. Mapped' = [c \in Callers |-> Decided(call'[c])]
    BY DEF Mapped, Decided
  <2>. QED
    BY <2>1, <2>2
<1>6. GetRelease' = GetRelease
  BY <1>1 DEF GetRelease, ReleaseIn, latestHelmSecret, Visible
<1>7. Calls!AllReturn
  BY <1>1, <1>5, <1>6 DEF Calls!AllReturn, Calls!NoCall, Mapped, Unmapped
<1>. QED
  BY <1>3, <1>4, <1>7 DEF Inv, Sim, Calls!CallsNext

\* Others change the release: every call that looked at it is overtaken.
LEMMA InterfereStep ==
  ASSUME Inv, Interfere, secret' \in Items, chart' \in Version \cup {None}
  PROVE  Inv' /\ Sim
<1>1. /\ UNCHANGED <<lock, claimLock, protected, faults>> /\ edits' = edits + 1 /\ edits' \in Nat
      /\ TypeOK
  BY DEF Interfere, Inv, TypeOK
<1>2. call' = Overtaken
  BY DEF Interfere
<1>3. ASSUME NEW c \in Callers
      PROVE  /\ call[c] \in Call /\ call'[c] \in Call
             /\ call'[c].pc = call[c].pc /\ call'[c].op = call[c].op /\ call'[c].to = call[c].to
             /\ call'[c].rev = call[c].rev /\ call'[c].todo = call[c].todo
             /\ call[c].pc \in Undecided => call'[c] = call[c]
             /\ call[c].pc \notin Undecided => call'[c].overtaken = TRUE
  <2>1. call[c] \in Call
    BY <1>1 DEF TypeOK
  <2>2. call'[c] = IF call[c].pc \in Undecided THEN call[c] ELSE [call[c] EXCEPT !.overtaken = TRUE]
    BY <1>2 DEF Overtaken
  <2>3. [call[c] EXCEPT !.overtaken = TRUE] \in Call
    BY Zenon, <2>1 DEF Call
  <2>. QED
    BY <2>1, <2>2, <2>3 DEF Call
<1>4. call' \in [Callers -> Call]
  BY Zenon, <1>2, <1>3 DEF Overtaken
<1>5. ASSUME NEW c \in Callers
      PROVE  (lock' = c <=> Holds(call[c])') /\ (claimLock' = c <=> HoldsClaim(call[c])')
  <2>1. (lock = c <=> Holds(call[c])) /\ (claimLock = c <=> HoldsClaim(call[c]))
    BY <1>1 DEF TypeOK
  <2>2. (Holds(call[c])' <=> Holds(call[c])) /\ (HoldsClaim(call[c])' <=> HoldsClaim(call[c]))
    BY Zenon, <1>1, <1>3 DEF Holds, HoldsClaim
  <2>. QED
    BY <1>1, <2>1, <2>2
<1>6. TypeOK'
  BY <1>1, <1>4, <1>5 DEF TypeOK, Items
<1>7. ASSUME NEW c \in Callers PROVE Working(call[c], secret)'
  <2>1. Working(call[c], secret)
    BY DEF Inv
  <2>2. CASE call[c].pc \in Undecided
    BY Zenon, <1>1, <1>3, <2>1, <2>2 DEF Working, Undecided
  <2>3. CASE call[c].pc \notin Undecided
    BY Zenon, <1>1, <1>3, <2>1, <2>3 DEF Working
  <2>. QED
    BY <2>2, <2>3
<1>8. ASSUME NEW c \in Callers
      PROVE  Decided(call'[c]) = IF Mapped[c].op = "none" THEN Unmapped
                                 ELSE [Mapped[c] EXCEPT !.overtaken = TRUE]
  <2>1. Mapped[c] = Decided(call[c])
    BY DEF Mapped
  <2>2. CASE call[c].pc \in Undecided
    <3>1. Decided(call[c]) = Unmapped /\ Decided(call'[c]) = Unmapped
      BY Zenon, <1>3, <2>2 DEF Decided, Unmapped
    <3>. QED
      BY <2>1, <3>1 DEF Unmapped
  <2>3. CASE call[c].pc \notin Undecided
    <3>. DEFINE d == call[c].pc = "confirm" \/ (call[c].pc = "secrets" /\ call[c].todo = {})
    <3>1. Decided(call[c]) = [op |-> call[c].op, to |-> call[c].to,
                              overtaken |-> call[c].overtaken, done |-> d]
      BY <2>3 DEF Decided
    <3>2. Decided(call'[c]) = [op |-> call[c].op, to |-> call[c].to,
                               overtaken |-> TRUE, done |-> d]
      BY Zenon, <1>3, <2>3 DEF Decided
    <3>. HIDE DEF d
    <3>3. call[c].op # "none"
      <4>1. Working(call[c], secret)
        BY DEF Inv
      <4>2. call[c].pc # "idle"
        BY <2>3 DEF Undecided
      <4>. QED
        BY <4>1, <4>2 DEF Working, Ops
    <3>4. Decided(call[c]) \in DecidedCall /\ Decided(call'[c]) \in DecidedCall
      BY Zenon, <1>3, DecidedType
    <3>5. /\ Decided(call'[c]).op = Decided(call[c]).op /\ Decided(call'[c]).to = Decided(call[c]).to
          /\ Decided(call'[c]).done = Decided(call[c]).done /\ Decided(call'[c]).overtaken = TRUE
      BY <3>1, <3>2
    <3>6. Decided(call'[c]) = [Decided(call[c]) EXCEPT !.overtaken = TRUE]
      BY Zenon, <3>4, <3>5 DEF DecidedCall
    <3>7. Decided(call[c]).op # "none"
      BY <3>1, <3>3
    <3>. QED
      BY <2>1, <3>6, <3>7
  <2>. QED
    BY <2>2, <2>3
<1>9. Mapped' = [c \in Callers |-> IF Mapped[c].op = "none" THEN Unmapped
                                   ELSE [Mapped[c] EXCEPT !.overtaken = TRUE]]
  <2>1. Mapped' = [c \in Callers |-> Decided(call'[c])]
    BY DEF Mapped, Decided
  <2>. QED
    BY <1>8, <2>1
<1>10. GetRelease' \in Release \cup {None}
  <2>1. GetRelease' = ReleaseIn(secret')
    BY DEF GetRelease, ReleaseIn, latestHelmSecret, Visible
  <2>. QED
    BY <2>1, ReleaseType
<1>11. Calls!OthersChange
  BY <1>1, <1>9, <1>10, SameSets DEF Calls!OthersChange, Calls!NoCall, Mapped, Unmapped
<1>. QED
  BY <1>6, <1>7, <1>11 DEF Inv, Sim, Calls!CallsNext

LEMMA HelmUpgradeStep ==
  ASSUME Inv, HelmUpgrade
  PROVE  Inv' /\ Sim
<1>. DEFINE used == {r \in Revision : secret[r] # None}
            rev == IF used = {} THEN 1 ELSE Max(used) + 1
            old == latestHelmSecret(secret)
<1>1. secret \in Items
  BY DEF Inv, TypeOK, Items
<1>2. PICK v \in Version \ {0}, status \in Statuses, kept \in BOOLEAN :
        /\ chart' = v
        /\ secret' = [r \in Revision |->
             IF r = rev
             THEN [version |-> v, status |-> status, label |-> status, owned |-> FALSE,
                   owner |-> IF kept /\ old # 0 THEN secret[old].owner ELSE "",
                   mode  |-> IF kept /\ old # 0 THEN secret[old].mode ELSE ""]
             ELSE IF r = old /\ status = "deployed"
                  THEN [secret[r] EXCEPT !.status = "failed", !.label = "superseded"]
                  ELSE secret[r]]
  BY Zenon DEF HelmUpgrade
<1>. HIDE DEF rev
<1>3. old = 0 \/ old \in Visible(secret)
  BY NewestVisible
<1>4. old # 0 => old \in Revision /\ secret[old] \in Secret
  BY <1>1, <1>3 DEF Visible, Items
<1>. HIDE DEF old
<1>5. [version |-> v, status |-> status, label |-> status, owned |-> FALSE,
       owner |-> IF kept /\ old # 0 THEN secret[old].owner ELSE "",
       mode  |-> IF kept /\ old # 0 THEN secret[old].mode ELSE ""] \in Secret
  BY Zenon, <1>4 DEF Secret, Statuses, Owners, Modes
<1>6. old # 0 => [secret[old] EXCEPT !.status = "failed", !.label = "superseded"] \in Secret
  BY Zenon, <1>4 DEF Secret, Statuses
<1>7. 0 \notin Revision
  BY StorageAssumption DEF Revision
<1>8. secret' \in Items
  BY Zenon, <1>1, <1>2, <1>5, <1>6, <1>7 DEF Items
<1>. QED
  BY Zenon, <1>2, <1>8, InterfereStep DEF HelmUpgrade

LEMMA HelmUninstallStep ==
  ASSUME Inv, HelmUninstall
  PROVE  Inv' /\ Sim
<1>1. secret' \in Items /\ chart' \in Version \cup {None} /\ Interfere
  BY DEF HelmUninstall, Items
<1>. QED
  BY <1>1, InterfereStep

LEMMA RelabelStep ==
  ASSUME Inv, Relabel
  PROVE  Inv' /\ Sim
<1>. DEFINE old == latestHelmSecret(secret)
<1>1. secret \in Items /\ chart' \in Version \cup {None} /\ Interfere
  BY Zenon DEF Inv, TypeOK, Items, Relabel
<1>2. PICK owner \in {"", "other"} :
        secret' = [secret EXCEPT ![old].owner = owner, ![old].mode = ""]
  BY Zenon DEF Relabel
<1>3. old \in Revision /\ secret[old] \in Secret
  <2>1. old \in Visible(secret)
    BY Zenon, NewestVisible DEF Relabel
  <2>. QED
    BY Zenon, <1>1, <2>1 DEF Visible, Items
<1>. HIDE DEF old
<1>4. [secret[old] EXCEPT !.owner = owner, !.mode = ""] \in Secret
  BY Zenon, <1>3 DEF Secret, Owners, Modes
<1>5. secret' = [secret EXCEPT ![old] = [secret[old] EXCEPT !.owner = owner, !.mode = ""]]
  BY Zenon, <1>1, <1>2, <1>3 DEF Items
<1>6. secret' \in Items
  BY Zenon, <1>1, <1>4, <1>5 DEF Items
<1>. QED
  BY Zenon, <1>1, <1>6, InterfereStep

--------------------------------------------------------------------------------
(* The theorems. *)

LEMMA NextStep == Inv /\ [Next]_vars => Inv' /\ Sim
<1>. SUFFICES ASSUME Inv, [Next]_vars PROVE Inv' /\ Sim
  OBVIOUS
<1>1. CASE UNCHANGED vars
  <2>1. Inv'
    BY <1>1 DEF vars, Inv, TypeOK, Holds, HoldsClaim, Working
  <2>2. GetRelease' = GetRelease
    BY <1>1 DEF vars, GetRelease, ReleaseIn, latestHelmSecret, Visible
  <2>3. Mapped' = Mapped
    BY <1>1 DEF vars, Mapped, Decided
  <2>. QED
    BY <1>1, <2>1, <2>2, <2>3 DEF Sim, Calls!callVars, Mapped, vars
<1>2. ASSUME NEW c \in Callers, ClientStep(c) PROVE Inv' /\ Sim
  <2>. HIDE DEF Inv, Sim
  <2>. QED
    BY <1>2, ReturningStep, ReadReleaseStep, FindRevisionStep, MarkSupersededStep,
       ApplyManifestsStep, StoreSecretStep, DeleteReleaseObjectsStep, ListSecretsStep,
       DeleteSecretStep, ClaimReadStep, ClaimListStep, ClaimGetStep, ClaimUpdateStep
    DEF ClientStep
<1>. QED
  BY <1>1, <1>2, BeginStep, AcquireStep, ClaimLockStep, ReturningStep, RestartStep,
     HelmUpgradeStep, HelmUninstallStep, RelabelStep DEF Next

\* The calls of the Helm clients keep their types, and exactly who works on the
\* release holds its mutex (ReleaseLocks.acquire, claimReleaseLocks).
THEOREM StorageTypeCorrect == Spec => []TypeOK
<1>1. Init => Inv
  BY InvInit
<1>2. Inv /\ [Next]_vars => Inv'
  BY NextStep
<1>3. Inv => TypeOK
  BY DEF Inv
<1>. QED
  BY <1>1, <1>2, <1>3, PTL DEF Spec

\* The cluster Helm clients implement ReleaseCalls for any number of callers,
\* faults and changes by others: each call changes the release at most once, to
\* what it was asked for, and dpf-operator is never more than stamped.
THEOREM ClientsKeepPromise == Spec => KeepsPromise
<1>1. Init => Inv
  BY InvInit
<1>2. Inv /\ [Next]_vars => Inv' /\ Sim
  BY NextStep
<1>3. Init => Calls!CallsInit
  <2>. SUFFICES ASSUME Init PROVE Calls!CallsInit
    OBVIOUS
  <2>1. Mapped = [c \in Callers |-> Unmapped]
    BY DEF Init, Mapped, Decided, Idle, Undecided, Unmapped
  <2>2. GetRelease \in Release \cup {None}
    <3>1. secret \in Items
      BY DEF Init, Items
    <3>. QED
      BY <3>1, ReleaseType DEF GetRelease
  <2>. QED
    BY <2>1, <2>2, SameSets DEF Init, Calls!CallsInit, Calls!NoCall, Mapped, Unmapped
<1>4. Sim => [Calls!CallsNext]_(Calls!callVars)
  BY DEF Sim
<1>. QED
  BY <1>1, <1>2, <1>3, <1>4, PTL DEF Spec, KeepsPromise, Calls!CallsSpec

--------------------------------------------------------------------------------
(* What a call that succeeds leaves behind. *)

\* The newest visible Secret holds the release that storeSecret writes.  An adoption
\* may stamp its labels meanwhile: the payload's win.
Newest(items, v) ==
  \E r \in Visible(items) :
    /\ \A x \in Visible(items) : x <= r
    /\ items[r].version = v /\ items[r].status = "deployed" /\ items[r].owned

\* What holds of call k that nobody has overtaken while the storage is items and the
\* chart's objects are those of version objects: no Secret is newer than the one it
\* found, and what it has done so far is still there.
Stored(k, items, objects) ==
  /\ k.pc = "confirm" /\ k.op # "claim" => ~protected
  /\ ~k.overtaken =>
       /\ k.pc \in {"find", "supersede", "apply", "store"} => \A r \in Visible(items) : r <= k.rev
       /\ k.pc = "store" => objects = k.to
       /\ k.pc = "confirm" /\ k.op # "claim" => objects = k.to /\ Newest(items, k.to)
       /\ k.pc \in {"list", "secrets"} => objects = None

Kept == \A c \in Callers : Stored(call[c], secret, chart)

\* An adoption changes nothing of that.
LEMMA StampKeeps ==
  ASSUME NEW items \in Items, NEW k \in Revision, items[k] # None,
         NEW next, next = Stamped(items, k)
  PROVE  /\ Visible(next) = Visible(items)
         /\ \A v : Newest(items, v) => Newest(next, v)
<1>1. items[k] \in Secret
  BY DEF Items
<1> DEFINE s == [items[k] EXCEPT !.owner = "adapter", !.mode = "adopted"]
<1>2. s.version = items[k].version /\ s.status = items[k].status /\ s.owned = items[k].owned
  BY <1>1 DEF Secret
<1>3. next = [items EXCEPT ![k] = s]
  BY DEF Stamped
<1> HIDE DEF s
<1>4. \A r \in Revision : next[r].version = items[r].version /\ next[r].status = items[r].status
                          /\ next[r].owned = items[r].owned
  BY <1>2, <1>3 DEF Items
<1>5. Visible(next) = Visible(items) /\ Visible(items) \subseteq Revision
  BY StampRelease DEF Visible
<1>6. ASSUME NEW v, Newest(items, v) PROVE Newest(next, v)
  <2>1. PICK r \in Visible(items) :
           /\ \A x \in Visible(items) : x <= r
           /\ items[r].version = v /\ items[r].status = "deployed" /\ items[r].owned
    BY <1>6 DEF Newest
  <2>2. r \in Visible(next) /\ \A x \in Visible(next) : x <= r
    BY <1>5, <2>1
  <2>3. next[r].version = v /\ next[r].status = "deployed" /\ next[r].owned
    BY <1>4, <1>5, <2>1
  <2> QED
    BY <2>2, <2>3 DEF Newest
<1> QED
  BY <1>5, <1>6

\* What a step of c may do: it works under the mutex, it stamps, or it leaves the
\* storage and the objects alone.
LEMMA KeptStep ==
  ASSUME Inv, Kept, NEW c \in Callers, NEW k, call' = [call EXCEPT ![c] = k], protected' = protected,
         \/ UNCHANGED <<secret, chart>>
         \/ ~protected /\ lock = c
         \/ /\ chart' = chart
            /\ \E r \in Revision : secret[r] # None /\ secret' = Stamped(secret, r),
         Stored(k, secret', chart')
  PROVE  Kept'
<1>1. secret \in Items /\ \A d \in Callers : call'[d] = IF d = c THEN k ELSE call[d]
  BY DEF Inv, TypeOK, Items
<1>2. ASSUME NEW d \in Callers PROVE Stored(call[d], secret, chart)'
  <2>1. CASE d = c
    BY <1>1, <2>1 DEF Stored
  <2>2. CASE d # c
    <3>1. call'[d] = call[d] /\ Stored(call[d], secret, chart)
      BY <1>1, <2>2 DEF Kept
    <3>2. CASE UNCHANGED <<secret, chart>>
      BY <3>1, <3>2 DEF Stored
    <3>3. CASE ~protected /\ lock = c
      <4>1. ~Holds(call[d])
        BY <2>2, <3>3 DEF Inv, TypeOK
      <4> QED
        BY <3>1, <3>3, <4>1 DEF Holds, Stored
    <3>4. CASE /\ chart' = chart
               /\ \E r \in Revision : secret[r] # None /\ secret' = Stamped(secret, r)
      <4>1. Visible(secret') = Visible(secret) /\ \A v : Newest(secret, v) => Newest(secret', v)
        BY <1>1, <3>4, StampKeeps
      <4> QED
        BY Zenon, <3>1, <3>4, <4>1 DEF Stored
    <3> QED
      BY <3>2, <3>3, <3>4
  <2> QED
    BY <2>1, <2>2
<1> QED
  BY <1>2 DEF Kept

\* A call that works on nothing, or that only adopts, has nothing to keep.
LEMMA NothingToKeep ==
  ASSUME NEW k, \/ k.pc \notin {"find", "supersede", "apply", "store", "confirm", "list", "secrets"}
                \/ k.pc = "confirm" /\ k.op = "claim"
  PROVE  \A items, objects : Stored(k, items, objects)
  BY DEF Stored

LEMMA ReturnKept ==
  ASSUME Inv, Kept, NEW c \in Callers, Returns(c), UNCHANGED <<secret, chart, protected>>
  PROVE  Kept'
<1>1. call' = [call EXCEPT ![c] = Idle]
  BY DEF Returns
<1>2. Stored(Idle, secret', chart')
  BY NothingToKeep DEF Idle
<1> QED
  BY Zenon, <1>1, <1>2, KeptStep

\* The call goes on to pc.
LEMMA GotoCall ==
  ASSUME TypeOK, NEW c \in Callers, NEW pc \in Steps, Goto(c, pc)
  PROVE  \E k \in Call :
           /\ call' = [call EXCEPT ![c] = k] /\ k.pc = pc /\ k.op = call[c].op /\ k.to = call[c].to
           /\ k.rev = call[c].rev /\ k.overtaken = call[c].overtaken /\ k.todo = call[c].todo
<1>1. call[c] \in Call
  BY DEF TypeOK
<1> DEFINE k == [call[c] EXCEPT !.pc = pc]
<1>2. call' = [call EXCEPT ![c] = k]
  BY <1>1 DEF Goto, TypeOK
<1>3. /\ k \in Call /\ k.pc = pc /\ k.op = call[c].op /\ k.to = call[c].to
      /\ k.rev = call[c].rev /\ k.overtaken = call[c].overtaken /\ k.todo = call[c].todo
  BY <1>1 DEF Call
<1> QED
  BY Zenon, <1>2, <1>3

\* A call with these steps holds the mutex of a release other than dpf-operator.
LEMMA Alone ==
  ASSUME Inv, NEW c \in Callers,
         call[c].pc \in {"read", "find", "supersede", "apply", "store", "objects", "list", "secrets"}
  PROVE  ~protected /\ lock = c /\ call[c] \in Call /\ call[c].op # "claim" /\ TypeOK
  BY DEF Inv, TypeOK, Working, Holds

\* Before the call has looked at the release.
LEMMA UndecidedKept ==
  ASSUME Inv, Kept, NEW c \in Callers, Begin(c) \/ Acquire(c) \/ ClaimLock(c)
  PROVE  Kept'
<1>1. UNCHANGED <<secret, chart, protected>> /\ TypeOK
  BY Zenon DEF Begin, Acquire, ClaimLock, Inv
<1>2. CASE Begin(c)
  <2>1. PICK op \in Ops, to \in Version \ {0} :
          call' = [call EXCEPT ![c] = [Idle EXCEPT !.op = op, !.to = to,
                        !.pc = IF op = "claim" THEN "claimLock"
                               ELSE IF guardMutation THEN "lock" ELSE "refused"]]
    BY <1>2, Zenon DEF Begin
  <2> DEFINE k == [Idle EXCEPT !.op = op, !.to = to,
                        !.pc = IF op = "claim" THEN "claimLock"
                               ELSE IF guardMutation THEN "lock" ELSE "refused"]
  <2>2. k.pc \in {"claimLock", "lock", "refused"}
    BY DEF Idle
  <2>3. call' = [call EXCEPT ![c] = k]
    BY <2>1
  <2> HIDE DEF k
  <2> QED
    BY Zenon, <1>1, <2>2, <2>3, NothingToKeep, KeptStep
<1>3. CASE Acquire(c) \/ ClaimLock(c)
  <2>1. PICK pc \in {"read", "claimRead"} : Goto(c, pc)
    BY <1>3 DEF Acquire, ClaimLock
  <2>2. pc \in Steps
    BY DEF Steps
  <2>3. PICK k \in Call : call' = [call EXCEPT ![c] = k] /\ k.pc = pc
    BY <1>1, <2>1, <2>2, GotoCall
  <2> QED
    BY Zenon, <1>1, <2>3, NothingToKeep, KeptStep
<1> QED
  BY <1>2, <1>3

LEMMA ReadReleaseKept ==
  ASSUME Inv, Kept, NEW c \in Callers, ReadRelease(c)
  PROVE  Kept'
<1>1. call[c].pc = "read" /\ UNCHANGED <<secret, chart, protected>>
  BY DEF ReadRelease
<1>2. call[c] \in Call /\ TypeOK
  BY <1>1, Alone
<1>3. CASE Returns(c)
  BY <1>1, <1>3, ReturnKept
<1>4. CASE ~Returns(c)
  <2> DEFINE next == [install |-> "apply", upgrade |-> "supersede",
                      rollback |-> "find", uninstall |-> "objects"]
             pc == next[call[c].op]
             rev == latestHelmSecret(secret)
             k == [call[c] EXCEPT !.pc = pc, !.rev = rev, !.overtaken = FALSE]
  <2>1. call' = [call EXCEPT ![c].pc = pc, ![c].rev = rev, ![c].overtaken = FALSE]
    BY <1>4 DEF ReadRelease
  <2>2. call[c].op \in {"install", "upgrade", "rollback", "uninstall"}
    BY <1>1 DEF Inv, Working, Ops
  <2>3. pc \in {"apply", "supersede", "find", "objects"}
    BY <2>2
  <2> HIDE DEF pc, rev
  <2>4. call' = [call EXCEPT ![c] = k]
    BY Zenon, <1>2, <2>1 DEF TypeOK
  <2>5. k.pc = pc /\ k.rev = rev
    BY <1>2 DEF Call
  <2> HIDE DEF k
  <2>6. \A r \in Visible(secret) : r <= rev
    BY NewestVisible DEF rev
  <2>7. Stored(k, secret', chart')
    BY <1>1, <2>3, <2>5, <2>6 DEF Stored
  <2> QED
    BY Zenon, <1>1, <2>4, <2>7, KeptStep
<1> QED
  BY <1>3, <1>4

LEMMA FindRevisionKept ==
  ASSUME Inv, Kept, NEW c \in Callers, FindRevision(c)
  PROVE  Kept'
<1>1. call[c].pc = "find" /\ UNCHANGED <<secret, chart, protected>> /\ TypeOK
  BY DEF FindRevision, Inv
<1>2. CASE Returns(c)
  BY <1>1, <1>2, ReturnKept
<1>3. CASE Goto(c, "supersede")
  <2>1. "supersede" \in Steps
    BY DEF Steps
  <2>2. PICK k \in Call : /\ call' = [call EXCEPT ![c] = k] /\ k.pc = "supersede"
                          /\ k.rev = call[c].rev /\ k.overtaken = call[c].overtaken
    BY <1>1, <1>3, <2>1, GotoCall
  <2>3. Stored(call[c], secret, chart)
    BY DEF Kept
  <2>4. Stored(k, secret', chart')
    BY <1>1, <2>2, <2>3 DEF Stored
  <2> QED
    BY Zenon, <1>1, <2>2, <2>4, KeptStep
<1> QED
  BY <1>2, <1>3 DEF FindRevision

\* The Secret that is marked was the newest and still is.
LEMMA MarkSupersededKept ==
  ASSUME Inv, Kept, NEW c \in Callers, MarkSuperseded(c)
  PROVE  Kept'
<1>1. call[c].pc = "supersede" /\ UNCHANGED <<chart, protected>>
  BY DEF MarkSuperseded
<1>2. ~protected /\ lock = c /\ call[c] \in Call /\ TypeOK
  BY <1>1, Alone
<1>3. CASE Returns(c) /\ UNCHANGED secret
  BY <1>1, <1>3, ReturnKept
<1>4. CASE secret' = [secret EXCEPT ![call[c].rev].label = "superseded"] /\ Goto(c, "apply")
  <2>1. "apply" \in Steps
    BY DEF Steps
  <2>2. PICK k \in Call : /\ call' = [call EXCEPT ![c] = k] /\ k.pc = "apply"
                          /\ k.rev = call[c].rev /\ k.overtaken = call[c].overtaken
    BY <1>2, <1>4, <2>1, GotoCall
  <2>3. Stored(call[c], secret, chart)
    BY DEF Kept
  <2>4. \A r \in Revision \ {call[c].rev} : secret'[r] = secret[r]
    BY <1>2, <1>4 DEF TypeOK
  <2>5. Visible(secret') \subseteq Visible(secret) \cup {call[c].rev}
    BY <2>4 DEF Visible
  <2>6. call[c].rev \in Nat
    BY <1>2, StorageAssumption DEF Call
  <2>7. Stored(k, secret', chart')
    BY <1>1, <2>2, <2>3, <2>5, <2>6 DEF Stored
  <2> QED
    BY Zenon, <1>1, <1>2, <2>2, <2>7, KeptStep
<1> QED
  BY <1>3, <1>4 DEF MarkSuperseded

LEMMA ApplyManifestsKept ==
  ASSUME Inv, Kept, NEW c \in Callers, ApplyManifests(c)
  PROVE  Kept'
<1>1. call[c].pc = "apply" /\ UNCHANGED <<secret, protected>> /\ chart' = call[c].to
  BY DEF ApplyManifests
<1>2. ~protected /\ lock = c /\ call[c] \in Call /\ TypeOK
  BY <1>1, Alone
<1>3. "store" \in Steps
  BY DEF Steps
<1>4. PICK k \in Call : /\ call' = [call EXCEPT ![c] = k] /\ k.pc = "store" /\ k.to = call[c].to
                        /\ k.rev = call[c].rev /\ k.overtaken = call[c].overtaken
  BY <1>2, <1>3, GotoCall DEF ApplyManifests
<1>5. Stored(call[c], secret, chart)
  BY DEF Kept
<1>6. Stored(k, secret', chart')
  BY <1>1, <1>4, <1>5 DEF Stored
<1> QED
  BY Zenon, <1>1, <1>2, <1>4, <1>6, KeptStep

\* The Secret that is stored is newer than every other.
LEMMA StoreSecretKept ==
  ASSUME Inv, Kept, NEW c \in Callers, StoreSecret(c)
  PROVE  Kept'
<1>1. /\ call[c].pc = "store" /\ UNCHANGED <<chart, protected>>
      /\ secret' = [secret EXCEPT ![call[c].rev + 1] = StoredSecret(call[c].to)]
  BY DEF StoreSecret
<1>2. ~protected /\ lock = c /\ call[c] \in Call /\ call[c].op # "claim" /\ TypeOK
  BY <1>1, Alone
<1>3. call[c].rev + 1 \in Revision /\ call[c].rev \in Nat
  <2>1. Working(call[c], secret)
    BY DEF Inv
  <2>2. call[c].rev < MaxRevision
    BY Zenon, <1>1, <2>1 DEF Working
  <2>3. call[c].rev \in 0..MaxRevision
    BY <1>2 DEF Call
  <2> QED
    BY <2>2, <2>3, StorageAssumption DEF Revision
<1> DEFINE k == [call[c] EXCEPT !.pc = "confirm", !.rev = 0, !.copy = None, !.tries = 1]
<1>4. call' = [call EXCEPT ![c] = k]
  BY Zenon, <1>2 DEF StoreSecret, Written, TypeOK
<1>5. k.pc = "confirm" /\ k.to = call[c].to /\ k.op = call[c].op /\ k.overtaken = call[c].overtaken
  BY <1>2 DEF Call
<1> HIDE DEF k
<1>6. Stored(call[c], secret, chart)
  BY DEF Kept
<1>7. ASSUME ~call[c].overtaken PROVE chart' = k.to /\ Newest(secret', k.to)
  <2>1. chart' = k.to
    BY <1>1, <1>5, <1>6, <1>7 DEF Stored
  <2>2. \A r \in Visible(secret) : r <= call[c].rev
    BY <1>1, <1>6, <1>7 DEF Stored
  <2>3. /\ secret'[call[c].rev + 1] = StoredSecret(call[c].to)
        /\ \A r \in Revision \ {call[c].rev + 1} : secret'[r] = secret[r]
    BY <1>1, <1>2, <1>3 DEF TypeOK
  <2>4. StoredSecret(call[c].to) # None
    <3>1. StoredSecret(call[c].to) \in Secret
      BY Zenon, <1>2 DEF StoredSecret, Secret, Statuses, Owners, Modes, Call
    <3> QED
      BY <3>1, StorageAssumption
  <2>5. call[c].rev + 1 \in Visible(secret')
    <3>1. StoredSecret(call[c].to).label # "failed"
      BY DEF StoredSecret
    <3> QED
      BY Zenon, <1>3, <2>3, <2>4, <3>1 DEF Visible
  <2>6. Visible(secret') \subseteq Visible(secret) \cup {call[c].rev + 1} /\ Visible(secret) \subseteq Revision
    BY <2>3 DEF Visible
  <2>7. \A x \in Visible(secret') : x <= call[c].rev + 1
    <3> TAKE x \in Visible(secret')
    <3>1. CASE x = call[c].rev + 1
      BY <1>3, <3>1
    <3>2. CASE x \in Visible(secret)
      <4>1. x \in Nat
        BY <2>6, <3>2, StorageAssumption DEF Revision
      <4>2. x <= call[c].rev
        BY <2>2, <3>2
      <4> QED
        BY <1>3, <4>1, <4>2
    <3> QED
      BY Zenon, <2>6, <3>1, <3>2
  <2>8. Newest(secret', k.to)
    BY <1>5, <2>3, <2>5, <2>7 DEF Newest, StoredSecret
  <2> QED
    BY <2>1, <2>8
<1>8. Stored(k, secret', chart')
  BY <1>2, <1>5, <1>7 DEF Stored
<1> QED
  BY Zenon, <1>1, <1>2, <1>4, <1>8, KeptStep

LEMMA UninstallKept ==
  ASSUME Inv, Kept, NEW c \in Callers,
         DeleteReleaseObjects(c) \/ ListSecrets(c) \/ DeleteSecret(c)
  PROVE  Kept'
<1>1. ~protected /\ lock = c /\ call[c] \in Call /\ TypeOK /\ protected' = protected
  BY Alone DEF DeleteReleaseObjects, ListSecrets, DeleteSecret
<1>2. Stored(call[c], secret, chart)
  BY DEF Kept
<1>3. PICK k : /\ call' = [call EXCEPT ![c] = k] /\ k.pc \in {"list", "secrets"}
               /\ k.overtaken = call[c].overtaken
               /\ ~k.overtaken => chart' = None
  <2>1. CASE DeleteReleaseObjects(c)
    <3>1. "list" \in Steps
      BY DEF Steps
    <3>2. PICK k \in Call : /\ call' = [call EXCEPT ![c] = k] /\ k.pc = "list"
                            /\ k.overtaken = call[c].overtaken
      BY <1>1, <2>1, <3>1, GotoCall DEF DeleteReleaseObjects
    <3> QED
      BY Zenon, <2>1, <3>2 DEF DeleteReleaseObjects
  <2>2. CASE ListSecrets(c)
    <3> DEFINE todo == {r \in Revision : secret[r] # None}
               k == [call[c] EXCEPT !.pc = "secrets", !.todo = todo]
    <3>1. call' = [call EXCEPT ![c].pc = "secrets", ![c].todo = todo] /\ call[c].pc = "list" /\ chart' = chart
      BY <2>2 DEF ListSecrets
    <3> HIDE DEF todo
    <3>2. call' = [call EXCEPT ![c] = k]
      BY Zenon, <1>1, <3>1 DEF TypeOK
    <3>3. k.pc = "secrets" /\ k.overtaken = call[c].overtaken
      BY <1>1 DEF Call
    <3>4. ~call[c].overtaken => chart' = None
      BY <1>2, <3>1 DEF Stored
    <3> HIDE DEF k
    <3> QED
      BY Zenon, <3>2, <3>3, <3>4
  <2>3. CASE DeleteSecret(c)
    <3> DEFINE todo == call[c].todo \ {Min(call[c].todo)}
               k == [call[c] EXCEPT !.todo = todo]
    <3>1. call' = [call EXCEPT ![c].todo = @ \ {Min(call[c].todo)}] /\ call[c].pc = "secrets" /\ chart' = chart
      BY <2>3 DEF DeleteSecret
    <3>2. call' = [call EXCEPT ![c] = k]
      BY <1>1, <3>1 DEF TypeOK
    <3> HIDE DEF todo
    <3>3. k.pc = "secrets" /\ k.overtaken = call[c].overtaken
      BY <1>1, <3>1 DEF Call
    <3>4. ~call[c].overtaken => chart' = None
      BY <1>2, <3>1 DEF Stored
    <3> HIDE DEF k
    <3> QED
      BY Zenon, <3>2, <3>3, <3>4
  <2> QED
    BY <2>1, <2>2, <2>3
<1>4. Stored(k, secret', chart')
  BY <1>3 DEF Stored
<1> QED
  BY Zenon, <1>1, <1>3, <1>4, KeptStep

\* An adoption stamps a Secret at most, whoever holds the release's mutex.
LEMMA ClaimKept ==
  ASSUME Inv, Kept, NEW c \in Callers,
         ClaimRead(c) \/ ClaimList(c) \/ ClaimGet(c) \/ ClaimUpdate(c)
  PROVE  Kept'
<1>1. /\ call[c] \in Call /\ call[c].op = "claim" /\ TypeOK /\ UNCHANGED <<chart, protected>>
  BY DEF Inv, TypeOK, Working, ClaimRead, ClaimList, ClaimGet, ClaimUpdate
<1>2. CASE Returns(c) /\ UNCHANGED secret
  BY <1>1, <1>2, ReturnKept
<1>3. ASSUME NEW k, call' = [call EXCEPT ![c] = k], UNCHANGED secret,
             \/ k.pc \in {"claimRead", "claimList", "claimGet", "claimUpdate"}
             \/ k.pc = "confirm" /\ k.op = "claim"
      PROVE  Kept'
  <2>1. Stored(k, secret', chart')
    BY <1>3, NothingToKeep
  <2> QED
    BY Zenon, <1>1, <1>3, <2>1, KeptStep
<1> DEFINE confirm == [call[c] EXCEPT !.pc = "confirm", !.rev = 0, !.copy = None, !.tries = 1]
<1>4. /\ Written(c) => call' = [call EXCEPT ![c] = confirm]
      /\ confirm.pc = "confirm" /\ confirm.op = "claim"
  BY Zenon, <1>1 DEF Written, TypeOK, Call
<1> HIDE DEF confirm
<1>5. CASE ClaimRead(c)
  <2> DEFINE k == [call[c] EXCEPT !.pc = "claimList", !.overtaken = FALSE]
  <2>1. CASE call' = [call EXCEPT ![c].pc = "claimList", ![c].overtaken = FALSE]
    <3>1. call' = [call EXCEPT ![c] = k] /\ k.pc = "claimList"
      BY Zenon, <1>1, <2>1 DEF TypeOK, Call
    <3> HIDE DEF k
    <3> QED
      BY Zenon, <1>3, <1>5, <3>1 DEF ClaimRead
  <2> QED
    BY <1>2, <1>5, <2>1 DEF ClaimRead
<1>6. CASE ClaimList(c)
  <2> DEFINE rev == latestHelmSecret(secret)
             k == [call[c] EXCEPT !.pc = "claimGet", !.rev = rev]
  <2>1. CASE call' = [call EXCEPT ![c].pc = "claimGet", ![c].rev = rev]
    <3> HIDE DEF rev
    <3>1. call' = [call EXCEPT ![c] = k] /\ k.pc = "claimGet"
      BY Zenon, <1>1, <2>1 DEF TypeOK, Call
    <3> HIDE DEF k
    <3> QED
      BY Zenon, <1>3, <1>6, <3>1 DEF ClaimList
  <2> QED
    BY <1>2, <1>6, <2>1 DEF ClaimList
<1>7. CASE ClaimGet(c)
  <2> DEFINE t == secret[call[c].rev]
             k == [call[c] EXCEPT !.pc = "claimUpdate", !.copy = t]
  <2>1. UNCHANGED secret
    BY <1>7 DEF ClaimGet
  <2>2. CASE call' = [call EXCEPT ![c].pc = "claimUpdate", ![c].copy = t]
    <3> HIDE DEF t
    <3>1. call' = [call EXCEPT ![c] = k] /\ k.pc = "claimUpdate"
      BY Zenon, <1>1, <2>2 DEF TypeOK, Call
    <3> HIDE DEF k
    <3> QED
      BY Zenon, <1>3, <2>1, <3>1
  <2>3. CASE Written(c)
    BY <1>3, <1>4, <2>1, <2>3
  <2> QED
    BY <1>2, <1>7, <2>1, <2>2, <2>3 DEF ClaimGet
<1>8. CASE ClaimUpdate(c)
  <2>1. CASE TryAgain(c) /\ UNCHANGED secret
    <3> DEFINE tries == call[c].tries + 1
               k == [Idle EXCEPT !.op = "claim", !.to = Pin, !.pc = "claimRead", !.tries = tries]
    <3>1. k.pc = "claimRead"
      BY DEF Idle
    <3>2. Returns(c) \/ call' = [call EXCEPT ![c] = k]
      BY <2>1 DEF TryAgain
    <3> HIDE DEF k
    <3> QED
      BY <1>2, <1>3, <2>1, <3>1, <3>2
  <2>2. CASE /\ Written(c) /\ secret[call[c].rev] # None
             /\ secret' = [secret EXCEPT ![call[c].rev].owner = "adapter", ![call[c].rev].mode = "adopted"]
    <3>1. call[c].rev \in Revision
      BY <1>8 DEF Inv, Working, ClaimUpdate
    <3>2. secret' = Stamped(secret, call[c].rev)
      BY Zenon, <1>1, <2>2, <3>1 DEF Stamped, TypeOK
    <3>3. Stored(confirm, secret', chart')
      BY <1>4, NothingToKeep
    <3> QED
      BY Zenon, <1>1, <1>4, <2>2, <3>1, <3>2, <3>3, KeptStep
  <2> QED
    BY Zenon, <1>2, <1>8, <2>1, <2>2 DEF ClaimUpdate
<1> QED
  BY <1>5, <1>6, <1>7, <1>8

LEMMA EnvironmentKept ==
  ASSUME Inv, Kept, Restart \/ HelmUpgrade \/ HelmUninstall \/ Relabel
  PROVE  Kept'
<1>1. CASE Restart
  <2>1. ASSUME NEW c \in Callers PROVE Stored(call[c], secret, chart)'
    <3>1. call'[c] = Idle
      BY <1>1 DEF Restart
    <3> QED
      BY <3>1 DEF Stored, Idle
  <2> QED
    BY <2>1 DEF Kept
<1>2. CASE Interfere
  <2>1. protected' = protected /\ call' = Overtaken
    BY <1>2 DEF Interfere
  <2>2. ASSUME NEW c \in Callers PROVE Stored(call[c], secret, chart)'
    <3>1. Stored(call[c], secret, chart) /\ call[c] \in Call
      BY DEF Kept, Inv, TypeOK
    <3>2. call'[c] = IF call[c].pc \in Undecided THEN call[c] ELSE [call[c] EXCEPT !.overtaken = TRUE]
      BY <2>1 DEF Overtaken
    <3>3. CASE call[c].pc \in Undecided
      BY <3>2, <3>3 DEF Stored, Undecided
    <3>4. CASE call[c].pc \notin Undecided
      <4>1. call'[c].pc = call[c].pc /\ call'[c].op = call[c].op /\ call'[c].overtaken
        BY <3>1, <3>2, <3>4 DEF Call
      <4> QED
        BY Zenon, <2>1, <3>1, <4>1 DEF Stored
    <3> QED
      BY <3>3, <3>4
  <2> QED
    BY <2>2 DEF Kept
<1> QED
  BY Zenon, <1>1, <1>2 DEF HelmUpgrade, HelmUninstall, Relabel

LEMMA NextKept == Inv /\ Kept /\ [Next]_vars => Kept'
<1> SUFFICES ASSUME Inv, Kept, [Next]_vars PROVE Kept'
  OBVIOUS
<1>1. CASE UNCHANGED vars
  BY <1>1 DEF vars, Kept, Stored, Newest, Visible
<1>2. ASSUME NEW c \in Callers, Refused(c) \/ Confirm(c) \/ Uninstalled(c) \/ CallFails(c) PROVE Kept'
  BY Zenon, <1>2, ReturnKept DEF Refused, Confirm, Uninstalled, CallFails
<1>3. ASSUME NEW c \in Callers, ClientStep(c) PROVE Kept'
  BY <1>2, <1>3, ReadReleaseKept, FindRevisionKept, MarkSupersededKept, ApplyManifestsKept,
     StoreSecretKept, UninstallKept, ClaimKept DEF ClientStep
<1> QED
  BY <1>1, <1>2, <1>3, UndecidedKept, EnvironmentKept DEF Next

\* The release that GetRelease finds is the stored one.
LEMMA NewestIsRelease ==
  ASSUME TypeOK, NEW v, Newest(secret, v)
  PROVE  GetRelease = StoredRelease(v)
<1>1. PICK r \in Visible(secret) :
         /\ \A x \in Visible(secret) : x <= r
         /\ secret[r].version = v /\ secret[r].status = "deployed" /\ secret[r].owned
  BY DEF Newest
<1>2. GetRelease = releaseFromHelmSecret(secret[r])
  BY <1>1, ReleaseOfNewest DEF GetRelease
<1>3. releaseFromHelmSecret(secret[r]) = releaseFromHelmSecret(StoredSecret(v))
  BY Zenon, <1>1 DEF releaseFromHelmSecret, StoredSecret
<1> QED
  BY <1>2, <1>3 DEF StoredRelease

\* A call that succeeds, and that others have not overtaken, has left the release
\* and the objects of its chart at the version it was asked for, or nothing at all,
\* for any number of callers, adoptions, faults and restarts.
THEOREM SuccessLeavesWhatWasAsked == Spec => SuccessIsStored
<1>1. Init => Inv /\ Kept
  <2> SUFFICES ASSUME Init PROVE Inv /\ Kept
    OBVIOUS
  <2>1. \A c \in Callers : call[c].pc = "idle"
    BY DEF Init, Idle
  <2>2. Kept
    BY Zenon, <2>1 DEF Kept, Stored
  <2> QED
    BY <2>2, InvInit
<1>2. Inv /\ Kept /\ [Next]_vars => (Inv /\ Kept)'
  BY NextStep, NextKept
<1>3. ASSUME Inv, Kept, NEW c \in Callers, ~call[c].overtaken
      PROVE  /\ Confirm(c) /\ call[c].op # "claim" =>
                  GetRelease = StoredRelease(call[c].to) /\ chart = call[c].to
             /\ Uninstalled(c) => chart = None /\ \A r \in Revision : secret[r] = None
  <2>1. Stored(call[c], secret, chart) /\ TypeOK /\ Working(call[c], secret)
    BY <1>3 DEF Kept, Inv
  <2>2. ASSUME Confirm(c), call[c].op # "claim"
        PROVE  GetRelease = StoredRelease(call[c].to) /\ chart = call[c].to
    BY Zenon, <1>3, <2>1, <2>2, NewestIsRelease DEF Stored, Confirm
  <2>3. ASSUME Uninstalled(c) PROVE chart = None /\ \A r \in Revision : secret[r] = None
    BY Zenon, <1>3, <2>1, <2>3 DEF Stored, Working, Uninstalled
  <2> QED
    BY Zenon, <2>2, <2>3
<1>4. Inv /\ Kept /\ [Next]_vars =>
        [\A c \in Callers : ~call[c].overtaken =>
           /\ Confirm(c) /\ call[c].op # "claim" =>
                GetRelease = StoredRelease(call[c].to) /\ chart = call[c].to
           /\ Uninstalled(c) => chart = None /\ \A r \in Revision : secret[r] = None]_vars
  BY Zenon, <1>3
<1> QED
  BY <1>1, <1>2, <1>4, PTL DEF Spec, SuccessIsStored

====
