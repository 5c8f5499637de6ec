------------------------ MODULE HelmInstallerProofs ------------------------
(***************************************************************************)
(* What HelmInstaller guarantees for any number of callers, versions,      *)
(* attempts, faults and edits, and for both kinds of Helm client.          *)
(***************************************************************************)
EXTENDS HelmInstaller, TLAPS

LEMMA OwnedType == OwnedRelease \in Release
  BY PinAssumption DEF OwnedRelease, Release, Version, Statuses, Owners, Modes, Storages

LEMMA StampType ==
  ASSUME NEW r \in Release
  PROVE  stampAdoptedLabels(r) \in Release
  BY Zenon DEF stampAdoptedLabels, Release, Owners, Modes

LEMMA IdleType == Idle \in Ensuring
  BY PinAssumption DEF Idle, Ensuring, Steps, Causes, Actions, OpStatus, Version

\* What a step does to one caller's record keeps its type.
LEMMA EnsuringType ==
  ASSUME NEW e \in Ensuring
  PROVE  /\ \A pc \in Steps : [e EXCEPT !.pc = pc] \in Ensuring
         /\ [e EXCEPT !.cancelled = TRUE] \in Ensuring
         /\ \A cause \in Causes : [e EXCEPT !.pc = "observe", !.cause = cause] \in Ensuring
         /\ [e EXCEPT !.pc = "upgrade", !.attempt = e.attempt + 1] \in Ensuring
         /\ \A r \in Release, v \in Version :
               [e EXCEPT !.pc = "upgrade", !.before = r, !.lastGood = v, !.attempt = 1] \in Ensuring
<1>1. \A pc \in Steps : [e EXCEPT !.pc = pc] \in Ensuring
  BY DEF Ensuring
<1>2. [e EXCEPT !.cancelled = TRUE] \in Ensuring
  BY Zenon DEF Ensuring
<1>3. \A cause \in Causes : [e EXCEPT !.pc = "observe", !.cause = cause] \in Ensuring
  BY Zenon DEF Ensuring, Steps
<1>4. [e EXCEPT !.pc = "upgrade", !.attempt = e.attempt + 1] \in Ensuring
  <2>1. e.attempt \in Nat
    BY DEF Ensuring
  <2>2. e.attempt + 1 \in Nat
    BY <2>1
  <2>3. \A k \in Nat : [e EXCEPT !.pc = "upgrade", !.attempt = k] \in Ensuring
    BY Zenon DEF Ensuring, Steps
  <2> QED
    BY Zenon, <2>2, <2>3
<1>5. ASSUME NEW r \in Release, NEW v \in Version
      PROVE  [e EXCEPT !.pc = "upgrade", !.before = r, !.lastGood = v, !.attempt = 1] \in Ensuring
  BY Zenon DEF Ensuring, Steps
<1> QED
  BY Zenon, <1>1, <1>2, <1>3, <1>4, <1>5

LEMMA ReturnType ==
  ASSUME TypeOK, NEW c \in Callers, NEW a \in Actions, NEW s \in OpStatus, Return(c, a, s)
  PROVE  p' \in [Callers -> Ensuring] /\ holder' \in Callers \cup {None}
<1>1. Idle \in Ensuring
  BY IdleType
<1>2. [Idle EXCEPT !.action = a, !.status = s] \in Ensuring
  BY Zenon, <1>1 DEF Ensuring
<1> QED
  BY <1>2 DEF Return, TypeOK

LEMMA GotoType ==
  ASSUME TypeOK, NEW c \in Callers, NEW pc \in Steps, Goto(c, pc)
  PROVE  p' \in [Callers -> Ensuring]
  BY Zenon, EnsuringType DEF Goto, TypeOK

LEMMA ObserveType ==
  ASSUME TypeOK, NEW c \in Callers, NEW cause \in Causes, Observe(c, cause)
  PROVE  p' \in [Callers -> Ensuring]
  BY Zenon, EnsuringType DEF Observe, TypeOK

LEMMA NextAttemptType ==
  ASSUME TypeOK, NEW c \in Callers, NextAttempt(c)
  PROVE  p' \in [Callers -> Ensuring]
<1>1. p[c] \in Ensuring
  BY DEF TypeOK
<1>2. [p[c] EXCEPT !.pc = "rollback"] \in Ensuring
  BY Zenon, <1>1, EnsuringType DEF Steps
<1> QED
  BY Zenon, <1>1, <1>2, EnsuringType DEF NextAttempt, TypeOK

LEMMA FaultsType ==
  ASSUME TypeOK
  PROVE  /\ Succeeds => faults' \in Nat
         /\ Fails \/ Hidden => faults' \in Nat
         /\ Edited => edits' \in Nat
  BY DEF Succeeds, Fails, Hidden, Edited, TypeOK

\* No field of a release is written by a client call except in these ways.
LEMMA RestoredType ==
  ASSUME TypeOK, NEW to \in Version, CanRollback(to)
  PROVE  Restored(to) \in Release
  BY Zenon, OwnedType DEF Restored, CanRollback, TypeOK, OwnedRelease, Release

\* What a failing call leaves in the store is a release or nothing.
LEMMA AfterErrorType ==
  ASSUME TypeOK, NEW r \in Release \cup {None}, rel' \in AfterError(r)
  PROVE  rel' \in Release \cup {None}
  BY DEF AfterError, TypeOK

\* The store after a write, and its revisions.
LEMMA WrittenType ==
  ASSUME TypeOK, NEW r \in Release, Written(r)
  PROVE  rel' \in Release \cup {None} /\ faults' \in Nat /\ edits' \in Nat
  BY FaultsType, InstallerAssumption DEF Written, TypeOK

LEMMA RevisedType ==
  ASSUME TypeOK, rel' \in Release \cup {None}, Revised
  PROVE  revisions' \subseteq Version
  BY DEF Revised, TypeOK, Release

-----------------------------------------------------------------------------
(* Types, one lemma per step of Ensure                                      *)

LEMMA GetReleaseType ==
  ASSUME TypeOK, NEW c \in Callers, GetRelease(c)
  PROVE  TypeOK'
<1>0. refuses' \in BOOLEAN
  BY DEF GetRelease, TypeOK
<1>1. /\ faults' \in Nat /\ edits' \in Nat
      /\ rel' \in Release \cup {None} /\ revisions' \subseteq Version
  BY FaultsType DEF GetRelease, TypeOK
<1>2. {"install", "claim"} \subseteq Steps
  BY DEF Steps
<1>3. /\ {"unmanaged", "noop", "skipped", "failed"} \subseteq Actions
      /\ {"succeeded", "noop", "failed"} \subseteq OpStatus
  BY DEF Actions, OpStatus
<1>4. CASE Goto(c, "install") /\ UNCHANGED <<good, holder>>
  BY <1>0, <1>1, <1>2, <1>4, GotoType DEF TypeOK
<1>5. CASE Goto(c, "claim") /\ UNCHANGED <<good, holder>>
  BY <1>0, <1>1, <1>2, <1>5, GotoType DEF TypeOK
<1>6. ASSUME NEW a \in {"unmanaged", "noop", "skipped", "failed"},
             NEW s \in {"succeeded", "noop", "failed"}, Return(c, a, s), UNCHANGED good
      PROVE  TypeOK'
  BY <1>0, <1>1, <1>3, <1>6, ReturnType DEF TypeOK
<1>7. CASE rel # None /\ StartUpgrade(c)
  <2>1. rel \in Release
    BY <1>7 DEF TypeOK
  <2>2. LastGood \in Version
    BY <2>1 DEF LastGood, TypeOK, Release
  <2>3. p' \in [Callers -> Ensuring]
    BY Zenon, <1>7, <2>1, <2>2, EnsuringType DEF StartUpgrade, TypeOK
  <2>4. good' \in Release \cup {None}
    BY <1>7, <2>1 DEF StartUpgrade, Remember, TypeOK
  <2> QED
    BY <1>0, <1>1, <1>7, <2>3, <2>4 DEF StartUpgrade, TypeOK
<1> QED
  BY <1>4, <1>5, <1>6, <1>7 DEF GetRelease

LEMMA InstallType ==
  ASSUME TypeOK, NEW c \in Callers, Install(c) \/ ClaimRelease(c)
  PROVE  TypeOK'
<1>0. refuses' \in BOOLEAN
  BY DEF Install, ClaimRelease, TypeOK
<1>1. /\ faults' \in Nat /\ edits' \in Nat
      /\ rel' \in Release \cup {None}
  <2>1. CASE Install(c)
    BY <2>1, OwnedType, AfterErrorType, WrittenType, FaultsType DEF Install, InstallOver, TypeOK
  <2>2. CASE ClaimRelease(c)
    <3>1. CanClaim => stampAdoptedLabels(rel) \in Release
      BY StampType DEF CanClaim, TypeOK
    <3> QED
      BY <2>2, <3>1, AfterErrorType, WrittenType, FaultsType DEF ClaimRelease, TypeOK
  <2> QED
    BY <2>1, <2>2
<1>2. revisions' \subseteq Version /\ good' \in Release \cup {None}
  BY <1>1, RevisedType DEF Install, ClaimRelease, TypeOK
<1>3. \E a \in {"failed", "installed", "adopted"}, s \in {"failed", "refused", "succeeded"} :
         Return(c, a, s)
  BY DEF Install, InstallOver, ClaimRelease
<1>4. p' \in [Callers -> Ensuring] /\ holder' \in Callers \cup {None}
  BY Zenon, <1>3, ReturnType DEF Actions, OpStatus
<1> QED
  BY <1>0, <1>1, <1>2, <1>4 DEF TypeOK

LEMMA UpgradeType ==
  ASSUME TypeOK, NEW c \in Callers, Upgrade(c)
  PROVE  TypeOK'
<1>0. refuses' \in BOOLEAN
  BY Zenon DEF Upgrade, TypeOK
<1>1. /\ faults' \in Nat /\ edits' \in Nat
      /\ rel' \in Release \cup {None}
  BY Zenon, OwnedType, AfterErrorType, WrittenType, FaultsType DEF Upgrade, TypeOK
<1>2. good' \in Release \cup {None}
  BY Zenon DEF Upgrade, SaveExisting, TypeOK
<1>3. revisions' \subseteq Version
  BY Zenon, <1>1, RevisedType DEF Upgrade
<1>4. \/ Return(c, "upgraded", "succeeded")
      \/ UNCHANGED holder /\ NextAttempt(c)
      \/ UNCHANGED holder /\ \E cause \in Causes : Observe(c, cause)
  BY Zenon DEF Upgrade, Causes
<1>5. p' \in [Callers -> Ensuring] /\ holder' \in Callers \cup {None}
  BY Zenon, <1>4, ReturnType, NextAttemptType, ObserveType DEF Actions, OpStatus, TypeOK
<1> QED
  BY <1>0, <1>1, <1>2, <1>3, <1>5 DEF TypeOK

LEMMA AfterFailureType ==
  ASSUME TypeOK, NEW c \in Callers, AfterFailure(c)
  PROVE  TypeOK'
<1>0. refuses' \in BOOLEAN
  BY DEF AfterFailure, TypeOK
<1>1. /\ faults' \in Nat /\ edits' \in Nat
      /\ rel' \in Release \cup {None} /\ good' \in Release \cup {None}
      /\ revisions' \subseteq Version
  BY FaultsType DEF AfterFailure, TypeOK
<1>2. \/ \E a \in {"upgraded", "failed"}, s \in {"succeeded", "unknown", "timeout"} : Return(c, a, s)
      \/ UNCHANGED holder /\ NextAttempt(c)
  BY DEF AfterFailure
<1>3. p' \in [Callers -> Ensuring] /\ holder' \in Callers \cup {None}
  BY Zenon, <1>2, ReturnType, NextAttemptType DEF Actions, OpStatus, TypeOK
<1> QED
  BY <1>0, <1>1, <1>3 DEF TypeOK

LEMMA RollbackType ==
  ASSUME TypeOK, NEW c \in Callers, Rollback(c)
  PROVE  TypeOK'
<1>0. refuses' \in BOOLEAN
  BY DEF Rollback, TypeOK
<1>1. p[c].lastGood \in Version
  BY DEF TypeOK, Ensuring
<1>2. /\ faults' \in Nat /\ edits' \in Nat
      /\ rel' \in Release \cup {None}
  BY <1>1, RestoredType, AfterErrorType, WrittenType, FaultsType DEF Rollback, TypeOK
<1>3. revisions' \subseteq Version /\ good' \in Release \cup {None}
  BY <1>2, RevisedType DEF Rollback, TypeOK
<1>4. \E a \in {"failed", "rolled_back"}, s \in {"failed", "rollback_failed", "rolled_back"} : Return(c, a, s)
  BY DEF Rollback
<1>5. p' \in [Callers -> Ensuring] /\ holder' \in Callers \cup {None}
  BY Zenon, <1>4, ReturnType DEF Actions, OpStatus
<1> QED
  BY <1>0, <1>2, <1>3, <1>5 DEF TypeOK

LEMMA InitType == Init => TypeOK
<1> SUFFICES ASSUME Init PROVE TypeOK
  OBVIOUS
<1>1. rel \in Release \cup {None}
  BY InstallerAssumption DEF Init
<1>2. revisions \subseteq Version
  BY <1>1 DEF Init, Release
<1>3. refuses \in BOOLEAN
  BY ReleaseAssumption DEF Init
<1> QED
  BY <1>1, <1>2, <1>3, IdleType DEF Init, TypeOK

LEMMA StepType ==
  ASSUME TypeOK, [Next]_vars
  PROVE  TypeOK'
<1>1. ASSUME NEW c \in Callers, Call(c) \/ Acquire(c)
      PROVE  TypeOK'
  <2>1. CASE Call(c)
    <3>1. PICK adopt \in BOOLEAN : Ensure(c, adopt)
      BY <2>1 DEF Call
    <3>2. [Idle EXCEPT !.pc = "acquire", !.adopt = adopt] \in Ensuring
      BY Zenon, IdleType DEF Ensuring, Steps
    <3> QED
      BY <3>1, <3>2 DEF Ensure, TypeOK
  <2>2. CASE Acquire(c)
    BY <2>2, GotoType DEF Acquire, TypeOK, Steps
  <2> QED
    BY <1>1, <2>1, <2>2
<1>2. ASSUME NEW c \in Callers, Work(c)
      PROVE  TypeOK'
  BY <1>1, <1>2, GetReleaseType, InstallType, UpgradeType, AfterFailureType, RollbackType
     DEF Work
<1>3. ASSUME NEW c \in Callers, Cancel(c)
      PROVE  TypeOK'
  <2>1. [p[c] EXCEPT !.cancelled = TRUE] \in Ensuring
    BY Zenon, EnsuringType DEF TypeOK
  <2> QED
    BY <1>3, <2>1, FaultsType DEF Cancel, TypeOK
<1>4. CASE ThirdPartyEdit
  <2>1. rel' \in Release \cup {None}
    BY <1>4, InstallerAssumption DEF ThirdPartyEdit
  <2> QED
    BY <1>4, <2>1, RevisedType, FaultsType DEF ThirdPartyEdit, TypeOK
<1>5. CASE Restart
  BY <1>5, IdleType, FaultsType DEF Restart, TypeOK
<1>6. CASE UNCHANGED vars
  BY <1>6 DEF vars, TypeOK
<1> QED
  BY <1>1, <1>2, <1>3, <1>4, <1>5, <1>6 DEF Next

\* Every field of every call, of the lock and of the stored release stays in its
\* domain, through failures, third-party edits and restarts.
THEOREM InstallerTypeCorrect == Spec => []TypeOK
<1>1. TypeOK /\ [Next]_vars => TypeOK'
  BY StepType
<1> QED
  BY <1>1, InitType, PTL DEF Spec

-----------------------------------------------------------------------------
(* What a call in progress has established.  The lock makes its facts about *)
(* the remembered release last until the call returns.                      *)

\* A call past Acquire holds the release's lock.
Holding(c) == p[c].pc \notin {"idle", "acquire"} => holder = c

\* Only a call that was asked to adopt gets to ClaimRelease.
ClaimWanted(c) == p[c].pc = "claim" => p[c].adopt

\* In the upgrade loop the call knows the release it found; it had a version, not
\* the pin, nor a newer one unless downgrades are allowed, and the rollback target is its
\* version, or the client remembers that very release.
Prepared(c) ==
    p[c].pc \in {"upgrade", "observe", "rollback"} =>
        /\ p[c].before \in Release
        /\ p[c].before.version \notin {0, Pin}
        /\ ~AllowDowngrade => p[c].before.version < Pin
        /\ IF Remembers THEN good = p[c].before ELSE p[c].lastGood = p[c].before.version

InProgress(c) == Holding(c) /\ ClaimWanted(c) /\ Prepared(c)

Flow == TypeOK /\ \A c \in Callers : InProgress(c)

\* A call that is not running has nothing to establish.
LEMMA IdleFlow ==
  ASSUME NEW c \in Callers, p[c].pc \in {"idle", "acquire"}
  PROVE  InProgress(c)
  BY DEF InProgress, Holding, ClaimWanted, Prepared

LEMMA InitFlow == Init => Flow
<1> SUFFICES ASSUME Init PROVE Flow
  OBVIOUS
<1>1. \A c \in Callers : p[c].pc = "idle"
  BY Zenon DEF Init, Idle
<1> QED
  BY <1>1, InitType, IdleFlow DEF Flow

\* A step of c leaves the other calls where they were.
LEMMA OthersWait ==
  ASSUME Flow, NEW c \in Callers, Work(c) \/ Call(c) \/ Cancel(c), NEW d \in Callers \ {c}
  PROVE  p'[d] = p[d]
  BY Zenon DEF Flow, TypeOK, Work, Call, Cancel, Ensure, Acquire, GetRelease, StartUpgrade, Install,
         InstallOver, ClaimRelease, Upgrade, AfterFailure, Rollback, Goto, Return, Observe, NextAttempt

\* The lock changes hands only from nobody, and only its holder gives it back;
\* the client's memory changes only under the lock.
LEMMA OnlyHolder ==
  ASSUME Flow, NEW c \in Callers, Work(c) \/ Call(c) \/ Cancel(c)
  PROVE  /\ holder' # holder => holder = None \/ holder = c
         /\ good' # good => holder = c
  BY Zenon DEF Flow, InProgress, Holding, Work, Call, Cancel, Ensure, Acquire, GetRelease, StartUpgrade,
         Install, ClaimRelease, Upgrade, AfterFailure, Rollback, Goto, Return, Remember,
         SaveExisting

LEMMA OthersFlow ==
  ASSUME Flow, NEW c \in Callers, Work(c) \/ Call(c) \/ Cancel(c), NEW d \in Callers \ {c}
  PROVE  InProgress(d)'
<1>1. p'[d] = p[d]
  BY OthersWait
<1>2. p[d].pc \notin {"idle", "acquire"} => UNCHANGED <<holder, good>>
  BY OnlyHolder, InstallerAssumption DEF Flow, InProgress, Holding
<1> QED
  BY <1>1, <1>2 DEF Flow, InProgress, Holding, ClaimWanted, Prepared

LEMMA IdleFlowNext ==
  ASSUME NEW c \in Callers, p'[c].pc \in {"idle", "acquire"}
  PROVE  InProgress(c)'
  BY DEF InProgress, Holding, ClaimWanted, Prepared

LEMMA ReturnIdle ==
  ASSUME TypeOK, NEW c \in Callers, NEW a, NEW s, Return(c, a, s)
  PROVE  p'[c].pc = "idle" /\ p'[c].action = a /\ p'[c].status = s
<1>1. p'[c] = [Idle EXCEPT !.action = a, !.status = s]
  BY DEF Return, TypeOK
<1> QED
  BY <1>1 DEF Idle

\* Within the loop a call keeps what it knew when it entered it.
LEMMA LoopFlow ==
  ASSUME Flow, NEW c \in Callers,
         p[c].pc \in {"upgrade", "observe", "rollback"},
         UNCHANGED <<good, holder>>,
         NextAttempt(c) \/ (\E cause \in Causes : Observe(c, cause)) \/ Cancel(c)
  PROVE  InProgress(c)'
<1>1. p[c] \in Ensuring
  BY DEF Flow, TypeOK
<1>2. /\ p'[c].pc \in {"upgrade", "observe", "rollback"}
      /\ p'[c].before = p[c].before
      /\ p'[c].lastGood = p[c].lastGood
  <2>1. CASE NextAttempt(c)
    <3>1. \/ p'[c] = [p[c] EXCEPT !.pc = "upgrade", !.attempt = p[c].attempt + 1]
          \/ p'[c] = [p[c] EXCEPT !.pc = "rollback"]
      BY <2>1 DEF Flow, TypeOK, NextAttempt
    <3> QED
      BY Zenon, <1>1, <3>1 DEF Ensuring
  <2>2. ASSUME NEW cause \in Causes, Observe(c, cause)
        PROVE  /\ p'[c].pc \in {"upgrade", "observe", "rollback"}
               /\ p'[c].before = p[c].before
               /\ p'[c].lastGood = p[c].lastGood
    BY Zenon, <1>1, <2>2 DEF Flow, TypeOK, Observe, Ensuring
  <2>3. CASE Cancel(c)
    BY <1>1, <2>3 DEF Flow, TypeOK, Cancel, Ensuring
  <2> QED
    BY <2>1, <2>2, <2>3
<1> QED
  BY <1>2 DEF Flow, InProgress, Holding, ClaimWanted, Prepared

LEMMA GetReleaseFlow ==
  ASSUME Flow, NEW c \in Callers, GetRelease(c)
  PROVE  InProgress(c)'
<1>1. p[c] \in Ensuring /\ holder = c
  BY DEF Flow, TypeOK, InProgress, Holding, GetRelease
<1>2. CASE UNCHANGED <<good, holder>> /\ (Goto(c, "install") \/ (p[c].adopt /\ Goto(c, "claim")))
  <2>1. /\ p'[c].pc \in {"install", "claim"}
        /\ p'[c].pc = "claim" => p'[c].adopt
    BY <1>1, <1>2 DEF Goto, Flow, TypeOK, Ensuring
  <2> QED
    BY <1>1, <1>2, <2>1 DEF InProgress, Holding, ClaimWanted, Prepared
<1>3. ASSUME NEW a, NEW s, Return(c, a, s)
      PROVE  InProgress(c)'
  BY <1>3, ReturnIdle, IdleFlowNext DEF Flow
<1>4. CASE rel # None /\ StartUpgrade(c)
  <2>1. rel \in Release /\ rel.version \in Int
    BY <1>4 DEF Flow, TypeOK, Release, Version
  <2>2. rel.version \notin {0, Pin} /\ (~AllowDowngrade => rel.version < Pin)
    BY <1>4, <2>1, PinAssumption DEF StartUpgrade, DecideReleaseAction
  <2>3. /\ p'[c].pc = "upgrade"
        /\ p'[c].before = rel
        /\ p'[c].lastGood = LastGood
    BY <1>1, <1>4 DEF StartUpgrade, Flow, TypeOK, Ensuring
  <2>4. IF Remembers THEN good' = rel ELSE LastGood = rel.version
    BY <1>4 DEF StartUpgrade, Remember, LastGood
  <2>5. holder' = c
    BY <1>1, <1>4 DEF StartUpgrade
  <2> QED
    BY <2>1, <2>2, <2>3, <2>4, <2>5 DEF InProgress, Holding, ClaimWanted, Prepared
<1> QED
  BY <1>2, <1>3, <1>4 DEF GetRelease

LEMMA WorkFlow ==
  ASSUME Flow, NEW c \in Callers, Work(c)
  PROVE  InProgress(c)'
<1>1. ASSUME NEW a, NEW s, Return(c, a, s)
      PROVE  InProgress(c)'
  BY <1>1, ReturnIdle, IdleFlowNext DEF Flow
<1>2. CASE Acquire(c)
  <2>1. p'[c].pc = "get" /\ holder' = c
    BY <1>2 DEF Acquire, Goto, Flow, TypeOK, Ensuring
  <2> QED
    BY <2>1 DEF InProgress, Holding, ClaimWanted, Prepared
<1>3. CASE Install(c) \/ ClaimRelease(c) \/ Rollback(c)
  <2>1. \E a \in Actions, s \in OpStatus : Return(c, a, s)
    BY Zenon, <1>3 DEF Install, InstallOver, ClaimRelease, Rollback, Actions, OpStatus
  <2> QED
    BY <1>1, <2>1
<1>4. CASE Upgrade(c)
  <2>1. \/ Return(c, "upgraded", "succeeded")
        \/ /\ p[c].pc = "upgrade"
           /\ UNCHANGED <<good, holder>>
           /\ NextAttempt(c) \/ \E cause \in Causes : Observe(c, cause)
    <3>1. p[c].pc = "upgrade"
      BY Zenon, <1>4 DEF Upgrade
    <3>2. Remembers => good # None
      BY <3>1, InstallerAssumption DEF Flow, InProgress, Prepared
    <3> QED
      BY Zenon, <1>4, <3>1, <3>2 DEF Upgrade, SaveExisting, Causes
  <2> QED
    BY <1>1, <2>1, LoopFlow
<1>5. CASE AfterFailure(c)
  <2>1. \/ \E a \in Actions, s \in OpStatus : Return(c, a, s)
        \/ /\ p[c].pc = "observe"
           /\ UNCHANGED <<good, holder>>
           /\ NextAttempt(c)
    BY Zenon, <1>5 DEF AfterFailure, Actions, OpStatus
  <2> QED
    BY <1>1, <2>1, LoopFlow
<1> QED
  BY <1>2, <1>3, <1>4, <1>5, GetReleaseFlow DEF Work

LEMMA StepFlow ==
  ASSUME Flow, [Next]_vars
  PROVE  Flow'
<1>1. TypeOK'
  BY StepType DEF Flow
<1>2. ASSUME NEW c \in Callers, Call(c) \/ Work(c) \/ Cancel(c)
      PROVE  Flow'
  <2>1. InProgress(c)'
    <3>1. CASE Call(c)
      <4>1. p'[c].pc = "acquire"
        BY <3>1 DEF Call, Ensure, Idle, Flow, TypeOK
      <4> QED
        BY <4>1, IdleFlowNext
    <3>2. CASE Cancel(c)
      <4>1. /\ p'[c].pc = p[c].pc
            /\ p'[c].adopt = p[c].adopt
            /\ UNCHANGED <<good, holder>>
        BY <3>2 DEF Cancel, Flow, TypeOK, Ensuring
      <4>2. CASE p[c].pc \in {"upgrade", "observe", "rollback"}
        BY <3>2, <4>1, <4>2, LoopFlow
      <4>3. CASE p[c].pc \notin {"upgrade", "observe", "rollback"}
        BY <4>1, <4>3 DEF Flow, InProgress, Holding, ClaimWanted, Prepared
      <4> QED
        BY <4>2, <4>3
    <3> QED
      BY <1>2, <3>1, <3>2, WorkFlow
  <2>2. \A d \in Callers \ {c} : InProgress(d)'
    BY <1>2, OthersFlow
  <2> QED
    BY <1>1, <2>1, <2>2 DEF Flow
<1>3. CASE ThirdPartyEdit \/ UNCHANGED vars
  <2>1. UNCHANGED <<p, holder, good>>
    BY <1>3 DEF ThirdPartyEdit, vars
  <2> QED
    BY <1>1, <2>1 DEF Flow, InProgress, Holding, ClaimWanted, Prepared
<1>4. CASE Restart
  <2>1. \A c \in Callers : p'[c].pc = "idle"
    BY Zenon, <1>4 DEF Restart, Idle
  <2> QED
    BY <1>1, <2>1, IdleFlowNext DEF Flow
<1> QED
  BY <1>2, <1>3, <1>4 DEF Next

LEMMA FlowAlways == Spec => []Flow
<1>1. Flow /\ [Next]_vars => Flow'
  BY StepFlow
<1> QED
  BY <1>1, InitFlow, PTL DEF Spec

-----------------------------------------------------------------------------
(* The theorems                                                             *)

\* Which call changes the stored release, and from what, when nobody else does.
LEMMA Writes ==
  ASSUME ~Forbidden, Flow, [Next]_vars, rel' # rel, edits' = edits
  PROVE  \E c \in Callers :
            \/ Install(c) /\ rel = None
            \/ ClaimRelease(c) /\ CanClaim /\ rel' = stampAdoptedLabels(rel)
            \/ Upgrade(c) /\ CanUpgrade /\ rel' = OwnedRelease
            \/ Rollback(c) /\ CanRollback(p[c].lastGood) /\ rel' = Restored(p[c].lastGood)
<1>1. ~Edited
  BY DEF Edited, Flow, TypeOK
<1>2. PICK c \in Callers : Install(c) \/ ClaimRelease(c) \/ Upgrade(c) \/ Rollback(c)
  BY Zenon, <1>1 DEF Next, Call, Work, Ensure, Acquire, GetRelease, AfterFailure, Cancel,
              ThirdPartyEdit, Restart, vars
<1>3. CASE Install(c)
  BY <1>3 DEF Install, InstallOver, Hidden, CanInstall
<1>4. CASE ClaimRelease(c)
  BY <1>1, <1>4 DEF ClaimRelease, Written, AfterError
<1>5. CASE Upgrade(c)
  BY Zenon, <1>1, <1>5 DEF Upgrade, Written, AfterError
<1>6. CASE Rollback(c)
  BY <1>1, <1>6 DEF Rollback, Written, AfterError
<1> QED
  BY <1>2, <1>3, <1>4, <1>5, <1>6

\* UnmanagedUntouched for every instance: Upgrade and Rollback check the owner
\* label at the moment they write, and ClaimRelease is reached only when adopting.
\* If listing Secrets may be forbidden, Install can miss the release it overwrites.
THEOREM UnmanagedIsUntouched == ASSUME ~Forbidden PROVE Spec => UnmanagedUntouched
<1>1. ASSUME Flow, [Next]_vars,
             rel # None, ~ManagedByAdapter(rel), rel' # rel, edits' = edits
      PROVE  /\ \E c \in Callers : p[c].adopt
             /\ AtPin(rel)
             /\ rel' = stampAdoptedLabels(rel)
  <2>1. PICK c \in Callers : ClaimRelease(c) /\ CanClaim /\ rel' = stampAdoptedLabels(rel)
    BY <1>1, Writes DEF CanUpgrade, CanRollback
  <2>2. p[c].adopt
    BY <1>1, <2>1 DEF Flow, InProgress, ClaimWanted, ClaimRelease
  <2> QED
    BY <2>1, <2>2 DEF CanClaim, matchesPinnedRelease
<1> QED
  BY <1>1, FlowAlways, PTL DEF Spec, UnmanagedUntouched

\* NeverBelowFound for every instance.  It needs Prepared, and through it the
\* lock: without it another call could change what the client remembers.
THEOREM NoCallGoesBelowWhatItFound == ASSUME ~Forbidden PROVE Spec => NeverBelowFound
<1>1. ASSUME Flow, [Next]_vars, ~AllowDowngrade, rel # None, rel' # None,
             rel'.version < rel.version, edits' = edits
      PROVE  \E c \in Callers : p[c].before # None /\ p[c].before.version <= rel'.version
  <2>1. rel \in Release /\ rel.version \in Int /\ Pin \in Int
    BY <1>1, PinAssumption DEF Flow, TypeOK, Release, Version
  <2>2. PICK c \in Callers :
            \/ ClaimRelease(c) /\ rel' = stampAdoptedLabels(rel)
            \/ Upgrade(c) /\ rel' = OwnedRelease
            \/ Rollback(c) /\ CanRollback(p[c].lastGood) /\ rel' = Restored(p[c].lastGood)
    <3>1. rel' # rel
      BY <1>1, <2>1
    <3> QED
      BY <1>1, <3>1, Writes
  <2>3. CASE ClaimRelease(c) /\ rel' = stampAdoptedLabels(rel)
    <3>1. rel'.version = rel.version
      BY <2>1, <2>3 DEF stampAdoptedLabels, Release
    <3> QED
      BY <1>1, <2>1, <3>1
  <2>4. CASE Upgrade(c) /\ rel' = OwnedRelease
    <3>1. p[c].before \in Release /\ p[c].before.version < Pin
      BY Zenon, <1>1, <2>4 DEF Flow, InProgress, Prepared, Upgrade
    <3>2. p[c].before.version \in Int
      BY <3>1, PinAssumption DEF Release, Version
    <3>3. rel'.version = Pin
      BY Zenon, <2>4 DEF OwnedRelease
    <3> QED
      BY <2>1, <3>1, <3>2, <3>3, InstallerAssumption
  <2>5. CASE Rollback(c) /\ CanRollback(p[c].lastGood) /\ rel' = Restored(p[c].lastGood)
    <3>1. /\ p[c].before \in Release
          /\ IF Remembers THEN good = p[c].before ELSE p[c].lastGood = p[c].before.version
      BY <1>1, <2>5 DEF Flow, InProgress, Prepared, Rollback
    <3>2. p[c].before.version \in Int
      BY <3>1, PinAssumption DEF Release, Version
    <3>3. rel'.version = p[c].before.version
      BY Zenon, <2>5, <3>1 DEF Restored, OwnedRelease
    <3> QED
      BY <3>1, <3>2, <3>3, InstallerAssumption
  <2> QED
    BY <2>2, <2>3, <2>4, <2>5
<1>2. Flow /\ [Next]_vars
         => [      /\ ~AllowDowngrade
                   /\ rel # None /\ rel' # None
                   /\ rel'.version < rel.version
                   /\ edits' = edits
                => \E c \in Callers : /\ p[c].before # None
                                     /\ p[c].before.version <= rel'.version]_vars
  BY <1>1
<1> QED
  BY <1>2, FlowAlways, PTL DEF Spec, NeverBelowFound

\* Of all the steps only these end a call, and this is what they report.
LEMMA Ends ==
  ASSUME Flow, [Next]_vars, NEW c \in Callers, Returns(c)
  PROVE  /\ Work(c)
         /\ \E a \in Actions, s \in OpStatus :
               Return(c, a, s) /\ p'[c].action = a /\ p'[c].status = s
<1>1. \A d \in Callers : Call(d) \/ Work(d) \/ Cancel(d) => d = c
  BY Zenon, OthersWait DEF Returns
<1>2. ~Restart /\ ~ThirdPartyEdit /\ ~UNCHANGED vars
  <2>1. ASSUME Restart PROVE FALSE
    <3>1. p'[c] = Idle
      BY <2>1 DEF Restart
    <3>2. Idle.action = ""
      BY DEF Idle
    <3> QED
      BY Zenon, <3>1, <3>2 DEF Returns
  <2>2. p' # p
    BY Zenon DEF Returns
  <2> QED
    BY <2>1, <2>2 DEF ThirdPartyEdit, vars
<1>3. ~Call(c) /\ ~Cancel(c)
  BY Zenon DEF Call, Ensure, Cancel, Returns, Flow, TypeOK, Ensuring
<1>4. Work(c)
  BY <1>1, <1>2, <1>3 DEF Next
<1>5. \E a \in Actions, s \in OpStatus : Return(c, a, s)
  <2>1. ~NextAttempt(c) /\ ~Acquire(c) /\ ~StartUpgrade(c)
    <3>1. ~NextAttempt(c)
      BY Zenon DEF NextAttempt, Returns, Flow, TypeOK, Ensuring
    <3>2. ~Acquire(c)
      BY Zenon DEF Acquire, Goto, Returns, Flow, TypeOK, Ensuring
    <3>3. ~StartUpgrade(c)
      BY Zenon DEF StartUpgrade, Returns, Flow, TypeOK, Ensuring
    <3> QED
      BY <3>1, <3>2, <3>3
  <2>2. /\ \A pc \in {"install", "claim"} : ~Goto(c, pc)
        /\ \A cause \in Causes : ~Observe(c, cause)
    BY Zenon DEF Goto, Observe, Returns, Flow, TypeOK, Ensuring
  <2>3. CASE GetRelease(c)
    BY Zenon, <2>1, <2>2, <2>3 DEF GetRelease, Actions, OpStatus
  <2>4. CASE Install(c) \/ ClaimRelease(c)
    BY Zenon, <2>4 DEF Install, InstallOver, ClaimRelease, Actions, OpStatus
  <2>5. CASE Upgrade(c)
    BY Zenon, <2>1, <2>2, <2>5 DEF Upgrade, Actions, OpStatus, Causes
  <2>6. CASE AfterFailure(c)
    BY Zenon, <2>1, <2>6 DEF AfterFailure, Actions, OpStatus
  <2>7. CASE Rollback(c)
    BY Zenon, <2>7 DEF Rollback, Actions, OpStatus
  <2> QED
    BY <1>4, <2>1, <2>3, <2>4, <2>5, <2>6, <2>7 DEF Work
<1>6. PICK a \in Actions, s \in OpStatus : Return(c, a, s)
  BY <1>5
<1> QED
  BY <1>4, <1>6, ReturnIdle DEF Flow

\* SuccessIsPinned for every instance: upgraded is reported only after the pin was
\* read back, adopted only after the claimed release was checked once more.
THEOREM SuccessMeansPinned == ASSUME ~Forbidden PROVE Spec => SuccessIsPinned
<1>0. ~Forbidden
  OBVIOUS
<1>1. ASSUME Flow, [Next]_vars, NEW c \in Callers, Returns(c),
             \/ p'[c].action \in {"adopted", "upgraded"}
             \/ p'[c].action = "installed" /\ edits' = edits
      PROVE  rel' # None /\ AtPin(rel')
  <2>1. Pin # 0
    BY PinAssumption
  <2>2. OwnedRelease # None /\ AtPin(OwnedRelease)
    BY Zenon, <2>1, OwnedType, InstallerAssumption DEF AtPin, versionsEqual, OwnedRelease
  <2>3. \A a, s : Return(c, a, s) => a \in {"installed", "adopted", "upgraded"}
    BY <1>1, ReturnIdle DEF Flow
  <2>4. Work(c) /\ \E a \in Actions, s \in OpStatus : Return(c, a, s)
    BY <1>1, Ends
  <2>5. CASE Acquire(c) \/ GetRelease(c) \/ Rollback(c)
    <3>1. \E a \in {"unmanaged", "noop", "skipped", "failed", "rolled_back"}, s \in OpStatus :
             Return(c, a, s)
      <4>1. ~Acquire(c)
        BY Zenon, <1>1 DEF Acquire, Goto, Returns, Flow, TypeOK, Ensuring
      <4>2. CASE GetRelease(c)
        <5>1. ~StartUpgrade(c) /\ ~Goto(c, "install") /\ ~Goto(c, "claim")
          BY Zenon, <1>1 DEF StartUpgrade, Goto, Returns, Flow, TypeOK, Ensuring
        <5> QED
          BY Zenon, <4>2, <5>1 DEF GetRelease, OpStatus
      <4>3. CASE Rollback(c)
        BY Zenon, <4>3 DEF Rollback, OpStatus
      <4> QED
        BY <2>5, <4>1, <4>2, <4>3
    <3> QED
      BY <2>3, <3>1
  <2>6. CASE Install(c)
    <3>1. edits' = edits /\ ~Edited
      <4>1. \E s \in OpStatus : Return(c, "installed", s) \/ Return(c, "failed", s)
        BY Zenon, <2>6 DEF Install, InstallOver, OpStatus
      <4>2. p'[c].action = "installed"
        BY <1>1, <2>3, <4>1, ReturnIdle DEF Flow
      <4> QED
        BY <1>1, <4>2 DEF Edited, Flow, TypeOK
    <3> QED
      BY <1>0, <2>2, <2>3, <2>6, <3>1 DEF Install, InstallOver, Hidden, Written
  <2>7. CASE ClaimRelease(c)
    <3>1. ~Return(c, "failed", "failed")
      BY <2>3
    <3> QED
      BY <2>7, <3>1 DEF ClaimRelease, matchesPinnedRelease
  <2>8. CASE Upgrade(c)
    <3>1. ~NextAttempt(c) /\ \A cause \in Causes : ~Observe(c, cause)
      BY Zenon, <1>1 DEF NextAttempt, Observe, Returns, Flow, TypeOK, Ensuring
    <3> QED
      BY Zenon, <2>2, <2>8, <3>1 DEF Upgrade, Causes
  <2>9. CASE AfterFailure(c)
    <3>1. ~NextAttempt(c)
      BY Zenon, <1>1 DEF NextAttempt, Returns, Flow, TypeOK, Ensuring
    <3>2. ~Return(c, "failed", "unknown") /\ ~Return(c, "failed", "timeout")
      BY <2>3
    <3> QED
      BY <2>9, <3>1, <3>2 DEF AfterFailure
  <2> QED
    BY <2>4, <2>5, <2>6, <2>7, <2>8, <2>9 DEF Work
<1>2. Flow /\ [Next]_vars
         => [\A c \in Callers :
                    /\ Returns(c)
                    /\ \/ p'[c].action \in {"adopted", "upgraded"}
                       \/ p'[c].action = "installed" /\ edits' = edits
                 => rel' # None /\ AtPin(rel')]_vars
  BY <1>1
<1> QED
  BY <1>2, FlowAlways, PTL DEF Spec, SuccessIsPinned

\* RollbackRestores for every instance with a client that has no memory of its
\* own, which is what the manager runs with.  It does not hold for the other one,
\* whose rollback target may come from an earlier call.
THEOREM RollbackPutsBack == ASSUME ~Remembers PROVE Spec => RollbackRestores
<1>1. ASSUME Flow, [Next]_vars, NEW c \in Callers,
             p[c].pc = "rollback", Returns(c), ~refuses, faults' = faults, edits' = edits,
             rel # None, ManagedByAdapter(rel), p[c].before.version \in revisions
      PROVE  p'[c].status = "rolled_back" /\ rel'.version = p[c].before.version
  <2>1. Rollback(c)
    BY Zenon, <1>1, Ends DEF Work, Acquire, GetRelease, Install, ClaimRelease, Upgrade, AfterFailure
  <2>2. /\ p[c].lastGood = p[c].before.version
        /\ p[c].lastGood # Pin
        /\ p[c].lastGood # 0
    BY <1>1 DEF Flow, InProgress, Prepared
  <2>3. CanRollback(p[c].lastGood) /\ ~versionsEqual(p[c].lastGood, Pin)
    BY <1>1, <2>2 DEF CanRollback, versionsEqual
  <2>4. ~Fails /\ ~Edited
    BY <1>1 DEF Fails, Edited, Flow, TypeOK
  <2>5. rel' = Restored(p[c].lastGood)
    BY <2>1, <2>3, <2>4 DEF Rollback, Written
  <2>6. rel' \in Release /\ rel'.status = "deployed" /\ rel'.version = p[c].lastGood
    <3>1. p[c].lastGood \in Version
      BY <1>1 DEF Flow, TypeOK, Ensuring
    <3>2. rel' = [OwnedRelease EXCEPT !.version = p[c].lastGood]
      BY <2>5 DEF Restored
    <3> QED
      BY Zenon, <3>1, <3>2, OwnedType DEF OwnedRelease, Release
  <2>7. Return(c, "rolled_back", "rolled_back")
    BY <2>1, <2>2, <2>3, <2>4, <2>6, InstallerAssumption DEF Rollback, versionsEqual
  <2> QED
    BY <1>1, <2>2, <2>6, <2>7, ReturnIdle DEF Flow
<1>2. Flow /\ [Next]_vars
         => [\A c \in Callers :
                    /\ p[c].pc = "rollback" /\ Returns(c)
                    /\ ~refuses
                    /\ faults' = faults /\ edits' = edits
                    /\ rel # None /\ ManagedByAdapter(rel)
                    /\ p[c].before.status = "deployed"
                    /\ p[c].before.version \in revisions
                 => p'[c].status = "rolled_back" /\ rel'.version = p[c].before.version]_vars
  BY <1>1
<1> QED
  BY <1>2, FlowAlways, PTL DEF Spec, RollbackRestores

=============================================================================
