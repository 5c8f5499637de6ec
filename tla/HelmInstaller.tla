--------------------------- MODULE HelmInstaller ---------------------------
(***************************************************************************)
(* HelmInstaller.Ensure (pkg/lifecycle/helm_client.go): the install, adopt *)
(* and upgrade flow of the pinned release.  Callers run it concurrently    *)
(* under one lock per release; every call on the Helm client is a step of  *)
(* its own and may fail, with or without having taken effect.  Others edit *)
(* the stored release behind the adapter's back, contexts are cancelled,   *)
(* and the process restarts.                                               *)
(***************************************************************************)
EXTENDS HelmClient

CONSTANTS
    Callers,            \* goroutines that call Ensure
    AllowDowngrade,     \* HelmInstaller.AllowDowngrade
    MaxAttempts,        \* HelmInstaller.attempts()
    ThirdParty,         \* what others may leave in the store (None: they uninstall)
    FirstReleases,      \* what may be in the store when the process starts
    MaxFaults,          \* how many client calls may fail
    MaxEdits            \* how many third-party edits, cancellations and restarts may happen

ASSUME InstallerAssumption ==
    /\ None \notin Callers \cup Release
    /\ AllowDowngrade \in BOOLEAN
    /\ MaxAttempts \in Nat \ {0}
    /\ ThirdParty \subseteq Release \cup {None}
    /\ FirstReleases \subseteq Release \cup {None}
    /\ MaxFaults \in Nat
    /\ MaxEdits \in Nat

VARIABLES
    holder,     \* ReleaseLocks: who holds the release's lock, or None
    p,          \* what each caller's Ensure is doing
    faults,     \* client calls that failed so far
    edits       \* third-party edits, cancellations and restarts so far

vars == <<rel, good, revisions, refuses, holder, p, faults, edits>>

Actions == {"", "failed", "skipped", "unmanaged", "adopted", "installed",
             "noop", "upgraded", "rolled_back"}
\* "refused" is the error ErrHelmMutationNotConfigured, which its caller knows.
OpStatus == {"", "succeeded", "failed", "timeout", "unknown", "rolled_back",
             "rollback_failed", "noop", "refused"}
Causes == {"", "transient", "timeout", "unknown"}
Steps == {"idle", "acquire", "get", "install", "claim", "upgrade", "observe", "rollback"}

\* pc: the next call; adopt: in.AdoptExisting; cancelled: ctx.Err() != nil;
\* before: the release Ensure read; lastGood: the rollback target; attempt: the
\* loop counter; cause: why Upgrade failed; action, status: the InstallResult.
Ensuring == [pc : Steps, adopt : BOOLEAN, cancelled : BOOLEAN,
             before : Release \cup {None}, lastGood : Version, attempt : Nat,
             cause : Causes, action : Actions, status : OpStatus]

Idle == [pc |-> "idle", adopt |-> FALSE, cancelled |-> FALSE, before |-> None,
         lastGood |-> 0, attempt |-> 0, cause |-> "", action |-> "", status |-> ""]

-----------------------------------------------------------------------------
(* Steps of Ensure                                                          *)

Goto(c, pc) == p' = [p EXCEPT ![c] = [p[c] EXCEPT !.pc = pc]]

\* Ensure returns: the deferred unlock runs, the result is what it reports.
Return(c, action, status) ==
    /\ p' = [p EXCEPT ![c] = [Idle EXCEPT !.action = action, !.status = status]]
    /\ holder' = None

Edited == edits < MaxEdits /\ edits' = edits + 1
Succeeds == UNCHANGED faults
Fails == faults < MaxFaults /\ faults' = faults + 1

\* SecretHelmClient.GetRelease reports a forbidden list as ErrReleaseNotFound.
Hidden == Forbidden /\ Fails

\* A new call.  Checks of the intent and of the pinned configuration that do not
\* reach the release come first; they change nothing.
Ensure(c, adopt) ==
    /\ p[c].pc = "idle"
    /\ p' = [p EXCEPT ![c] = [Idle EXCEPT !.pc = "acquire", !.adopt = adopt]]
    /\ UNCHANGED <<rel, good, revisions, refuses, holder, faults, edits>>

Acquire(c) ==
    /\ p[c].pc = "acquire"
    /\ holder = None
    /\ holder' = c
    /\ Goto(c, "get")
    /\ UNCHANGED <<rel, good, revisions, refuses, faults, edits>>

\* Mutant of LastGood: the release's own field, which nobody has set.
LastGoodUnset == None

\* The rollback target is the remembered version when there is one.  It is read
\* before this call's release is remembered.
LastGood == IF Remembers /\ good # None THEN good.version ELSE rel.version

StartUpgrade(c) ==
    /\ DecideReleaseAction(rel.version, AllowDowngrade) \in {"upgrade", "downgrade"}
    /\ p' = [p EXCEPT ![c] = [p[c] EXCEPT !.pc = "upgrade", !.before = rel,
                                          !.lastGood = LastGood, !.attempt = 1]]
    /\ Remember(rel)
    /\ UNCHANGED holder

GetRelease(c) ==
    /\ p[c].pc = "get"
    /\ \/ /\ Succeeds
          /\ rel = None
          /\ Goto(c, "install")
          /\ UNCHANGED <<good, holder>>
       \/ /\ Succeeds
          /\ rel # None
          /\ ~ManagedByAdapter(rel)
          /\ IF p[c].adopt /\ matchesPinnedRelease(rel)
             THEN Goto(c, "claim") /\ UNCHANGED holder
             ELSE Return(c, "unmanaged", "succeeded")
          /\ UNCHANGED good
       \/ /\ Succeeds
          /\ rel # None
          /\ ManagedByAdapter(rel)
          /\ \/ /\ DecideReleaseAction(rel.version, AllowDowngrade) = "noop"
                /\ Return(c, "noop", "noop")
                /\ UNCHANGED good
             \/ /\ DecideReleaseAction(rel.version, AllowDowngrade) = "reject"
                /\ Return(c, "skipped", "failed")
                /\ UNCHANGED good
             \/ StartUpgrade(c)
       \/ /\ Hidden
          /\ Goto(c, "install")
          /\ UNCHANGED <<good, holder>>
       \/ /\ Fails
          /\ Return(c, "failed", "failed")
          /\ UNCHANGED good
    /\ UNCHANGED <<rel, revisions, refuses, edits>>

\* A call's write, as the release that the call returns: ClusterHelmClient reads
\* it back from the store, where somebody else may have been faster.
Written(r) ==
    /\ Succeeds
    /\ \/ rel' = r /\ UNCHANGED edits
       \/ ~Remembers /\ Edited /\ rel' \in ThirdParty \ {r}

\* A release that Install could not see is only overwritten if it is a first
\* revision, the one that Install writes.
InstallOver(c) ==
    /\ ~refuses /\ rel # None
    /\ Hidden
    /\ rel' \in {rel, OwnedRelease}
    /\ Return(c, "installed", "succeeded") \/ Return(c, "failed", "failed")
    /\ UNCHANGED edits

Install(c) ==
    /\ p[c].pc = "install"
    /\ \/ /\ ~CanInstall
          /\ Succeeds
          /\ Return(c, "failed", IF refuses THEN "refused" ELSE "failed")
          /\ UNCHANGED <<rel, edits>>
       \/ /\ CanInstall
          /\ Written(OwnedRelease)
          /\ IF rel' # None THEN Return(c, "installed", "succeeded")
                             ELSE Return(c, "failed", "failed")
       \/ /\ CanInstall
          /\ Fails
          /\ rel' \in AfterError(OwnedRelease)
          /\ Return(c, "failed", "failed")
          /\ UNCHANGED edits
       \/ InstallOver(c)
    /\ Revised
    /\ UNCHANGED <<good, refuses>>

\* ClaimRelease only stamps labels; the claimed release is checked again.
ClaimRelease(c) ==
    /\ p[c].pc = "claim"
    /\ \/ /\ ~CanClaim
          /\ Succeeds
          /\ Return(c, "failed", "failed")
          /\ UNCHANGED <<rel, edits>>
       \/ /\ CanClaim
          /\ Written(stampAdoptedLabels(rel))
          /\ IF rel' # None /\ ManagedByAdapter(rel') /\ matchesPinnedRelease(rel')
             THEN Return(c, "adopted", "succeeded")
             ELSE Return(c, "failed", "failed")
       \/ /\ CanClaim
          /\ Fails
          /\ rel' \in AfterError(stampAdoptedLabels(rel))
          /\ Return(c, "failed", "failed")
          /\ UNCHANGED edits
    /\ Revised
    /\ UNCHANGED <<good, refuses>>

\* Mutant of NextAttempt: the loop counter is never advanced.
NextAttemptForever(c) == Goto(c, "upgrade")

\* The end of an iteration of upgradeOrRollback's loop.
NextAttempt(c) ==
    p' = [p EXCEPT ![c] = IF p[c].attempt < MaxAttempts
                          THEN [p[c] EXCEPT !.pc = "upgrade", !.attempt = p[c].attempt + 1]
                          ELSE [p[c] EXCEPT !.pc = "rollback"]]

Observe(c, cause) == p' = [p EXCEPT ![c] = [p[c] EXCEPT !.pc = "observe", !.cause = cause]]

\* MemoryHelmClient.Upgrade saves the existing release if none was remembered.
SaveExisting == good' = IF Remembers /\ good = None THEN rel ELSE good

\* A refused upgrade is a transient error like any other that is not a timeout
\* or an unknown outcome.
Upgrade(c) ==
    /\ p[c].pc = "upgrade"
    /\ \/ /\ p[c].cancelled
          /\ Observe(c, "timeout")
          /\ UNCHANGED <<rel, good, holder, faults, edits>>
       \/ /\ ~p[c].cancelled
          /\ ~CanUpgrade
          /\ Observe(c, "transient")
          /\ UNCHANGED <<rel, good, holder, faults, edits>>
       \/ /\ ~p[c].cancelled
          /\ CanUpgrade
          /\ SaveExisting
          /\ \/ /\ Written(OwnedRelease)
                /\ \/ rel' = None /\ Observe(c, "transient") /\ UNCHANGED holder
                   \/ rel' # None /\ AtPin(rel') /\ Return(c, "upgraded", "succeeded")
                   \/ rel' # None /\ ~AtPin(rel') /\ NextAttempt(c) /\ UNCHANGED holder
             \/ /\ Fails
                /\ rel' \in AfterError(OwnedRelease)
                /\ \E cause \in Causes \ {""} : Observe(c, cause)
                /\ UNCHANGED <<holder, edits>>
    /\ Revised
    /\ UNCHANGED refuses

\* Mutant of AfterFailure: a timed-out upgrade is taken to have worked.
AfterFailureTrusts(c) ==
    /\ p[c].pc = "observe"
    /\ \/ p[c].cause = "unknown" /\ Return(c, "failed", "unknown")
       \/ p[c].cause = "timeout" /\ Return(c, "upgraded", "succeeded")
       \/ p[c].cause = "transient" /\ NextAttempt(c) /\ UNCHANGED holder
    /\ UNCHANGED <<rel, good, revisions, refuses, faults, edits>>

\* What the store says after a failed Upgrade decides: the pin is success
\* whatever the error was, and only a transient error is tried again.
AfterFailure(c) ==
    /\ p[c].pc = "observe"
    /\ \/ Succeeds /\ rel # None /\ AtPin(rel) /\ Return(c, "upgraded", "succeeded")
       \/ /\ (Succeeds /\ ~(rel # None /\ AtPin(rel))) \/ Fails
          /\ \/ p[c].cause = "unknown" /\ Return(c, "failed", "unknown")
             \/ p[c].cause = "timeout" /\ Return(c, "failed", "timeout")
             \/ p[c].cause = "transient" /\ NextAttempt(c) /\ UNCHANGED holder
    /\ UNCHANGED <<rel, good, revisions, refuses, edits>>

\* rollbackAfterFailure.  The read before it only feeds the report.
Rollback(c) ==
    /\ p[c].pc = "rollback"
    /\ LET to == p[c].lastGood
       IN  \/ /\ versionsEqual(to, Pin) \/ ~CanRollback(to)
              /\ Succeeds
              /\ Return(c, "failed", IF versionsEqual(to, Pin) THEN "failed" ELSE "rollback_failed")
              /\ UNCHANGED <<rel, edits>>
           \/ /\ ~versionsEqual(to, Pin)
              /\ CanRollback(to)
              /\ Written(Restored(to))
              /\ IF rel' # None /\ versionsEqual(rel'.version, to) /\ rel'.status = "deployed"
                 THEN Return(c, "rolled_back", "rolled_back")
                 ELSE Return(c, "failed", "rollback_failed")
           \/ /\ ~versionsEqual(to, Pin)
              /\ CanRollback(to)
              /\ Fails
              /\ rel' \in AfterError(Restored(to))
              /\ Return(c, "failed", "rollback_failed")
              /\ UNCHANGED edits
    /\ Revised
    /\ UNCHANGED <<good, refuses>>

-----------------------------------------------------------------------------
(* The world around it                                                      *)

\* Someone else installs, upgrades, relabels or uninstalls the release.
ThirdPartyEdit ==
    /\ Edited
    /\ rel' \in ThirdParty \ {rel}
    /\ Revised
    /\ UNCHANGED <<good, refuses, holder, p, faults>>

\* The caller's context expires or is cancelled.  After Ensure has started only
\* the upgrade loop looks at it: waiting for the lock cannot be interrupted.
Cancel(c) ==
    /\ Edited
    /\ p[c].pc # "idle"
    /\ ~p[c].cancelled
    /\ p' = [p EXCEPT ![c] = [p[c] EXCEPT !.cancelled = TRUE]]
    /\ UNCHANGED <<rel, good, revisions, refuses, holder, faults>>

\* The process dies and starts again: calls, locks and memory are gone.
Restart ==
    /\ Edited
    /\ p' = [c \in Callers |-> Idle]
    /\ holder' = None
    /\ good' = None
    /\ UNCHANGED <<rel, revisions, refuses, faults>>

-----------------------------------------------------------------------------

Init ==
    /\ rel \in FirstReleases
    /\ good = None
    /\ revisions = IF rel = None THEN {} ELSE {rel.version}
    /\ refuses \in Refusing
    /\ holder = None
    /\ p = [c \in Callers |-> Idle]
    /\ faults = 0
    /\ edits = 0

Work(c) ==
    \/ Acquire(c)
    \/ GetRelease(c)
    \/ Install(c)
    \/ ClaimRelease(c)
    \/ Upgrade(c)
    \/ AfterFailure(c)
    \/ Rollback(c)

Call(c) == \E adopt \in BOOLEAN : Ensure(c, adopt)

Next ==
    \/ \E c \in Callers : Call(c) \/ Work(c) \/ Cancel(c)
    \/ ThirdPartyEdit
    \/ Restart

\* A started call runs on; a Go mutex hands itself to a waiter that has waited
\* long enough (starvation mode), so acquiring it is strongly fair.
Fairness ==
    \A c \in Callers :
        /\ WF_vars(Work(c))
        /\ SF_vars(Acquire(c))

Spec == Init /\ [][Next]_vars /\ Fairness

-----------------------------------------------------------------------------
(* Properties                                                               *)

\* The store, the lock and every call keep their shape; in particular a rollback
\* target is always a version (Ensure, upgradeOrRollback).
TypeOK ==
    /\ rel \in Release \cup {None}
    /\ good \in Release \cup {None}
    /\ revisions \subseteq Version
    /\ refuses \in BOOLEAN
    /\ holder \in Callers \cup {None}
    /\ p \in [Callers -> Ensuring]
    /\ faults \in Nat
    /\ edits \in Nat

\* Ensure of c returns in this step (a restart returns nothing).
Returns(c) == p[c].pc # "idle" /\ p'[c].pc = "idle" /\ p'[c].action # ""

\* An Ensure that reports adopted or upgraded returns with the pinned version
\* deployed in the store, whatever the client's errors, timeouts, lost answers and
\* concurrent edits were ("A timeout or rollback failure is never reported as
\* succeeded").  One that reports installed may have been overtaken, because it
\* does not look at the release that Install returns.
SuccessIsPinned ==
    [][\A c \in Callers :
              /\ Returns(c)
              /\ \/ p'[c].action \in {"adopted", "upgraded"}
                 \/ p'[c].action = "installed" /\ edits' = edits
           => rel' # None /\ AtPin(rel')]_vars

\* Ensure never changes a release that does not carry the adapter's owner label,
\* even when the label disappears between its read and its write; the exception
\* is stamping the labels on a deployed pin that the user asked to adopt.
UnmanagedUntouched ==
    [][rel # None /\ ~ManagedByAdapter(rel) /\ rel' # rel /\ edits' = edits
          => /\ \E c \in Callers : p[c].adopt
             /\ AtPin(rel)
             /\ rel' = stampAdoptedLabels(rel)]_vars

\* With AllowDowngrade unset, a call that lowers the installed version, by an
\* upgrade or by a rollback, never takes it below the version that call found
\* installed, also when others moved the release while the call was running.
NeverBelowFound ==
    [][      /\ ~AllowDowngrade
             /\ rel # None /\ rel' # None
             /\ rel'.version < rel.version
             /\ edits' = edits
          => \E c \in Callers : /\ p[c].before # None
                               /\ p[c].before.version <= rel'.version]_vars

\* When both attempts have failed, the release that was deployed when the call
\* began is put back and the call says so, unless the rollback itself fails, is
\* refused or overtaken, or the release is no longer the adapter's or lost its
\* history ("Before Upgrade: store last-known-good", "Transient failure: at most
\* two attempts, then rollback").
RollbackRestores ==
    [][\A c \in Callers :
              /\ p[c].pc = "rollback" /\ Returns(c)
              /\ ~refuses
              /\ faults' = faults /\ edits' = edits
              /\ rel # None /\ ManagedByAdapter(rel)
              /\ p[c].before.status = "deployed"
              /\ p[c].before.version \in revisions
           => p'[c].status = "rolled_back" /\ rel'.version = p[c].before.version]_vars

\* Every call returns, so the release's lock is always given back: no path out
\* of Ensure keeps it, and no caller waits for it for ever.
EnsureReturns == \A c \in Callers : p[c].pc # "idle" ~> p[c].pc = "idle"

=============================================================================
