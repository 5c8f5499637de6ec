------------------------------- MODULE HelmStorage -------------------------------
(***************************************************************************)
(* The cluster Helm clients (cluster_helm_client.go, secret_helm_client.go)*)
(* call by call over the Secrets in which Helm keeps a release, one Secret *)
(* per revision, and the objects of its chart.  Callers run concurrently   *)
(* in one process; other Helm clients and kubectl work on the same objects.*)
(*                                                                         *)
(* The clients are called in two ways.  The lifecycle manager calls them   *)
(* for dpf-operator (protected), from Ensure and from cleanup, which hold  *)
(* the release's mutex meanwhile.  Every other release is called directly. *)
(***************************************************************************)
EXTENDS HelmRelease, FiniteSetsExt

CONSTANTS
    Callers,
    CallsOf,        \* the calls each caller makes, with their chart version
    MaxRevision,    \* bound on revisions; Secrets v1 to v9 sort as their numbers do
    MaxTries,       \* retry.DefaultRetry.Steps
    MaxEdits,       \* bound on what others do to the release
    MaxFaults       \* bound on failing calls and restarts

Ops == {"install", "upgrade", "rollback", "uninstall", "claim"}

VARIABLES
    secret,     \* the Secret of each revision
    chart,      \* the chart version the release's objects were rendered from
    lock,       \* defaultReleaseLocks of the release: who holds it
    claimLock,  \* claimReleaseLocks of the release
    call,       \* what each caller is doing
    protected,  \* the release is dpf-operator
    edits,
    faults

vars == <<secret, chart, lock, claimLock, call, protected, edits, faults>>

Revision == 1..MaxRevision

\* status is what the payload says, label the Secret's status label; owner and
\* mode are labels of the Secret, owned says that the payload carries the labels
\* of a release this adapter installed.
Secret == [version : Version, status : Statuses, label : {"deployed", "superseded", "failed"},
           owner : Owners, mode : Modes, owned : BOOLEAN]

ASSUME StorageAssumption ==
    /\ None \notin Callers \cup Release \cup Secret
    /\ CallsOf \in [Callers -> SUBSET (Ops \X (Version \ {0}))]
    /\ MaxRevision \in 1..9
    /\ MaxTries \in Nat \ {0} /\ MaxEdits \in Nat /\ MaxFaults \in Nat

Steps == {"idle", "refused", "lock", "read", "find", "supersede", "apply", "store", "confirm",
          "objects", "list", "secrets",
          "claimLock", "claimRead", "claimList", "claimGet", "claimUpdate"}

\* Steps of a call that has not looked at the release yet.
Undecided == {"idle", "refused", "lock", "read", "claimLock", "claimRead"}

\* to is the chart version of the configuration, or the one to roll back to;
\* rev the revision the call works on; copy the Secret it read; todo the Secrets
\* it still has to delete; overtaken that others changed the release since it
\* read; tries how often an adoption was tried.
Call == [op : Ops \cup {"none"}, to : Version, pc : Steps, rev : 0..MaxRevision,
         copy : Secret \cup {None}, todo : SUBSET Revision, overtaken : BOOLEAN,
         tries : Nat]

Idle == [op |-> "none", to |-> 0, pc |-> "idle", rev |-> 0, copy |-> None, todo |-> {},
         overtaken |-> FALSE, tries |-> 1]

--------------------------------------------------------------------------------
(* Reading the storage. *)

\* A revision that failed is passed over.
Visible(items) == {r \in Revision : items[r] # None /\ items[r].label # "failed"}

latestHelmSecret(items) == IF Visible(items) = {} THEN 0 ELSE Max(Visible(items))

\* Labels of the payload win over labels of the Secret.
releaseFromHelmSecret(s) ==
    [version |-> s.version, status |-> s.status, storage |-> "helm",
     owner   |-> IF s.owned THEN "adapter" ELSE s.owner,
     mode    |-> IF s.owned THEN "installed" ELSE s.mode]

ReleaseIn(items) ==
    IF Visible(items) = {} THEN None ELSE releaseFromHelmSecret(items[latestHelmSecret(items)])

GetRelease == ReleaseIn(secret)

\* What storeSecret writes.
StoredSecret(v) == [version |-> v, status |-> "deployed", label |-> "deployed",
                    owner |-> "adapter", mode |-> "installed", owned |-> TRUE]

\* The release a stored Secret stands for.
StoredRelease(v) == releaseFromHelmSecret(StoredSecret(v))

--------------------------------------------------------------------------------
(* Calling and returning. *)

Fails == faults < MaxFaults /\ faults' = faults + 1

Goto(c, pc) == call' = [call EXCEPT ![c].pc = pc]

\* The release is written and only read once more, to be returned.
Written(c) == call' = [call EXCEPT ![c].pc = "confirm", ![c].rev = 0,
                                  ![c].copy = None, ![c].tries = 1]

\* Mutant: the mutex is not freed.
ReturnsLocked(c) ==
    /\ call' = [call EXCEPT ![c] = Idle]
    /\ claimLock' = IF claimLock = c THEN None ELSE claimLock
    /\ UNCHANGED lock

\* The deferred unlocks run on every return.
Returns(c) ==
    /\ call' = [call EXCEPT ![c] = Idle]
    /\ lock' = IF lock = c THEN None ELSE lock
    /\ claimLock' = IF claimLock = c THEN None ELSE claimLock

\* dpf-operator is refused whatever chart is configured.
guardMutation == ~protected

\* Ensure and cleanup take the mutex before they call; a claim is for the pin.
\* Each mutation asks guardMutation before it waits for the mutex.
Begin(c) ==
    /\ call[c].pc = "idle"
    /\ \E op \in Ops, to \in Version \ {0} :
         /\ <<op, to>> \in CallsOf[c]
         /\ (protected \/ op = "claim") => to = Pin
         /\ call' = [call EXCEPT ![c] = [Idle EXCEPT !.op = op, !.to = to,
                        !.pc = IF op = "claim" THEN "claimLock"
                               ELSE IF guardMutation THEN "lock" ELSE "refused"]]
    /\ IF protected THEN lock = None /\ lock' = c ELSE UNCHANGED lock
    /\ UNCHANGED <<secret, chart, claimLock, protected, edits, faults>>

\* ErrHelmMutationNotConfigured
Refused(c) ==
    /\ call[c].pc = "refused"
    /\ Returns(c)
    /\ UNCHANGED <<secret, chart, protected, edits, faults>>

\* Mutant: the mutex is not taken.
AcquireNothing(c) ==
    /\ call[c].pc = "lock"
    /\ Goto(c, "read")
    /\ UNCHANGED <<secret, chart, lock, claimLock, protected, edits, faults>>

Acquire(c) ==
    /\ call[c].pc = "lock" /\ lock = None
    /\ lock' = c
    /\ Goto(c, "read")
    /\ UNCHANGED <<secret, chart, claimLock, protected, edits, faults>>

\* An API call fails; what it was to write may or may not be written.
CallFails(c) ==
    /\ call[c].pc \in Steps \ {"idle", "refused", "lock", "claimLock"}
    /\ Fails
    /\ Returns(c)
    /\ UNCHANGED <<secret, chart, protected, edits>>

--------------------------------------------------------------------------------
(* Install, Upgrade, Rollback. *)

\* Install wants no release, the others an owned one (ownedRelease).
MayMutate(op) ==
    CASE op = "install"                 -> GetRelease = None
      [] op \in {"upgrade", "rollback"} -> GetRelease # None /\ ManagedByAdapter(GetRelease)
      [] op = "uninstall"               ->
           GetRelease # None /\ AllowsDelete(ClassifyReleaseOwnership(GetRelease))

\* A release at the bound on revisions is not upgraded further.
BoundFor(op) == IF op \in {"upgrade", "rollback"} THEN MaxRevision ELSE MaxRevision + 1

ReadRelease(c) ==
    LET next == [install |-> "apply", upgrade |-> "supersede",
                 rollback |-> "find", uninstall |-> "objects"]
    IN  /\ call[c].pc = "read"
        /\ IF MayMutate(call[c].op) /\ latestHelmSecret(secret) < BoundFor(call[c].op)
           THEN /\ call' = [call EXCEPT ![c].pc = next[call[c].op], ![c].rev = latestHelmSecret(secret),
                                        ![c].overtaken = FALSE]
                /\ UNCHANGED <<lock, claimLock>>
           ELSE Returns(c)
        /\ UNCHANGED <<secret, chart, protected, edits, faults>>

\* findRevision looks at every Secret, whatever its status.
FindRevision(c) ==
    /\ call[c].pc = "find"
    /\ IF \E r \in Revision : secret[r] # None /\ versionsEqual(secret[r].version, call[c].to)
       THEN Goto(c, "supersede") /\ UNCHANGED <<lock, claimLock>>
       ELSE Returns(c)
    /\ UNCHANGED <<secret, chart, protected, edits, faults>>

\* markSuperseded changes the label only, and wants the Secret to be there.
MarkSuperseded(c) ==
    /\ call[c].pc = "supersede"
    /\ IF secret[call[c].rev] = None
       THEN Returns(c) /\ UNCHANGED secret
       ELSE /\ secret' = [secret EXCEPT ![call[c].rev].label = "superseded"]
            /\ Goto(c, "apply") /\ UNCHANGED <<lock, claimLock>>
    /\ UNCHANGED <<chart, protected, edits, faults>>

ApplyManifests(c) ==
    /\ call[c].pc = "apply"
    /\ chart' = call[c].to
    /\ Goto(c, "store")
    /\ UNCHANGED <<secret, lock, claimLock, protected, edits, faults>>

\* A Secret of that name, whoever wrote it, is overwritten.
StoreSecret(c) ==
    /\ call[c].pc = "store"
    /\ secret' = [secret EXCEPT ![call[c].rev + 1] = StoredSecret(call[c].to)]
    /\ Written(c)
    /\ UNCHANGED <<chart, lock, claimLock, protected, edits, faults>>

Confirm(c) ==
    /\ call[c].pc = "confirm"
    /\ Returns(c)
    /\ UNCHANGED <<secret, chart, protected, edits, faults>>

--------------------------------------------------------------------------------
(* Uninstall. *)

DeleteReleaseObjects(c) ==
    /\ call[c].pc = "objects"
    /\ chart' = None
    /\ Goto(c, "list")
    /\ UNCHANGED <<secret, lock, claimLock, protected, edits, faults>>

ListSecrets(c) ==
    /\ call[c].pc = "list"
    /\ call' = [call EXCEPT ![c].pc = "secrets", ![c].todo = {r \in Revision : secret[r] # None}]
    /\ UNCHANGED <<secret, chart, lock, claimLock, protected, edits, faults>>

\* Mutant: the newest revision goes first.
DeleteSecretNewest(c) ==
    /\ call[c].pc = "secrets" /\ call[c].todo # {}
    /\ LET r == Max(call[c].todo)
       IN  /\ secret' = [secret EXCEPT ![r] = None]
           /\ call' = [call EXCEPT ![c].todo = @ \ {r}]
    /\ UNCHANGED <<chart, lock, claimLock, protected, edits, faults>>

\* One by one, in the order of the list; one that is gone is passed over.
DeleteSecret(c) ==
    /\ call[c].pc = "secrets" /\ call[c].todo # {}
    /\ LET r == Min(call[c].todo)
       IN  /\ secret' = [secret EXCEPT ![r] = None]
           /\ call' = [call EXCEPT ![c].todo = @ \ {r}]
    /\ UNCHANGED <<chart, lock, claimLock, protected, edits, faults>>

Uninstalled(c) ==
    /\ call[c].pc = "secrets" /\ call[c].todo = {}
    /\ Returns(c)
    /\ UNCHANGED <<secret, chart, protected, edits, faults>>

--------------------------------------------------------------------------------
(* ClaimRelease, with a mutex of its own. *)

alreadyAdoptedLabels(s) == s.owner = "adapter" /\ s.mode = "adopted"

ClaimLock(c) ==
    /\ call[c].pc = "claimLock" /\ claimLock = None
    /\ claimLock' = c
    /\ Goto(c, "claimRead")
    /\ UNCHANGED <<secret, chart, lock, protected, edits, faults>>

\* Only a release deployed at the pin is claimed.
ClaimRead(c) ==
    /\ call[c].pc = "claimRead"
    /\ IF GetRelease # None /\ matchesPinnedRelease(GetRelease)
       THEN /\ call' = [call EXCEPT ![c].pc = "claimList", ![c].overtaken = FALSE]
            /\ UNCHANGED <<lock, claimLock>>
       ELSE Returns(c)
    /\ UNCHANGED <<secret, chart, protected, edits, faults>>

\* The Secret to stamp comes from a second listing.
ClaimList(c) ==
    /\ call[c].pc = "claimList"
    /\ IF Visible(secret) = {} THEN Returns(c)
       ELSE IF alreadyAdoptedLabels(secret[latestHelmSecret(secret)]) THEN Returns(c)
       ELSE /\ call' = [call EXCEPT ![c].pc = "claimGet", ![c].rev = latestHelmSecret(secret)]
            /\ UNCHANGED <<lock, claimLock>>
    /\ UNCHANGED <<secret, chart, protected, edits, faults>>

ClaimGet(c) ==
    LET s == secret[call[c].rev]
    IN  /\ call[c].pc = "claimGet"
        /\ IF s = None THEN Returns(c)
           ELSE /\ IF alreadyAdoptedLabels(s) THEN Written(c)
                   ELSE call' = [call EXCEPT ![c].pc = "claimUpdate", ![c].copy = s]
                /\ UNCHANGED <<lock, claimLock>>
        /\ UNCHANGED <<secret, chart, protected, edits, faults>>

\* Mutant: the tries are not counted.
TryAgainForever(c) ==
    /\ call' = [call EXCEPT ![c] = [Idle EXCEPT !.op = "claim", !.to = Pin, !.pc = "claimRead"]]
    /\ UNCHANGED <<lock, claimLock>>

\* RetryOnConflict: everything is read again, unless the tries are used up.
TryAgain(c) ==
    IF call[c].tries < MaxTries
    THEN /\ call' = [call EXCEPT ![c] = [Idle EXCEPT !.op = "claim", !.to = Pin,
                        !.pc = "claimRead", !.tries = call[c].tries + 1]]
         /\ UNCHANGED <<lock, claimLock>>
    ELSE Returns(c)

\* A Secret that changed since it was read is a conflict.
ClaimUpdate(c) ==
    LET r == call[c].rev
    IN  /\ call[c].pc = "claimUpdate"
        /\ \/ secret[r] = None /\ Returns(c) /\ UNCHANGED secret
           \/ secret[r] \notin {None, call[c].copy} /\ TryAgain(c) /\ UNCHANGED secret
           \/ /\ secret[r] # None /\ secret[r] = call[c].copy
              /\ secret' = [secret EXCEPT ![r].owner = "adapter", ![r].mode = "adopted"]
              /\ Written(c) /\ UNCHANGED <<lock, claimLock>>
        /\ UNCHANGED <<chart, protected, edits, faults>>

--------------------------------------------------------------------------------
(* The environment. *)

\* The process restarts; its mutexes and calls are gone.
Restart ==
    /\ Fails
    /\ call' = [c \in Callers |-> Idle]
    /\ lock' = None /\ claimLock' = None
    /\ UNCHANGED <<secret, chart, protected, edits>>

Overtaken == [c \in Callers |-> IF call[c].pc \in Undecided THEN call[c]
                                ELSE [call[c] EXCEPT !.overtaken = TRUE]]

Interfere ==
    /\ edits < MaxEdits /\ edits' = edits + 1
    /\ call' = Overtaken
    /\ UNCHANGED <<lock, claimLock, protected, faults>>

\* helm install or helm upgrade: the new revision follows every other and keeps
\* the labels of the one before, or has none; a failed one leaves that deployed.
HelmUpgrade ==
    LET used == {r \in Revision : secret[r] # None}
        rev == IF used = {} THEN 1 ELSE Max(used) + 1
        old == latestHelmSecret(secret)
    IN  /\ rev \in Revision
        /\ \E v \in Version \ {0}, status \in Statuses, kept \in BOOLEAN :
             LET new == [version |-> v, status |-> status, label |-> status, owned |-> FALSE,
                         owner |-> IF kept /\ old # 0 THEN secret[old].owner ELSE "",
                         mode  |-> IF kept /\ old # 0 THEN secret[old].mode ELSE ""]
             IN  /\ chart' = v
                 /\ secret' = [r \in Revision |->
                      IF r = rev THEN new
                      ELSE IF r = old /\ status = "deployed"
                           THEN [secret[r] EXCEPT !.status = "failed", !.label = "superseded"]
                           ELSE secret[r]]
        /\ Interfere

\* helm uninstall.
HelmUninstall ==
    /\ Visible(secret) # {}
    /\ secret' = [r \in Revision |-> None]
    /\ chart' = None
    /\ Interfere

\* kubectl label on the newest Secret.
Relabel ==
    /\ Visible(secret) # {}
    /\ \E owner \in {"", "other"} :
         secret' = [secret EXCEPT ![latestHelmSecret(secret)].owner = owner, ![latestHelmSecret(secret)].mode = ""]
    /\ UNCHANGED chart
    /\ Interfere

Init ==
    /\ secret = [r \in Revision |-> None]
    /\ chart = None
    /\ lock = None
    /\ claimLock = None
    /\ call = [c \in Callers |-> Idle]
    /\ protected \in BOOLEAN
    /\ edits = 0
    /\ faults = 0

ClientStep(c) ==
    \/ Refused(c) \/ ReadRelease(c) \/ FindRevision(c) \/ MarkSuperseded(c)
    \/ ApplyManifests(c) \/ StoreSecret(c) \/ Confirm(c)
    \/ DeleteReleaseObjects(c) \/ ListSecrets(c) \/ DeleteSecret(c) \/ Uninstalled(c)
    \/ ClaimRead(c) \/ ClaimList(c) \/ ClaimGet(c) \/ ClaimUpdate(c)

Next ==
    \/ \E c \in Callers :
         Begin(c) \/ Acquire(c) \/ ClaimLock(c) \/ ClientStep(c) \/ CallFails(c)
    \/ Restart
    \/ HelmUpgrade \/ HelmUninstall \/ Relabel

\* A call that can go on goes on; a Go mutex lets every waiter in.
Fairness ==
    \A c \in Callers :
      WF_vars(ClientStep(c)) /\ SF_vars(Acquire(c)) /\ SF_vars(ClaimLock(c))

Spec == Init /\ [][Next]_vars /\ Fairness

--------------------------------------------------------------------------------
(* Properties. *)

\* Whether call k holds the release's mutex: Ensure and cleanup hold it for the
\* whole call, a mutation from its first look to its return.
Holds(k) ==
    IF protected THEN k.pc # "idle"
    ELSE \/ k.pc \in {"read", "find", "supersede", "apply", "store", "objects", "list", "secrets"}
         \/ k.pc = "confirm" /\ k.op # "claim"

\* Whether call k holds the mutex of adoptions.
HoldsClaim(k) ==
    \/ k.pc \in {"claimRead", "claimList", "claimGet", "claimUpdate"}
    \/ k.pc = "confirm" /\ k.op = "claim"

\* Every variable has its type, and exactly who works on the release, from the
\* first look to the return, holds its mutex.
TypeOK ==
    /\ secret \in [Revision -> Secret \cup {None}]
    /\ chart \in Version \cup {None}
    /\ lock \in Callers \cup {None} /\ claimLock \in Callers \cup {None}
    /\ call \in [Callers -> Call]
    /\ protected \in BOOLEAN
    /\ edits \in Nat /\ faults \in Nat
    /\ \A c \in Callers : /\ lock = c <=> Holds(call[c])
                          /\ claimLock = c <=> HoldsClaim(call[c])

\* Call k as ReleaseCalls sees it: nothing before it has looked at the release.
Decided(k) ==
    IF k.pc \in Undecided
    THEN [op |-> "none", to |-> 0, done |-> FALSE, overtaken |-> FALSE]
    ELSE [op |-> k.op, to |-> k.to, overtaken |-> k.overtaken,
          done |-> k.pc = "confirm" \/ (k.pc = "secrets" /\ k.todo = {})]

Calls == INSTANCE ReleaseCalls
           WITH rel <- GetRelease, call <- [c \in Callers |-> Decided(call[c])]

\* The clients implement ReleaseCalls: whatever the interleaving of their API
\* calls with each other, with other Helm clients, with failures and restarts,
\* each call changes the release at most once and only to what it was asked for,
\* after it found that it may; and dpf-operator is never more than stamped
\* (ownedRelease, guardMutation, the order in which Uninstall deletes).
KeepsPromise == Calls!CallsSpec

\* A call that returns success, and that others have not overtaken, has left what
\* it was asked for: the release and the objects of its chart at the version, or
\* nothing at all (writeRevision and Uninstall under the release's mutex).
SuccessIsStored ==
    [][\A c \in Callers : ~call[c].overtaken =>
         /\ Confirm(c) /\ call[c].op # "claim" =>
              GetRelease = StoredRelease(call[c].to) /\ chart = call[c].to
         /\ Uninstalled(c) => chart = None /\ \A r \in Revision : secret[r] = None]_vars

\* Every call returns: no call waits for a mutex its own caller holds
\* (guardMutation before acquire, claimReleaseLocks), and every return frees what
\* the call holds.
CallsReturn == \A c \in Callers : call[c].pc # "idle" ~> call[c].pc = "idle"

================================================================================
