----------------------------- MODULE HelmClient -----------------------------
(***************************************************************************)
(* The one Helm release this adapter knows (the pinned dpf-operator) and   *)
(* the operations pkg/lifecycle has on it: what Install, Upgrade,          *)
(* Rollback, ClaimRelease and Uninstall do to the stored release.          *)
(*                                                                         *)
(* Three clients exist: MemoryHelmClient (Remembers and does not refuse),  *)
(* ClusterHelmClient as cmd/main.go wires it, which refuses every mutation *)
(* but ClaimRelease (refuses), and the mutating path of ClusterHelmClient  *)
(* behind that guard (neither).  HelmStorage models the last two call by   *)
(* call; here each call is one step.                                       *)
(***************************************************************************)
EXTENDS HelmRelease

CONSTANTS
    Remembers,      \* the client is a lastGoodStore (MemoryHelmClient is, ClusterHelmClient is not)
    Refusing,       \* the possible values of refuses
    Forbidden       \* the API server may forbid listing the release's Secrets

ASSUME ReleaseAssumption ==
    /\ Remembers \in BOOLEAN
    /\ Refusing \subseteq BOOLEAN
    /\ Forbidden \in BOOLEAN
    /\ Remembers => ~Forbidden

VARIABLES
    rel,            \* the stored release, or None
    good,           \* MemoryHelmClient.lastGood, or None
    revisions,      \* the versions of which the store holds a revision
    refuses         \* how this process is wired: ClusterHelmClient.guardMutation
                    \* refuses the release; never changes

-----------------------------------------------------------------------------
(* When each call is carried out, and what it leaves in the store.          *)

CanInstall == ~refuses /\ rel = None
CanUpgradeAny == ~refuses /\ rel # None     \* mutant of CanUpgrade: ownership is not checked
CanUpgrade == ~refuses /\ rel # None /\ ManagedByAdapter(rel)
CanClaim == rel # None /\ matchesPinnedRelease(rel)
CanUninstallAny == ~refuses /\ rel # None   \* mutant of CanUninstall: no second classification
\* Mutant of CanUninstall: guardMutation is not asked.
CanUninstallUnguarded == rel # None /\ AllowsDelete(ClassifyReleaseOwnership(rel))
CanUninstall == ~refuses /\ rel # None /\ AllowsDelete(ClassifyReleaseOwnership(rel))
CanRollback(to) ==
    /\ ~refuses
    /\ rel # None
    /\ ManagedByAdapter(rel)
    /\ IF Remembers THEN good # None /\ versionsEqual(good.version, to) ELSE to \in revisions

\* Every stored release is a revision of its own; they go together.
Revised == revisions' = IF rel' = None THEN {} ELSE revisions \cup {rel'.version}

\* What a call that returns an error may leave behind.  MemoryHelmClient fails
\* before it writes; ClusterHelmClient re-reads the release after its write, and
\* that read can fail too.
AfterError(written) == IF Remembers THEN {rel} ELSE {rel, written}

\* RememberLastKnownGood
Remember(r) == good' = IF Remembers THEN r ELSE good

\* Mutant of Restored: the configuration keeps the pinned chart version.
RestoredPin(to) == OwnedRelease

\* Rollback restores the remembered release with its labels; a client with no
\* memory finds the revision of that version and writes it as a new revision.
Restored(to) ==
    IF Remembers THEN good ELSE [OwnedRelease EXCEPT !.version = to]

=============================================================================
