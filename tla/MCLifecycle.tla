---------------------------- MODULE MCLifecycle ----------------------------
(***************************************************************************)
(* One config and one dataplane object beside the release.  The release is *)
(* the adapter's, adopted, or somebody else's; others relabel or remove it *)
(* while the worker runs.                                                  *)
(***************************************************************************)
EXTENDS Lifecycle

Labelled(v, owner, mode, storage) ==
    [version |-> v, status |-> "deployed", owner |-> owner, mode |-> mode, storage |-> storage]

Foreign(v) == Labelled(v, "", "", "helm")
Ours(v) == Labelled(v, "adapter", "installed", "")
Adopted(v) == Labelled(v, "adapter", "adopted", "helm")
Contested == Labelled(Pin, "adapter", "installed", "other")

Wants(adopt, removal, adoption) ==
    [known |-> TRUE, adopt |-> adopt, removal |-> removal, adoption |-> adoption]

MCAnnotated == {Wants(FALSE, "delete-owned", "retain"), Wants(TRUE, "retain", "delete-owned"),
                [Wants(FALSE, "retain", "retain") EXCEPT !.known = FALSE]}
MCDeleting == {Wants(FALSE, "delete-owned", "retain")}
MCOurs == {Ours(Pin)}
MCFirstReleases == {None, Foreign(Pin), Ours(Pin)}
MCThirdParty == {None, Foreign(Pin), Adopted(1), Contested}

=============================================================================
