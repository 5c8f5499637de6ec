-------------------------- MODULE MCHelmInstaller --------------------------
(***************************************************************************)
(* Two reconciles of the same release.  Versions 1 and 2 are older than    *)
(* the pin, 4 is newer, 0 does not parse.  Others leave a release of their *)
(* own, an older or a newer one that still carries the adapter's labels (a *)
(* manual helm rollback or upgrade), or none.                              *)
(***************************************************************************)
EXTENDS HelmInstaller

Labelled(v, owner, mode, storage) ==
    [version |-> v, status |-> "deployed", owner |-> owner, mode |-> mode, storage |-> storage]

Foreign(v) == Labelled(v, "", "", "helm")
Ours(v)    == Labelled(v, "adapter", "installed", "helm")
Adopted(v) == Labelled(v, "adapter", "adopted", "helm")

Failed(r)  == [r EXCEPT !.status = "failed"]

MCFirstReleases == {None, Foreign(Pin), Ours(0), Ours(1), Failed(Ours(1)), Ours(MaxVersion)}
MCThirdParty    == {None, Foreign(1), Foreign(Pin), Failed(Foreign(Pin)), Ours(2), Ours(MaxVersion), Adopted(1)}

=============================================================================
