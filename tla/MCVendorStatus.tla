----------------------------- MODULE MCVendorStatus -----------------------------
(***************************************************************************)
(* One DPU, one DPF CRD and one controller beside cert-manager and the two *)
(* places of Argo CD.  Users switch between both vendors, a rejected       *)
(* override, a version before the window, and no vendor.                   *)
(***************************************************************************)
EXTENDS VendorStatus

Wants(vendor, pin) == [vendor |-> vendor, pin |-> pin, override |-> FALSE, adopt |-> FALSE]

MCIntents == {[Wants("nvidia", "") EXCEPT !.adopt = TRUE], Wants("nvidia", "old"), Wants("amd", "pin"),
              [Wants("nvidia", "pin") EXCEPT !.override = TRUE], Wants("", "")}

Reports(phase, method) == [phase |-> phase, method |-> method, reboot |-> "", cycle |-> FALSE]

MCDPUStates == {Reports("Ready", "SystemLevelReset"), Reports("Provisioning", "SystemLevelReset")}
MCInstallations == {[version |-> "pin", owner |-> "other"], [version |-> "new", owner |-> "adapter"]}
MCrequiredDPFCRDs == <<"DPU">>
MCrequiredDPFControllers == <<"dpf-provisioning-controller-manager">>
MCArgos == <<"argo-cd-argocd-server", "argocd-server">>

================================================================================
