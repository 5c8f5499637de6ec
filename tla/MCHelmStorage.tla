------------------------------ MODULE MCHelmStorage ------------------------------
(***************************************************************************)
(* Two callers, a release of up to two revisions and two chart versions.   *)
(* The first caller goes through the life of a release, the second one     *)
(* comes between with an adoption or an upgrade.                           *)
(***************************************************************************)
EXTENDS HelmStorage

CONSTANTS c1, c2

MCCallsOf ==
  [c \in Callers |->
     IF c = c1 THEN {<<"install", 1>>, <<"upgrade", 2>>, <<"rollback", 1>>, <<"uninstall", 2>>}
     ELSE {<<"upgrade", 2>>, <<"claim", 2>>}]

================================================================================
