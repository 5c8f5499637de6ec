------------------------------ MODULE ReleaseCalls ------------------------------
(***************************************************************************)
(* What the cluster Helm clients promise about the one release they are    *)
(* called for.  A call looks at the release once, to decide whether it may *)
(* go on.  After that it changes the release at most once, to what it was  *)
(* asked for, and it may return before that.  The release dpf-operator is  *)
(* protected: its calls never do more than stamp the adoption labels.      *)
(*                                                                         *)
(* Other Helm clients change the release at any time, also between the     *)
(* look and the change.  A mutation they overtake may leave something      *)
(* else, for it works on the revisions it once saw, by name; an adoption   *)
(* never does.                                                             *)
(***************************************************************************)
EXTENDS HelmRelease

CONSTANT Callers

VARIABLES
    rel,        \* the release, or None
    call,       \* what each caller is doing
    protected,  \* the release is dpf-operator
    edits       \* how often others changed the release

callVars == <<rel, call, protected, edits>>

Ops == {"install", "upgrade", "rollback", "uninstall", "claim"}

\* A decided call.  overtaken: others changed the release since it looked.
Calling == [op : Ops \cup {"none"}, to : Version, done : BOOLEAN, overtaken : BOOLEAN]

NoCall == [op |-> "none", to |-> 0, done |-> FALSE, overtaken |-> FALSE]

\* The release as the clients store it for chart version v.
Stored(v) == [version |-> v, status |-> "deployed",
              owner |-> "adapter", mode |-> "installed", storage |-> "helm"]

\* Whether a call goes on when it finds release r.
May(op, r) ==
    CASE op = "install"                -> r = None
      [] op \in {"upgrade", "rollback"} -> r # None /\ ManagedByAdapter(r)
      [] op = "uninstall"              -> r # None /\ AllowsDelete(ClassifyReleaseOwnership(r))
      [] op = "claim"                  -> r # None /\ matchesPinnedRelease(r)

\* What a call may make of release r.
Outcomes(op, to, r) ==
    CASE op \in {"install", "upgrade", "rollback"} -> {Stored(to)}
      [] op = "uninstall"                          -> {None}
      [] op = "claim"                              -> IF r = None THEN {} ELSE {stampAdoptedLabels(r)}

Decide(c) ==
    /\ call[c] = NoCall
    /\ \E op \in Ops, to \in Version :
         /\ May(op, rel) /\ (protected => op = "claim")
         /\ call' = [call EXCEPT ![c] =
                       [op |-> op, to |-> to, done |-> FALSE, overtaken |-> FALSE]]
    /\ UNCHANGED <<rel, protected, edits>>

TakeEffect(c) ==
    /\ call[c].op # "none" /\ ~call[c].done
    /\ rel' \in {rel} \cup Outcomes(call[c].op, call[c].to, rel)
    /\ \/ call' = [call EXCEPT ![c].done = TRUE]
       \/ call[c].op = "uninstall" /\ UNCHANGED call
    /\ UNCHANGED <<protected, edits>>

WorkOnWhatOthersWrote(c) ==
    /\ call[c].op \in Ops \ {"claim"} /\ ~call[c].done /\ call[c].overtaken
    /\ rel' \in Release \cup {None}
    /\ call' \in {call, [call EXCEPT ![c].done = TRUE]}
    /\ UNCHANGED <<protected, edits>>

Return(c) ==
    /\ call' = [call EXCEPT ![c] = NoCall]
    /\ UNCHANGED <<rel, protected, edits>>

\* The process restarts.
AllReturn ==
    /\ call' = [c \in Callers |-> NoCall]
    /\ UNCHANGED <<rel, protected, edits>>

OthersChange ==
    /\ rel' \in Release \cup {None}
    /\ call' = [c \in Callers |->
                  IF call[c].op = "none" THEN NoCall ELSE [call[c] EXCEPT !.overtaken = TRUE]]
    /\ edits' = edits + 1
    /\ UNCHANGED protected

CallsInit ==
    /\ rel \in Release \cup {None}
    /\ call = [c \in Callers |-> NoCall]
    /\ protected \in BOOLEAN
    /\ edits = 0

CallsNext ==
    \/ \E c \in Callers : Decide(c) \/ TakeEffect(c) \/ WorkOnWhatOthersWrote(c) \/ Return(c)
    \/ AllReturn
    \/ OthersChange

CallsSpec == CallsInit /\ [][CallsNext]_callVars

================================================================================
