------------------------------ MODULE MCDeadFields ------------------------------
(***************************************************************************)
(* The service chain mapping in small: a template for every function that  *)
(* has a chart, with a required URL, a literal flag inside an object, a    *)
(* free-form values object and an optional list of ports, and then the     *)
(* chain.                                                                  *)
(***************************************************************************)
EXTENDS DeadFields

CONSTANTS FirstSpecs, TemplateCRDs

Field(to, how, of, arg, default, required) ==
    [to |-> to, how |-> how, of |-> of, arg |-> arg, default |-> default, required |-> required]

URL == <<"spec", "url">>
Privileged == <<"spec", "security", "privileged">>
Image == <<"spec", "values", "image">>
Ports == <<"spec", "ports">>
Order == <<"spec", "order">>

Template ==
    [kind |-> "template", each |-> TRUE,
     when |-> Field(<< >>, "cel", "item", <<"charted">>, Empty, FALSE),
     name |-> Field(<< >>, "from", "item", <<"name">>, Empty, FALSE),
     fields |-> <<Field(URL, "from", "item", <<"url">>, Empty, TRUE),
                  Field(Privileged, "value", "item", "true", Empty, FALSE),
                  Field(Image, "from", "item", <<"image">>, "latest", FALSE),
                  Field(Ports, "from", "item", <<"ports">>, Empty, FALSE)>>]

Chain ==
    [kind |-> "chain", each |-> FALSE, when |-> Empty,
     name |-> Field(<< >>, "cel", "source", <<"name">>, Empty, FALSE),
     fields |-> <<Field(Order, "cel", "source", <<"order">>, Empty, FALSE)>>]

MCMapping == <<Template, Chain>>

Function(name, charted, url, ports) ==
    [p \in {<<"name">>, <<"charted">>} \cup (IF url = Empty THEN {} ELSE {<<"url">>})
           \cup (IF ports = Empty THEN {} ELSE {<<"ports">>}) |->
        CASE p = <<"name">> -> name [] p = <<"charted">> -> charted
          [] p = <<"url">> -> url   [] p = <<"ports">> -> ports]

Source(items) ==
    [at |-> [p \in {<<"name">>, <<"order">>} |-> IF p = <<"name">> THEN "c" ELSE "abc"],
     items |-> items]

\* A chain of one function and one without a chart, one with a list of ports, one
\* whose URL is missing, and an empty one.
MCSpecs ==
    [plain   |-> Source(<<Function("f", "true", "u", Empty), Function("g", "false", Empty, Empty)>>),
     ported  |-> Source(<<Function("f", "true", "u", "p")>>),
     invalid |-> Source(<<Function("f", "true", Empty, Empty)>>),
     none    |-> Source(<< >>)]

Spec0(names) == {MCSpecs[n] : n \in names}
MCSpecSet == Spec0(FirstSpecs)

MCElements(p) == IF p = Ports THEN {Ports \o <<"[]", "mtu">>} ELSE {}

Closed(paths) == UNION {Above(p) \cup {p} : p \in paths}

Schema(paths, open) == [declared |-> Closed(paths), open |-> open]

Full     == Schema({URL, Privileged, <<"spec", "values">>, Ports \o <<"[]", "mtu">>}, {<<"spec", "values">>})
Old      == Schema({URL, <<"spec", "values">>, Ports \o <<"[]", "mtu">>}, {<<"spec", "values">>})
Older    == Schema({Ports \o <<"[]", "mtu">>}, {})
ListLag  == Schema({URL, Privileged, <<"spec", "values">>, Ports \o <<"[]">>}, {<<"spec", "values">>})
ChainOnly == Schema({Order}, {})

\* The CRD as the mapping expects it, two that lag, one that lags inside a list,
\* and one whose stored version lags the served one.
TemplateCRD ==
    [full  |-> [served |-> Full, storage |-> Full],
     old   |-> [served |-> Old, storage |-> Old],
     older |-> [served |-> Older, storage |-> Older],
     list  |-> [served |-> ListLag, storage |-> ListLag],
     split |-> [served |-> Full, storage |-> Old]]

MCCRDs(k) == IF k = "template" THEN {TemplateCRD[n] : n \in TemplateCRDs}
             ELSE {[served |-> ChainOnly, storage |-> ChainOnly]}

================================================================================
