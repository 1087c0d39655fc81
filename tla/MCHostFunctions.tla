-------------------------- MODULE MCHostFunctions ---------------------------
(***************************************************************************)
(* An instance of HostFunctions for TLC: texts of up to MaxFragments       *)
(* fragments, integers of four bits, addresses of three.                   *)
(***************************************************************************)
EXTENDS HostFunctions

\* Statements: names that prefix one another, and all that can hide a name.
RewriteFragments ==
    {<<":", "a">>, <<":", "b">>, <<"1">>, <<":">>, <<"'">>, <<"\"">>, <<"$">>, <<"$", "a", "$">>, <<"a">>,
     <<"-", "-">>, <<"nl">>, <<"/", "*">>, <<"*", "/">>, <<"wide">>}

RouteFragments ==
    {<<"from", "sp">>, <<"geo", ".">>, <<"geo", ".", "t">>, <<"t">>, <<"(">>, <<")">>, <<"'">>, <<"bt">>,
     <<"[">>, <<"]">>, <<"/", "*">>, <<"*", "/">>, <<":", "a">>, <<"sp">>}

MCFragments == [rewrite |-> RewriteFragments, route |-> RouteFragments]

\* As written in the call, with and without the colon; a name is given twice.
MCParams == <<<<"a">>, <<":", "b">>, <<":", "a">>, <<"a", "1">>>>
MCProviders == {<<"geo">>}

V4(h) == [v |-> 4, host |-> h]
V6(h) == [v |-> 6, host |-> h]
Mapped(h) == [v |-> 6, host |-> "mapped", of |-> h]
MCAddresses == {V4("lan"), V4("wan"), Mapped("lan"), V6("ula")}
MCBuiltin == {[v |-> 4, has |-> {V4("lan")}], [v |-> 6, has |-> {V6("ula")}]}

\* The sections add a network, replace all with one, with none that parses,
\* or are switched off; one network holds the mapped addresses.
Wan == [v |-> 4, has |-> {V4("wan")}]
AllMapped == [v |-> 6, has |-> {Mapped("lan")}]
MCNetConfs ==
    {[enabled |-> TRUE, mode |-> "add", nets |-> {Wan, AllMapped}],
     [enabled |-> TRUE, mode |-> "replace", nets |-> {Wan, AllMapped}],
     [enabled |-> TRUE, mode |-> "replace", nets |-> {Invalid}],
     [enabled |-> FALSE, mode |-> "replace", nets |-> {Wan}]}
=============================================================================
