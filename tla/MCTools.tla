------------------------------ MODULE MCTools ------------------------------
(* The programs beside the registry for TLC: the values of the constants   *)
(* that a configuration cannot write down.                                 *)
EXTENDS Tools

(* The directories d1 and d2 have the same name in the archive. *)
Bases == [d \in Dirs |-> IF d = "d3" THEN "y" ELSE "x"]

(* What work discovery scans: two repositories with an issue each, and a   *)
(* pull request; the issues differ in milestone and in age.                *)
Repositories == <<"rt", "ja">>
Alphabetical == <<"ja", "rt">>
OpenIssues == {<<"ja", 1>>, <<"rt", 1>>}
OpenPulls == {<<"rt", 2>>}
Elsewhere == {<<"out", 1>>}
Looks ==
    [i \in OpenIssues |-> [labels |-> IF i[1] = "ja" THEN <<"backlog", "medium">> ELSE <<>>, effort |-> 1,
                           milestone |-> i[1] # "ja",
                           updated |-> IF i[1] = "ja" THEN 2 ELSE 1]]

(* An issue of another repository that a merge closed. *)
ClosedAbroad == {<<"rt", 1>>}
=============================================================================
