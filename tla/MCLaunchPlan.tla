---------------------------- MODULE MCLaunchPlan ----------------------------
(***************************************************************************)
(* LaunchPlan and ProxyStore for TLC.  Ids and commands are interchangeable. *)
(***************************************************************************)
EXTENDS LaunchPlan, TLC

CONSTANTS x1, x2

Symmetry == Permutations(Ids) \cup Permutations(Commands)

Single ==
    [ids |-> 1, kinds |-> {"socks5"}, exits |-> Exits, alone |-> FALSE,
     fine |-> FALSE, restarts |-> FALSE, tests |-> 0, launches |-> 0]

(* Two proxies, two commands at once.                                        *)
Pair == [Single EXCEPT !.ids = 2, !.kinds = Kinds, !.exits = {x1}, !.tests = 2]

(* One command at a time, and as many tests as overflow a history twice.      *)
InTurn == [Single EXCEPT !.alone = TRUE, !.tests = 4]

(* The application ends at any step.                                         *)
Restarted == [Single EXCEPT !.restarts = TRUE, !.tests = 3]

(* Threads interleave anywhere.                                              *)
Threads == [Single EXCEPT !.fine = TRUE, !.tests = 2]

(* A launch beside the commands and tests.                                   *)
Launched == [Single EXCEPT !.kinds = Kinds, !.alone = TRUE, !.tests = 1, !.launches = 1]

PlanWork == {Pair, InTurn, Restarted, Threads, Launched}
=============================================================================
