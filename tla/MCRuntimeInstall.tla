-------------------------- MODULE MCRuntimeInstall --------------------------
(***************************************************************************)
(* RuntimeInstall for TLC.                                                  *)
(***************************************************************************)
EXTENDS RuntimeInstall

(* The first installation, interrupted and failing.                         *)
First == [launches |-> FALSE, empties |-> FALSE, fails |-> TRUE, restarts |-> 3, edits |-> 2]

(* A damaged browser at a launch, and a user who may empty the library.     *)
Reinstall == [launches |-> TRUE, empties |-> TRUE, fails |-> FALSE, restarts |-> 0, edits |-> 3]

InstallWork == {First, Reinstall}
=============================================================================
