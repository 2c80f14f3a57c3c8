---------------------------- MODULE MCCodexBridge ----------------------------
(***************************************************************************)
(* CodexBridge for TLC: requests are interchangeable.                       *)
(***************************************************************************)
EXTENDS CodexBridge, TLC

CONSTANT p

Symmetry == Permutations(Requests)

(* Three pairings; one pairing beside the API's own use of the current      *)
(* session; two sign-ins of any key through the API alone.                  *)
BridgeBudgets ==
    {[keys |-> {}, pairings |-> 3, ops |-> 2],
     [keys |-> {External}, pairings |-> 1, ops |-> 2],
     [keys |-> {p, External}, pairings |-> 0, ops |-> 2]}
=============================================================================
