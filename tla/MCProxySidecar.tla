--------------------------- MODULE MCProxySidecar ---------------------------
(***************************************************************************)
(* ProxySidecar for TLC.                                                    *)
(***************************************************************************)
EXTENDS ProxySidecar

(* Overlapping commands, while the settings change or a process dies.       *)
Edited == [alone |-> FALSE, edits |-> 1, deaths |-> 0]
Dying == [alone |-> FALSE, edits |-> 0, deaths |-> 1]

(* One command after the other.                                             *)
Calm == [alone |-> TRUE, edits |-> 0, deaths |-> 0]

PoolWork == {Edited, Dying, Calm}
=============================================================================
