------------------------------ MODULE MCDaemon ------------------------------
(* Model checking of Daemon on short queues.                                *)
EXTENDS Daemon, TLC

CallerSymmetry == Permutations(Callers)

(* Overlapping requests with a challenge and a fault, or requests one after *)
(* the other beside the desktop window and a fault.                         *)
QueueBudgets ==
    {[requests |-> 2, overlaps |-> 1, desktop |-> 0, challenges |-> 1, faults |-> 1],
     [requests |-> 2, overlaps |-> 0, desktop |-> 1, challenges |-> 0, faults |-> 1]}

(* Overlapping requests and a challenge, and nothing goes wrong.            *)
SoundBudgets ==
    {[requests |-> 2, overlaps |-> 1, desktop |-> 0, challenges |-> 1, faults |-> 0]}

(* One request, and nothing else.                                           *)
OneRequest ==
    {[requests |-> 1, overlaps |-> 0, desktop |-> 0, challenges |-> 0, faults |-> 0]}
=============================================================================
