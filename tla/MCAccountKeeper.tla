-------------------------- MODULE MCAccountKeeper ---------------------------
(* Model checking of AccountKeeper on small batches.                        *)
EXTENDS AccountKeeper
=============================================================================
