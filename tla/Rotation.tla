------------------------------ MODULE Rotation ------------------------------
(***************************************************************************)
(* What Account Keeper promises about a password rotation, with nothing of  *)
(* how it gets there: no worker, no stages, no batch, no files.             *)
(*                                                                          *)
(* For every account the provider holds one valid password.  The vault      *)
(* holds the password it believes valid and, from before a new one is sent  *)
(* until the outcome is proven, the attempted one.  A password is sent only *)
(* after it was recorded, the record is dropped only when the provider has  *)
(* been seen to accept the attempt, so the valid password is always one of  *)
(* the two the vault holds.                                                 *)
(***************************************************************************)
EXTENDS Naturals

CONSTANT Accounts

VARIABLES provider,   \* provider[a]: the password that signs in
          inflight,   \* inflight[a]: a submitted change the provider has not answered
          current,    \* current[a]: the password the vault believes valid
          attempt     \* attempt[a]: the recorded attempt, 0 when there is none

vars == <<provider, inflight, current, attempt>>

Password == Nat \ {0}

Init == /\ provider \in [Accounts -> Password]
        /\ inflight = [a \in Accounts |-> 0]
        /\ current = provider
        /\ attempt = [a \in Accounts |-> 0]

Record(a) ==
    /\ attempt[a] = 0
    /\ attempt'[a] \in Password \ {provider[a]}
    /\ attempt' = [attempt EXCEPT ![a] = attempt'[a]]
    /\ UNCHANGED <<provider, inflight, current>>

Submit(a) ==
    /\ attempt[a] # 0
    /\ inflight' = [inflight EXCEPT ![a] = attempt[a]]
    /\ UNCHANGED <<provider, current, attempt>>

Accept(a) ==
    /\ inflight[a] # 0
    /\ provider' = [provider EXCEPT ![a] = inflight[a]]
    /\ inflight' = [inflight EXCEPT ![a] = 0]
    /\ UNCHANGED <<current, attempt>>

Refuse(a) ==
    /\ inflight[a] # 0
    /\ inflight' = [inflight EXCEPT ![a] = 0]
    /\ UNCHANGED <<provider, current, attempt>>

Confirm(a) ==
    /\ attempt[a] # 0
    /\ provider[a] = attempt[a]
    /\ inflight[a] = 0
    /\ current' = [current EXCEPT ![a] = attempt[a]]
    /\ attempt' = [attempt EXCEPT ![a] = 0]
    /\ UNCHANGED <<provider, inflight>>

Next == \E a \in Accounts :
            Record(a) \/ Submit(a) \/ Accept(a) \/ Refuse(a) \/ Confirm(a)

Spec == Init /\ [][Next]_vars

(* The password that signs in is never lost: the vault holds it, as the one *)
(* it believes valid or as the attempt it recorded before sending it.       *)
Recoverable == \A a \in Accounts : provider[a] \in {current[a], attempt[a]}
=============================================================================
