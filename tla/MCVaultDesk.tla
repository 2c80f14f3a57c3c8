---------------------------- MODULE MCVaultDesk ----------------------------
(***************************************************************************)
(* VaultDesk for TLC: the accounts and the callers are interchangeable.     *)
(***************************************************************************)
EXTENDS VaultDesk, TLC

Symmetry == Permutations(Accounts) \cup Permutations(Callers)

(* Every command on one account, one after the other.                       *)
Serial == [allowed |-> {"start", "agent", "recover", "resume", "cancel", "clean", "resolve",
                        "delete", "connect", "session"},
           overlap |-> FALSE, accounts |-> 1, commands |-> 4, jobs |-> 3, crashes |-> 1]

(* The commands that keep no copy of the vault, at any moment of a batch.    *)
Busy == [allowed |-> {"start", "resume", "cancel", "clean", "session"},
         overlap |-> TRUE, accounts |-> 2, commands |-> 2, jobs |-> 2, crashes |-> 1]

(* The window beside the agent's batch.                                      *)
Window == [allowed |-> {"agent", "cancel", "clean", "abandon", "session"},
           overlap |-> TRUE, accounts |-> 2, commands |-> 3, jobs |-> 1, crashes |-> 1]

(* The Codex credentials of two accounts, one command after the other.       *)
Tokens == [allowed |-> {"start", "connect", "session", "export", "delete", "abandon"},
           overlap |-> FALSE, accounts |-> 2, commands |-> 4, jobs |-> 2, crashes |-> 0]

(* An export of one credential that the issuer may refuse to refresh.       *)
Refused == [allowed |-> {"start", "session", "export", "refuse"},
            overlap |-> FALSE, accounts |-> 1, commands |-> 4, jobs |-> 1, crashes |-> 0]

(* TOTP changes beside rotations, cut off by crashes, errors and cancels.    *)
Secrets == [allowed |-> {"start", "change_totp", "resume", "cancel", "clean", "resolve", "abandon"},
            overlap |-> FALSE, accounts |-> 1, commands |-> 3, jobs |-> 2, crashes |-> 1]

DeskWork == {Serial, Busy, Window, Tokens, Refused, Secrets}
=============================================================================
