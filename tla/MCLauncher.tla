----------------------------- MODULE MCLauncher -----------------------------
(***************************************************************************)
(* Launcher for TLC: three uses of one profile.                             *)
(***************************************************************************)
EXTENDS Launcher

(* The Account Keeper's preparations, retries and deletions, one at a time,  *)
(* beside kills, bindings and cookie imports.                               *)
Keeper == [allowed |-> {"prepare", "open", "keeper_delete", "kill", "bind", "cookies"},
           temporary |-> FALSE, callers |-> 1, pids |-> 3, commands |-> 3, crashes |-> 1]

(* The window: launches, edits, pins, bindings and a deletion, two at once.  *)
Window == [allowed |-> {"launch", "kill", "edit", "pin", "bind", "delete"},
           temporary |-> FALSE, callers |-> 2, pids |-> 2, commands |-> 4, crashes |-> 1]

(* A temporary profile that window and API launch, two at once.             *)
Temporary == [allowed |-> {"start", "launch", "kill", "folder", "pin"},
              temporary |-> TRUE, callers |-> 2, pids |-> 3, commands |-> 4, crashes |-> 1]

(* Folders and edits beside a browser that runs, one command at a time.      *)
Filed == [allowed |-> {"open", "edit", "folder", "rename_folder", "delete_folder", "kill"},
          temporary |-> FALSE, callers |-> 1, pids |-> 2, commands |-> 4, crashes |-> 0]

ProfileWork == {Keeper, Window, Temporary, Filed}
=============================================================================
