------------------------------ MODULE Launcher ------------------------------
(***************************************************************************)
(* One browser profile: its JSON file (profile.rs), its entry in the process *)
(* tracker (process.rs), the launch of its browser (launch.rs) and those who *)
(* launch, stop, edit and delete it: the window, the automation API and the  *)
(* Account Keeper.  Everything is keyed by the profile's id and profiles do  *)
(* not interact.                                                             *)
(*                                                                           *)
(* A launch loads the file, waits for the network, and then spawns, tracks   *)
(* and marks the profile launched without waiting.  The tracker's task of a  *)
(* child is told to stop by a message or when its sender is dropped, which   *)
(* happens whenever its entry is replaced or removed.                        *)
(***************************************************************************)
EXTENDS Naturals, FiniteSets

CONSTANTS
    Proxies,
    Workloads,      \* what the operator and the system do in one behaviour
    MaxCallers,     \* bound: commands under way at once
    MaxPids         \* bound: browsers ever spawned

(* The commands that are used; whether the profile is a temporary one; how   *)
(* many commands may be under way at once; and the bounds: commands, and     *)
(* ends of the application.                                                  *)
WorkloadRecords == [allowed : SUBSET STRING, temporary : BOOLEAN,
                    callers : 1 .. MaxCallers, pids : 0 .. MaxPids,
                    commands : Nat, crashes : Nat]

ASSUME LauncherAssumption ==
    MaxCallers \in Nat /\ MaxPids \in Nat /\ Workloads \subseteq WorkloadRecords

Callers == 1 .. MaxCallers
Pids == 1 .. MaxPids
NoPid == 0
Direct == "direct"
Bindings == Proxies \cup {Direct}
Folders == {"unfiled", "work", "play"}

VARIABLES
    file,       \* <profiles_dir>/<id>.json
    port,       \* the browser that wrote <udd>/DevToolsActivePort
    entry,      \* the tracker's entry
    child,      \* Pids -> the browser process and its task
    seen,       \* the window's last poll of process_list
    call,       \* Callers -> the command under way
    owned,      \* history: last pin, last folder, recorded sessions, deletion
    work        \* a workload, and what is left of its bounds

vars == <<file, port, entry, child, seen, call, owned, work>>

-----------------------------------------------------------------------------
Files == [there : BOOLEAN, bound : Bindings, folder : Folders, pinned : BOOLEAN,
          runtime : 0 .. MaxPids]

NoEntry == [pid |-> NoPid, cdp |-> NoPid]

Unborn == [state |-> "none", cdp |-> FALSE, via |-> Direct, asked |-> FALSE]

Idle == [at |-> "idle", cmd |-> "none", cdp |-> FALSE, tries |-> 0, want |-> Direct,
         copy |-> [there |-> FALSE, bound |-> Direct, folder |-> "unfiled", pinned |-> FALSE,
                   runtime |-> 0], got |-> NoPid]

Alive == {p \in Pids : child[p].state \in {"up", "closing", "orphan"}}

(* profile_cdp_from_disk: the port in the file answers.                      *)
Reachable == port \in Alive

(* local_profile_running, local_profile_cdp.                                 *)
IsRunning == entry # NoEntry \/ Reachable

(* wait_profile_absent sees the profile stopped.                             *)
(* Mutant: nobody waits.                                                     *)
Absent_Assumed == TRUE

Absent == ~IsRunning

Endpoint == IF entry.cdp # NoPid THEN entry.cdp ELSE IF Reachable THEN port ELSE NoPid

(* The sender in an entry is dropped: its task closes the browser.           *)
Dropped(e, kids) ==
    IF e # NoEntry /\ kids[e.pid].state = "up"
    THEN [kids EXCEPT ![e.pid].state = "closing"] ELSE kids

(* save_raw over the file as it is now.                                      *)
(* Mutant: the pin comes from the copy that is saved.                        *)
SaveRaw_PinOfCopy(copy, now) ==
    [there |-> TRUE, bound |-> copy.bound, pinned |-> copy.pinned,
     folder |-> IF now.there /\ copy.folder = "unfiled" THEN now.folder ELSE copy.folder,
     runtime |-> IF now.there /\ copy.runtime = 0 THEN now.runtime ELSE copy.runtime]

SaveRaw(copy, now) ==
    [there |-> TRUE, bound |-> copy.bound,
     pinned |-> IF now.there THEN now.pinned ELSE copy.pinned,
     folder |-> IF now.there /\ copy.folder = "unfiled" THEN now.folder ELSE copy.folder,
     runtime |-> IF now.there /\ copy.runtime = 0 THEN now.runtime ELSE copy.runtime]

Asked(cmd) ==
    /\ cmd \in work.allowed /\ work.commands > 0
    /\ work' = [work EXCEPT !.commands = @ - 1]

Free(c) == c <= work.callers /\ call[c].at = "idle"

Begins(c, at, cmd, cdp) ==
    call' = [call EXCEPT ![c] = [Idle EXCEPT !.at = at, !.cmd = cmd, !.cdp = cdp,
                                                    !.copy = file]]

Returns(c, got) == call' = [call EXCEPT ![c] = [Idle EXCEPT !.got = got]]

-----------------------------------------------------------------------------
Init ==
    /\ file \in {[there |-> TRUE, bound |-> Direct, folder |-> f, pinned |-> FALSE, runtime |-> 0]
                    : f \in {"unfiled", "work"}}
    /\ port = NoPid /\ entry = NoEntry /\ child = [p \in Pids |-> Unborn]
    /\ seen = FALSE /\ call = [c \in Callers |-> Idle]
    /\ owned = [pin |-> FALSE, folder |-> file.folder, sessions |-> 0, gone |-> FALSE]
    /\ work \in Workloads

-----------------------------------------------------------------------------
(* Launching.                                                                *)

LaunchLoads(c, cmd, cdp) ==
    /\ Asked(cmd) /\ Free(c) /\ file.there
    /\ Begins(c, "launching", cmd, cdp)
    /\ UNCHANGED <<file, port, entry, child, seen, owned>>

(* start_profile of the API: nothing asks whether the profile runs.          *)
ApiStarts(c) == LaunchLoads(c, "start", TRUE)

(* The window's Start: its last poll shows the profile stopped, and its own  *)
(* launch of this profile, if any, has returned.                             *)
WindowStarts(c) ==
    /\ ~seen /\ \A d \in Callers : call[d].cmd # "launch"
    /\ LaunchLoads(c, "launch", FALSE)

(* account_keeper_open_profile.                                              *)
KeeperOpens(c) == entry = NoEntry /\ LaunchLoads(c, "open", FALSE)

PortBefore(cdp) == IF cdp THEN NoPid ELSE port

(* Spawn, Tracker::track and touch_launched.  A profile deleted meanwhile    *)
(* makes touch_launched fail, after the spawn.                               *)
LaunchSpawns(c) ==
    \E p \in 1 .. work.pids :
        /\ call[c].at = "launching"
        /\ child[p] = Unborn /\ \A q \in 1 .. p - 1 : child[q] # Unborn
        /\ child' = [Dropped(entry, child) EXCEPT
               ![p] = [state |-> "up", cdp |-> call[c].cdp, via |-> call[c].copy.bound,
                       asked |-> FALSE]]
        /\ entry' = [pid |-> p, cdp |-> NoPid]
        /\ port' = PortBefore(call[c].cdp)
        /\ CASE file.there /\ call[c].cdp -> call' = [call EXCEPT ![c].at = "reading"]
             [] file.there /\ ~call[c].cdp -> Returns(c, NoPid)
             [] ~file.there /\ call[c].cmd = "prepare" ->
                    call' = [call EXCEPT ![c].at = "cdpwait"]
             [] OTHER -> Returns(c, NoPid)
        /\ UNCHANGED <<file, seen, owned, work>>

LaunchFails(c) ==
    /\ call[c].at = "launching"
    /\ IF call[c].cmd = "prepare" THEN call' = [call EXCEPT ![c].at = "cdpwait"]
       ELSE Returns(c, NoPid)
    /\ UNCHANGED <<file, port, entry, child, seen, owned, work>>

(* read_devtools_endpoint and set_cdp, by profile id.                        *)
LaunchReads(c) ==
    /\ call[c].at = "reading" /\ port # NoPid
    /\ entry' = IF entry = NoEntry THEN NoEntry ELSE [entry EXCEPT !.cdp = port]
    /\ Returns(c, port)
    /\ UNCHANGED <<file, port, child, seen, owned, work>>

LaunchTimesOut(c) ==
    /\ call[c].at = "reading"
    /\ IF call[c].cmd = "prepare" THEN call' = [call EXCEPT ![c].at = "cdpwait"]
       ELSE Returns(c, NoPid)
    /\ UNCHANGED <<file, port, entry, child, seen, owned, work>>

-----------------------------------------------------------------------------
(* The browser and the tracker's task.                                       *)

BrowserWritesPort(p) ==
    /\ child[p].state \in {"up", "closing"} /\ child[p].cdp /\ port = NoPid /\ file.there
    /\ port' = p
    /\ UNCHANGED <<file, entry, child, seen, call, owned, work>>

BrowserExits(p) ==
    /\ child[p].state \in {"up", "orphan"}
    /\ child' = [child EXCEPT ![p].state = IF @ = "up" THEN "ended" ELSE "gone"]
    /\ UNCHANGED <<file, port, entry, seen, call, owned, work>>

(* Asked to close: gracefully, or killed after five seconds.                 *)
(* Mutant: nobody kills a browser that does not close by itself.             *)
BrowserCloses_Never(p) == FALSE /\ UNCHANGED vars

BrowserCloses(p) ==
    /\ child[p].state = "closing"
    /\ child' = [child EXCEPT ![p].state = "ended"]
    /\ UNCHANGED <<file, port, entry, seen, call, owned, work>>

(* The task removes the entry of its profile id, whoever made it, and adds   *)
(* the session to the file or deletes a temporary profile.                   *)
Recorded(f) == IF work.temporary THEN [f EXCEPT !.there = FALSE]
               ELSE IF f.there THEN [f EXCEPT !.runtime = @ + 1] ELSE f

TaskEnds(p) ==
    /\ child[p].state = "ended"
    /\ entry' = NoEntry
    /\ child' = [Dropped(entry, child) EXCEPT ![p].state = "gone"]
    /\ file' = Recorded(file)
    /\ port' = IF work.temporary THEN NoPid ELSE port
    /\ owned' = [owned EXCEPT !.gone = @ \/ work.temporary,
                              !.sessions = IF file.there /\ ~work.temporary THEN @ + 1 ELSE @]
    /\ UNCHANGED <<seen, call, work>>

(* Tracker::kill.                                                            *)
Killed(kids) == IF entry = NoEntry THEN kids
                ELSE [Dropped(entry, kids) EXCEPT ![entry.pid].asked = TRUE]

(* process_kill of the window, stop_profile of the API.                      *)
Kill ==
    /\ Asked("kill") /\ entry # NoEntry /\ child' = Killed(child)
    /\ UNCHANGED <<file, port, entry, seen, call, owned>>

Poll ==
    /\ "launch" \in work.allowed /\ seen # (entry # NoEntry) /\ seen' = (entry # NoEntry)
    /\ UNCHANGED <<file, port, entry, child, call, owned, work>>

-----------------------------------------------------------------------------
(* The Account Keeper's use of a profile.                                    *)

(* assign_pending_profile_proxy, then prepare_profile_cdp.                   *)
KeeperPrepares(c, x) ==
    /\ Asked("prepare") /\ Free(c) /\ file.there
    /\ call' = [call EXCEPT ![c] =
           [Idle EXCEPT !.cmd = "prepare", !.cdp = TRUE, !.want = x,
                !.at = CASE file.bound = x -> "ready"
                         [] file.bound # x /\ IsRunning -> "unbinding"
                         [] OTHER -> "binding"]]
    /\ child' = IF file.bound # x /\ IsRunning THEN Killed(child) ELSE child
    /\ UNCHANGED <<file, port, entry, seen, owned>>

KeeperBinds(c) ==
    /\ call[c].at = "binding" \/ (call[c].at = "unbinding" /\ Absent)
    /\ IF file.there
       THEN /\ file' = SaveRaw([file EXCEPT !.bound = call[c].want], file)
            /\ call' = [call EXCEPT ![c].at = "ready"]
       ELSE Returns(c, NoPid) /\ UNCHANGED file
    /\ UNCHANGED <<port, entry, child, seen, owned, work>>

(* A running browser with an endpoint is used as it is.                      *)
KeeperReuses(c) ==
    /\ call[c].at = "ready" /\ Endpoint # NoPid
    /\ Returns(c, Endpoint)
    /\ UNCHANGED <<file, port, entry, child, seen, owned, work>>

KeeperStops(c) ==
    /\ call[c].at = "ready" /\ IsRunning /\ Endpoint = NoPid
    /\ child' = Killed(child) /\ call' = [call EXCEPT ![c].at = "absent"]
    /\ UNCHANGED <<file, port, entry, seen, owned, work>>

KeeperLaunches(c) ==
    /\ \/ call[c].at = "ready" /\ ~IsRunning
       \/ call[c].at = "absent" /\ Absent /\ call[c].tries < 2
    /\ call' = [call EXCEPT ![c].copy = file,
                            ![c].at = IF file.there THEN "launching" ELSE "cdpwait"]
    /\ UNCHANGED <<file, port, entry, child, seen, owned, work>>

(* wait_for_cdp.                                                             *)
KeeperFindsCdp(c) ==
    /\ call[c].at = "cdpwait" /\ Endpoint # NoPid
    /\ Returns(c, Endpoint)
    /\ UNCHANGED <<file, port, entry, child, seen, owned, work>>

KeeperRetries(c) ==
    /\ call[c].at = "cdpwait" /\ Endpoint = NoPid
    /\ child' = Killed(child)
    /\ call' = [call EXCEPT ![c].at = "absent", ![c].tries = @ + 1]
    /\ UNCHANGED <<file, port, entry, seen, owned, work>>

(* Mutant: a preparation that has failed twice does not return.              *)
KeeperGivesUp_Never(c) == FALSE /\ UNCHANGED vars

(* wait_profile_absent gives up after five seconds; so does the preparation, *)
(* and after two attempts.                                                   *)
KeeperGivesUp(c) ==
    /\ \/ call[c].at \in {"absent", "unbinding"} /\ IsRunning
       \/ call[c].at = "absent" /\ ~IsRunning /\ call[c].tries = 2
    /\ Returns(c, NoPid)
    /\ UNCHANGED <<file, port, entry, child, seen, owned, work>>

(* account_keeper_delete_profile goes on after six seconds.                  *)
Gone == /\ file' = [file EXCEPT !.there = FALSE] /\ port' = NoPid
        /\ owned' = [owned EXCEPT !.gone = TRUE]

KeeperDeletes(c) ==
    /\ Asked("keeper_delete") /\ Free(c) /\ file.there
    /\ child' = Killed(child) /\ Begins(c, "deleting", "keeper_delete", FALSE)
    /\ UNCHANGED <<file, port, entry, seen, owned>>

KeeperErases(c) ==
    /\ call[c].at = "deleting" /\ Gone /\ Returns(c, NoPid)
    /\ UNCHANGED <<entry, child, seen, work>>

-----------------------------------------------------------------------------
(* The file: window and API.                                                 *)

(* edit_profile: load, test the new proxy over the network, save_raw, and    *)
(* set_folder when the request names one.                                    *)
EditLoads(c) ==
    /\ Asked("edit") /\ Free(c) /\ file.there
    /\ Begins(c, "testing", "edit", FALSE)
    /\ UNCHANGED <<file, port, entry, child, seen, owned>>

EditSaves(c, x) ==
    /\ call[c].at = "testing"
    /\ \/ file' = SaveRaw([call[c].copy EXCEPT !.bound = x], file) /\ UNCHANGED owned
       \/ \E f \in Folders :
              /\ "folder" \in work.allowed
              /\ file' = [SaveRaw([call[c].copy EXCEPT !.bound = x], file) EXCEPT !.folder = f]
              /\ owned' = [owned EXCEPT !.folder = f]
    /\ Returns(c, NoPid)
    /\ UNCHANGED <<port, entry, child, seen, work>>

Bind(x) ==
    /\ Asked("bind") /\ file.there
    /\ file' = SaveRaw([file EXCEPT !.bound = x], file)
    /\ UNCHANGED <<port, entry, child, seen, call, owned>>

SetPin ==
    /\ Asked("pin") /\ file.there
    /\ file' = [file EXCEPT !.pinned = ~@] /\ owned' = [owned EXCEPT !.pin = ~file.pinned]
    /\ UNCHANGED <<port, entry, child, seen, call>>

Refiled(f) == /\ file' = [file EXCEPT !.folder = f] /\ owned' = [owned EXCEPT !.folder = f]
              /\ UNCHANGED port

SetFolder(f) ==
    /\ Asked("folder") /\ file.there /\ Refiled(f)
    /\ UNCHANGED <<entry, child, seen, call>>

(* The folder the profile is in is renamed, or deleted with or without its   *)
(* profiles; nobody asks whether one of them runs.                           *)
RenameFolder(f) ==
    /\ Asked("rename_folder") /\ file.there /\ file.folder # "unfiled" /\ Refiled(f)
    /\ UNCHANGED <<entry, child, seen, call>>

DeleteFolder ==
    /\ Asked("delete_folder") /\ file.there /\ file.folder # "unfiled"
    /\ Refiled("unfiled") \/ Gone
    /\ UNCHANGED <<entry, child, seen, call>>

Delete ==
    /\ Asked("delete") /\ file.there /\ Gone
    /\ UNCHANGED <<entry, child, seen, call>>

(* cookies_import, of the window and of the API.                             *)
ImportCookies(c) ==
    /\ Asked("cookies") /\ Free(c) /\ entry = NoEntry
    /\ call' = [call EXCEPT ![c].cmd = "imported"]
    /\ UNCHANGED <<file, port, entry, child, seen, owned>>

-----------------------------------------------------------------------------
(* The application ends and is started again; its browsers live on, and      *)
(* purge_temporary deletes a temporary profile.                              *)
Restart ==
    /\ work.crashes > 0 /\ work' = [work EXCEPT !.crashes = @ - 1]
    /\ entry' = NoEntry /\ seen' = FALSE /\ call' = [c \in Callers |-> Idle]
    /\ child' = [p \in Pids |->
           [child[p] EXCEPT !.state = CASE @ \in {"up", "closing"} -> "orphan"
                                        [] @ = "ended" -> "gone"
                                        [] OTHER -> @]]
    /\ IF work.temporary THEN Gone ELSE UNCHANGED <<file, port, owned>>

CallerSteps(c) ==
    \/ LaunchSpawns(c) \/ LaunchFails(c) \/ LaunchReads(c) \/ LaunchTimesOut(c)
    \/ KeeperBinds(c) \/ KeeperReuses(c) \/ KeeperStops(c) \/ KeeperLaunches(c)
    \/ KeeperFindsCdp(c) \/ KeeperRetries(c) \/ KeeperGivesUp(c) \/ KeeperErases(c)
    \/ \E x \in Bindings : EditSaves(c, x)

TaskSteps(p) == BrowserCloses(p) \/ TaskEnds(p)

Next ==
    \/ \E c \in Callers : \/ ApiStarts(c) \/ WindowStarts(c) \/ KeeperOpens(c)
                          \/ KeeperDeletes(c) \/ EditLoads(c) \/ ImportCookies(c)
                          \/ \E x \in Proxies : KeeperPrepares(c, x)
                          \/ CallerSteps(c)
    \/ \E p \in Pids : BrowserWritesPort(p) \/ BrowserExits(p) \/ TaskSteps(p)
    \/ Kill \/ Poll \/ SetPin \/ Delete \/ DeleteFolder \/ Restart
    \/ \E x \in Bindings : Bind(x)
    \/ \E f \in Folders : SetFolder(f) \/ RenameFolder(f)

Spec == Init /\ [][Next]_vars

(* Every wait of a command is bounded by a timeout, and a task runs on.      *)
FairSpec == /\ Spec
            /\ \A c \in Callers : WF_vars(CallerSteps(c))
            /\ \A p \in Pids : WF_vars(TaskSteps(p))

-----------------------------------------------------------------------------
(* Properties.                                                               *)

TypeOK ==
    /\ file \in Files /\ port \in Pids \cup {NoPid}
    /\ entry \in [pid : Pids \cup {NoPid}, cdp : Pids \cup {NoPid}]
    /\ child \in [Pids -> [state : {"none", "up", "closing", "ended", "orphan", "gone"},
                           cdp : BOOLEAN, via : Bindings, asked : BOOLEAN]]
    /\ seen \in BOOLEAN
    /\ call \in [Callers ->
           [at : {"idle", "launching", "reading", "cdpwait", "absent", "ready", "binding",
                  "unbinding", "deleting", "testing"},
            cmd : {"none", "start", "launch", "open", "prepare", "keeper_delete", "edit",
                   "imported"},
            cdp : BOOLEAN, copy : Files, tries : 0 .. 2, want : Bindings,
            got : Pids \cup {NoPid}]]
    /\ owned \in [pin : BOOLEAN, folder : Folders, sessions : 0 .. MaxPids, gone : BOOLEAN]
    /\ work.commands \in Nat /\ work.crashes \in Nat

(* The API's start_profile asks nobody whether the profile runs, the window  *)
(* only its last poll, of up to two seconds ago; an edit saves the copy it    *)
(* held through a network test.                                              *)
Orderly == {"start", "launch"} \cap work.allowed = {} /\ work.callers = 1
Edits == "edit" \in work.allowed

(* As long as commands come one after the other and only the Account Keeper  *)
(* launches, a browser of this run of the application has the tracker's      *)
(* entry until it ends: it can be seen and stopped, and the profile has no   *)
(* second one (Tracker::track: an entry is removed on exit or kill).         *)
Tracked ==
    Orderly =>
        \A p \in Pids : child[p].state \in {"up", "closing"} => entry.pid = p

(* Under the same condition a browser closes only because its own stop was   *)
(* asked for: no launch or task closes another one's.                        *)
StaysUp ==
    Orderly => \A p \in Pids : child[p].state = "closing" => child[p].asked

(* Under the same condition the endpoint in an entry is that of the entry's  *)
(* own browser, however long set_cdp has waited for it.                      *)
EndpointFresh == Orderly => entry.cdp \in {NoPid, entry.pid}

(* As long as nobody edits the profile, its file counts every session,       *)
(* whatever copies launches and bindings save (add_runtime, save_raw).       *)
RuntimeCounted == ~Edits /\ file.there /\ ~owned.gone => file.runtime = owned.sessions

(* Only set_pin changes the pin of a profile, whatever copies are saved      *)
(* (save_raw).                                                               *)
PinOwned == file.there /\ ~owned.gone => file.pinned = owned.pin

(* As long as nobody edits it, a temporary profile is gone from the disk     *)
(* once a browser of it has closed.                                          *)
TemporaryLeaves ==
    work.temporary /\ ~Edits /\ (\E p \in Pids : child[p].state = "gone") => ~file.there

(* As long as commands come one after the other and only the Account Keeper  *)
(* launches, cookies are imported only while no browser of the profile runs, *)
(* which would write over them.                                              *)
ImportsAlone ==
    [][Orderly => \A c \in Callers : call'[c].cmd = "imported" /\ call[c].cmd # "imported" =>
           \A p \in Pids : child[p].state \notin {"up", "closing"}]_vars

(* Every browser that was asked to stop ends, and its task with it           *)
(* (Tracker::kill, the hard kill after five seconds).                        *)
Stopping == {p \in Pids : child[p].asked /\ child[p].state \notin {"gone", "orphan"}}

KillWorks == Stopping # {} ~> Stopping = {}

(* Every preparation answers: it connects or it reports a failure            *)
(* (prepare_profile_cdp: two attempts, every wait bounded).                  *)
Preparing == {c \in Callers : call[c].cmd = "prepare" /\ call[c].at # "idle"}

PrepareAnswers == Preparing # {} ~> Preparing = {}

(* Every variable has its type, and a browser keeps the tracker's entry, its  *)
(* endpoint and its life until its own stop is asked for (Tracker::track,    *)
(* set_cdp, kill).                                                           *)
BrowserKept == TypeOK /\ Tracked /\ StaysUp /\ EndpointFresh

(* What a profile's file says is the doing of those it belongs to, the        *)
(* tracker and set_pin, whatever copies are saved over it (save_raw).        *)
FileOwned == RuntimeCounted /\ PinOwned /\ TemporaryLeaves
=============================================================================
