----------------------------- MODULE VaultDesk -----------------------------
(***************************************************************************)
(* The commands that share the Account Keeper vault and its job files       *)
(* (account_keeper.rs, account_keeper_codex.rs, account_keeper_agent.rs).   *)
(*                                                                           *)
(* There is no lock on vault.bin.  A batch loads it once and writes its own *)
(* copy back after every event; a command loads it, may wait for a browser, *)
(* a network answer or a process to end, and writes its copy back.  Code    *)
(* without an await between a load and its save is one step here; a command *)
(* that waits in between is two steps, with its copy kept by the caller.    *)
(*                                                                           *)
(* A password is the number of the generation that minted it.  A Codex      *)
(* refresh token is numbered in the order of issue, and is spent once it    *)
(* has been exchanged for the next one.  A TOTP secret is numbered in the    *)
(* order in which the provider has shown it; 0 is none.                      *)
(***************************************************************************)
EXTENDS Naturals, FiniteSets

CONSTANTS
    Accounts,
    Callers,        \* commands under way at once that wait between load and save
    Workloads,      \* what the operator and the system do in one behaviour
    MaxJobs,        \* bound: batches ever started
    MaxMinted       \* bound: passwords of an account

(* The commands that are used; whether one may begin while another thing     *)
(* runs; how many accounts are imported; and the bounds: commands other than *)
(* a start, batches, and crashes of the application.                         *)
WorkloadRecords == [allowed : SUBSET STRING, overlap : BOOLEAN, accounts : Nat,
                    commands : Nat, jobs : 0 .. MaxJobs, crashes : Nat]

ASSUME DeskAssumption ==
    /\ MaxJobs \in Nat /\ MaxMinted \in Nat \ {0} /\ Workloads \subseteq WorkloadRecords
    /\ IsFiniteSet(Accounts)

Jobs == 1 .. MaxJobs
NoJob == 0
Processes == {"app", "agent"}
None == 0

VARIABLES
    vault,      \* vault.bin: the records and the Codex credentials
    file,       \* Jobs -> the job file
    batch,      \* Processes -> the batch its ACTIVE_BATCH names, and its copies
    call,       \* Callers -> the command under way and its copies
    real,       \* Accounts -> the password the provider accepts
    minted,     \* Accounts -> the last password generated
    totp,       \* Accounts -> the TOTP secret the provider asks, and the last it has shown
    issued,     \* Accounts -> the last Codex token issued
    spent,      \* Accounts -> the tokens that have been exchanged
    imported,   \* history: accounts some batch was started for
    dropped,    \* history: accounts removed on request since
    work        \* a workload, and what is left of its bounds

files    == <<vault, file>>
provider == <<real, minted, totp, issued, spent>>
history  == <<imported, dropped>>
vars == <<files, batch, call, provider, history, work>>

-----------------------------------------------------------------------------
(* Records, job files, copies.                                               *)

NoRecord == [pstate |-> "none", current |-> None, pending |-> None,
             secret |-> None, seen |-> FALSE, last |-> "none", job |-> NoJob]

Records == [pstate : {"none", "original", "changed", "unknown"},
            current : 0 .. MaxMinted, pending : 0 .. MaxMinted, secret : 0 .. MaxMinted,
            seen : BOOLEAN,
            last : {"none", "queued", "success", "failed", "critical", "cancelled",
                    "security_state_unknown"},
            job : Jobs \cup {NoJob}]

(* change: the secret of pending_security_changes.                           *)
Vaults == [rec : [Accounts -> Records], token : [Accounts -> Nat],
           change : [Accounts -> 0 .. MaxMinted]]

EmptyVault == [rec |-> [a \in Accounts |-> NoRecord], token |-> [a \in Accounts |-> None],
               change |-> [a \in Accounts |-> None]]

TerminalStates == {"success", "failed", "critical", "cancelled"}

JobFiles == [status : {"none", "queued", "running", "completed", "failed", "critical",
                       "cancelled", "paused"},
             op : {"none", "change_password", "change_totp"},
             acct : [Accounts -> {"none", "queued", "changing"} \cup TerminalStates]]

NoFile == [status |-> "none", op |-> "none", acct |-> [a \in Accounts |-> "none"]]

Open(ck) == {a \in Accounts : ck.acct[a] \in {"queued", "changing"}}
Members(ck) == {a \in Accounts : ck.acct[a] # "none"}
With(ck, state) == {a \in Accounts : ck.acct[a] = state}

(* Mutant: an account the vault no longer has gets a record.                 *)
Marked_Any(r, state) == [r EXCEPT !.last = state]

Marked(r, state) == IF r = NoRecord THEN r ELSE [r EXCEPT !.last = state]

(* is_verified_managed_account.                                              *)
IsManaged(r) == r.last = "success" /\ r.seen

(* final_job_status.                                                         *)
FinalStatus(ck) ==
    CASE With(ck, "critical") # {} -> "critical"
      [] With(ck, "critical") = {} /\ With(ck, "failed") # {} -> "failed"
      [] OTHER -> "completed"

(* remove_managed_account.                                                   *)
Without(v, a) == [v EXCEPT !.rec[a] = NoRecord, !.token[a] = None]

Off == [at |-> "off", job |-> NoJob, acct |-> {}, mem |-> EmptyVault, ck |-> NoFile]

Idle == [at |-> "idle", acct |-> {}, job |-> NoJob, mem |-> EmptyVault, ck |-> NoFile,
         left |-> {}]

Quiet == /\ \A p \in Processes : batch[p].at = "off"
         /\ \A c \in Callers : call[c].at = "idle"

(* A command of the desk: it is part of the instance, and begins alone       *)
(* unless commands may overlap.                                              *)
Asked(command) ==
    /\ command \in work.allowed /\ (work.overlap \/ Quiet)
    /\ work.commands > 0 /\ work' = [work EXCEPT !.commands = @ - 1]

(* The application runs no batch at all, or not this one.                    *)
NoneActive == batch["app"].at = "off"
NotActive(j) == batch["app"].job # j

-----------------------------------------------------------------------------
Init ==
    /\ vault = EmptyVault /\ file = [j \in Jobs |-> NoFile]
    /\ batch = [p \in Processes |-> Off] /\ call = [c \in Callers |-> Idle]
    /\ real = [a \in Accounts |-> 1] /\ minted = [a \in Accounts |-> 1]
    /\ totp = [a \in Accounts |-> [asked |-> 1, shown |-> 1]]
    /\ issued = [a \in Accounts |-> None] /\ spent = [a \in Accounts |-> {}]
    /\ imported = {} /\ dropped = {}
    /\ work \in Workloads

-----------------------------------------------------------------------------
(* Batches.                                                                  *)

(* merge_imports_and_checkpoint: the operator's input names the password the *)
(* provider accepts and the secret it asks.                                  *)
Importable(v, S) == \A a \in S : v.rec[a].pstate # "unknown"

Merged(v, S, j) ==
    [v EXCEPT !.rec = [a \in Accounts |->
        IF a \notin S THEN v.rec[a]
        ELSE [v.rec[a] EXCEPT !.pstate = "original", !.current = real[a],
                              !.secret = totp[a].asked, !.last = "queued", !.job = j]],
              !.change = [a \in Accounts |-> IF a \in S THEN None ELSE v.change[a]]]

(* prepare_new_batch, once the process has claimed its own ACTIVE_BATCH.     *)
Prepare(p, S, op) ==
    LET j == MaxJobs - work.jobs + 1
        ck == [status |-> "queued", op |-> op,
               acct |-> [a \in Accounts |-> IF a \in S THEN "queued" ELSE "none"]]
    IN
    /\ Cardinality(imported \cup S) <= work.accounts
    /\ work.jobs > 0 /\ (work.overlap \/ Quiet)
    /\ batch[p].at = "off" /\ Importable(vault, S)
    /\ vault' = Merged(vault, S, j) /\ file' = [file EXCEPT ![j] = ck]
    /\ batch' = [batch EXCEPT ![p] = [Off EXCEPT !.at = "spawned", !.job = j]]
    /\ work' = [work EXCEPT !.jobs = @ - 1]
    /\ imported' = imported \cup S /\ dropped' = dropped \ S
    /\ UNCHANGED <<call, provider>>

Operations == {"change_password"} \cup ({"change_totp"} \cap work.allowed)

Start(S) == "start" \in work.allowed /\ \E op \in Operations : Prepare("app", S, op)

(* run_agent, a process of its own: its ACTIVE_BATCH is not the application's. *)
AgentStarts(S) == "agent" \in work.allowed /\ \E op \in Operations : Prepare("agent", S, op)

(* resume_job: resume_state_after_restart knows no stage of a security job.   *)
Resume(j) ==
    LET ck == file[j] IN
    /\ Asked("resume") /\ NoneActive
    /\ ck.status \notin {"none", "critical", "completed"}
    /\ With(ck, "critical") = {} /\ Open(ck) # {}
    /\ ck.op = "change_totp" => With(ck, "changing") = {}
    /\ \A a \in Members(ck) : vault.rec[a].pstate # "unknown"
    /\ \A a \in Open(ck) : vault.rec[a].pstate # "none"
    /\ vault' = [vault EXCEPT !.rec = [a \in Accounts |->
                    IF a \in Open(ck) THEN [@[a] EXCEPT !.last = "queued", !.job = j] ELSE @[a]]]
    /\ file' = [file EXCEPT ![j] =
                   [ck EXCEPT !.status = "queued",
                       !.acct = [a \in Accounts |-> IF a \in Open(ck) THEN "queued" ELSE @[a]]]]
    /\ batch' = [batch EXCEPT !["app"] = [Off EXCEPT !.at = "spawned", !.job = j]]
    /\ UNCHANGED <<call, provider, history>>

(* persist_snapshot with the batch's own copies.                             *)
Persist(p, at, acct, mem, ck) ==
    /\ vault' = mem /\ file' = [file EXCEPT ![batch[p].job] = ck]
    /\ batch' = [batch EXCEPT ![p] = IF at = "off" THEN Off
                     ELSE [@ EXCEPT !.at = at, !.acct = acct, !.mem = mem, !.ck = ck]]
    /\ UNCHANGED <<call, history, work>>

BatchLoads(p) ==
    /\ batch[p].at = "spawned" /\ file[batch[p].job] # NoFile
    /\ Persist(p, "next", {}, vault, [file[batch[p].job] EXCEPT !.status = "running"])
    /\ UNCHANGED provider

Settled(p, a, record, state) ==
    <<[batch[p].mem EXCEPT !.rec[a] = record], [batch[p].ck EXCEPT !.acct[a] = state]>>

(* What the worker signs in with.                                            *)
Accepted(r, password, a) == real[a] = password /\ totp[a].asked \in {None, r.secret}

(* The worker has signed in with the current password and asks to submit the *)
(* generated one; the attempt is recorded first.                             *)
Attempt(r, password) == [r EXCEPT !.pstate = "unknown", !.pending = password]

BatchAuthorizes(p, a) ==
    LET s == Settled(p, a, Attempt(batch[p].mem.rec[a], minted[a] + 1), "changing") IN
    /\ batch[p].at = "next" /\ batch[p].ck.acct[a] = "queued"
    /\ batch[p].ck.op = "change_password"
    /\ Accepted(batch[p].mem.rec[a], batch[p].mem.rec[a].current, a)
    /\ minted[a] < MaxMinted /\ minted' = [minted EXCEPT ![a] = @ + 1]
    /\ Persist(p, "authorized", {a}, s[1], s[2])
    /\ UNCHANGED <<real, totp, issued, spent>>

ProviderAccepts(p, a) ==
    /\ batch[p].at = "authorized" /\ a \in batch[p].acct
    /\ real[a] = batch[p].mem.rec[a].current
    /\ real' = [real EXCEPT ![a] = minted[a]]
    /\ UNCHANGED <<files, batch, call, minted, totp, issued, spent, history, work>>

BatchVerifies(p, a) ==
    LET r == batch[p].mem.rec[a]
        s == Settled(p, a, [r EXCEPT !.pstate = "changed", !.current = r.pending, !.pending = None,
                                     !.seen = TRUE, !.last = "success"], "success")
    IN
    /\ batch[p].at = "authorized" /\ a \in batch[p].acct /\ real[a] = r.pending
    /\ Persist(p, "next", {}, s[1], s[2])
    /\ UNCHANGED provider

(* change_totp: the page is open; nothing has been changed yet.               *)
TotpOpens(p, a) ==
    /\ batch[p].at = "next" /\ batch[p].ck.acct[a] = "queued" /\ batch[p].ck.op = "change_totp"
    /\ Accepted(batch[p].mem.rec[a], batch[p].mem.rec[a].current, a)
    /\ Persist(p, "opened", {a}, batch[p].mem, [batch[p].ck EXCEPT !.acct[a] = "changing"])
    /\ UNCHANGED provider

(* TotpDisableRequired: that the change has begun is recorded first.          *)
TotpAuthorizes(p, a) ==
    /\ batch[p].at = "opened" /\ a \in batch[p].acct /\ totp[a].asked # None
    /\ Persist(p, "disabling", {a},
               [batch[p].mem EXCEPT !.rec[a].last = "security_state_unknown"], batch[p].ck)
    /\ UNCHANGED provider

(* The provider's page asks for the old code and a confirmation first.        *)
ProviderDisables(p, a) ==
    /\ batch[p].at = "disabling" /\ a \in batch[p].acct /\ totp[a].asked # None
    /\ totp[a].asked = batch[p].mem.rec[a].secret
    /\ totp' = [totp EXCEPT ![a].asked = None]
    /\ UNCHANGED <<files, batch, call, real, minted, issued, spent, history, work>>

(* Mutant: the new secret is answered with a code and not recorded.           *)
Enrolled_Unrecorded(v, a) == v

Enrolled(v, a) == [v EXCEPT !.change[a] = totp[a].shown + 1]

(* TotpEnrollmentSecret: the secret that the page shows is recorded before    *)
(* its code is sent.                                                         *)
TotpEnrolls(p, a) ==
    /\ batch[p].at \in {"opened", "disabling"} /\ a \in batch[p].acct
    /\ totp[a].asked = None /\ totp[a].shown < MaxMinted
    /\ totp' = [totp EXCEPT ![a].shown = @ + 1]
    /\ Persist(p, "enrolling", {a}, Enrolled(batch[p].mem, a), batch[p].ck)
    /\ UNCHANGED <<real, minted, issued, spent>>

ProviderEnrolls(p, a) ==
    /\ batch[p].at = "enrolling" /\ a \in batch[p].acct /\ totp[a].asked = None
    /\ totp' = [totp EXCEPT ![a].asked = totp[a].shown]
    /\ UNCHANGED <<files, batch, call, real, minted, issued, spent, history, work>>

(* Mutant: the pending change is dropped and not taken over.                  *)
Adopted_Dropped(v, a) ==
    [v EXCEPT !.rec[a].seen = TRUE, !.rec[a].last = "success", !.change[a] = None]

Adopted(v, a) ==
    [v EXCEPT !.rec[a].secret = v.change[a], !.rec[a].seen = TRUE, !.rec[a].last = "success",
              !.change[a] = None]

(* Verified, of a security operation.                                        *)
TotpVerifies(p, a) ==
    /\ batch[p].at = "enrolling" /\ a \in batch[p].acct /\ totp[a].asked = totp[a].shown
    /\ Persist(p, "next", {}, Adopted(batch[p].mem, a), [batch[p].ck EXCEPT !.acct[a] = "success"])
    /\ UNCHANGED provider

(* A failure before the change has begun; security_failure_is_critical says   *)
(* of a later one that nobody knows (BatchIsUnsure).                          *)
TotpFails(p, a) ==
    LET s == Settled(p, a, [batch[p].mem.rec[a] EXCEPT !.last = "failed"], "failed") IN
    /\ batch[p].at = "opened" /\ a \in batch[p].acct
    /\ Persist(p, "next", {}, s[1], s[2])
    /\ UNCHANGED provider

(* An outcome nobody knows: the account is critical and the batch stops.     *)
BatchIsUnsure(p, a) ==
    LET s == Settled(p, a, [batch[p].mem.rec[a] EXCEPT !.last = "critical"], "critical") IN
    /\ batch[p].at \in {"authorized", "disabling", "enrolling"} /\ a \in batch[p].acct
    /\ Persist(p, "off", {}, s[1], [s[2] EXCEPT !.status = "critical"])
    /\ UNCHANGED provider

BatchFails(p, a) ==
    LET s == Settled(p, a, [batch[p].mem.rec[a] EXCEPT !.last = "failed"], "failed") IN
    /\ batch[p].at = "next" /\ batch[p].ck.acct[a] = "queued"
    /\ batch[p].mem.rec[a] # NoRecord
    /\ Persist(p, "next", {}, s[1], s[2])
    /\ UNCHANGED provider

(* mark_job_run_error: the coordinator's run ended in error.                 *)
BatchErrs(p, a) ==
    LET ck == file[batch[p].job]
        state == IF vault.rec[a].pstate = "unknown" THEN "critical" ELSE "failed"
    IN
    /\ batch[p].at \notin {"off", "spawned"} /\ a \in Open(ck)
    /\ batch[p].at # "next" => a \in batch[p].acct
    /\ Persist(p, "off", {},
               [vault EXCEPT !.rec[a] = Marked(@, state)],
               [ck EXCEPT !.status = state, !.acct[a] = state])
    /\ UNCHANGED provider

(* Every account has a verdict, or the operator has asked for a pause.       *)
BatchEnds(p) ==
    /\ batch[p].at = "next"
    /\ Persist(p, "off", {}, batch[p].mem,
               [batch[p].ck EXCEPT !.status = IF Open(batch[p].ck) = {}
                                              THEN FinalStatus(batch[p].ck) ELSE "paused"])
    /\ UNCHANGED provider

BatchFindsNoFile(p) ==
    /\ batch[p].at = "spawned" /\ file[batch[p].job] = NoFile
    /\ batch' = [batch EXCEPT ![p] = Off]
    /\ UNCHANGED <<files, call, provider, history, work>>

-----------------------------------------------------------------------------
(* Commands without an await between their load and their save.              *)

(* cancel_inactive_job.                                                      *)
(* Mutant: an unknown password does not make the account critical.           *)
CancelledAs_Plain(v, a) == "cancelled"

CancelledAs(v, a) == IF v.rec[a].pstate = "unknown" THEN "critical" ELSE "cancelled"

CancelInactive(j) ==
    LET ck == file[j]
        acct == [a \in Accounts |-> IF a \in Open(ck) THEN CancelledAs(vault, a) ELSE ck.acct[a]]
    IN
    /\ Asked("cancel") /\ NotActive(j) /\ ck # NoFile
    /\ vault' = [vault EXCEPT !.rec = [a \in Accounts |->
                    IF a \in Open(ck) THEN Marked(@[a], acct[a]) ELSE @[a]]]
    /\ file' = [file EXCEPT ![j] =
                   [ck EXCEPT !.status = IF \E a \in Accounts : acct[a] = "critical"
                                         THEN "critical" ELSE "cancelled",
                              !.acct = acct]]
    /\ UNCHANGED <<batch, call, provider, history>>

(* account_keeper_abandon_job.                                               *)
Abandon(j) ==
    /\ Asked("abandon") /\ NotActive(j) /\ file[j] # NoFile
    /\ file' = [file EXCEPT ![j] = NoFile]
    /\ UNCHANGED <<vault, batch, call, provider, history>>

(* account_keeper_clean_progress.                                            *)
Forgotten(v, ck) == {a \in Members(ck) : v.rec[a].pstate = "unknown"}

Clean(j) ==
    LET gone == Forgotten(vault, file[j]) IN
    /\ Asked("clean") /\ NotActive(j)
    /\ file[j].status \in {"completed", "failed", "cancelled"}
    /\ vault' = [vault EXCEPT !.rec = [a \in Accounts |-> IF a \in gone THEN NoRecord ELSE @[a]]]
    /\ file' = [file EXCEPT ![j] = NoFile]
    /\ dropped' = dropped \cup gone
    /\ UNCHANGED <<batch, call, provider, imported>>

(* The task of start_codex_oauth_browser_session, once it has a credential.  *)
SessionConnects(a) ==
    /\ Asked("session") /\ IsManaged(vault.rec[a])
    /\ issued' = [issued EXCEPT ![a] = @ + 1]
    /\ vault' = [vault EXCEPT !.token[a] = issued[a] + 1]
    /\ UNCHANGED <<file, batch, call, real, minted, totp, spent, history>>

-----------------------------------------------------------------------------
(* Commands that wait between their load and their save.                     *)

Loads(c, at, S, j, left) ==
    /\ call[c].at = "idle"
    /\ call' = [call EXCEPT ![c] = [at |-> at, acct |-> S, job |-> j, mem |-> vault,
                                 ck |-> IF j = NoJob THEN NoFile ELSE file[j],
                                 left |-> left]]
    /\ UNCHANGED <<files, batch, provider, history>>

(* What inspect_headless_recovery and resolve_critical ask of the vault.      *)
HasAttempt(a) == vault.rec[a].pstate = "unknown" /\ vault.rec[a].pending # None

(* resolve_critical keeps its copies of the vault and of the job; the agent's *)
(* recovery loads the job after the sign-in.  That no batch is active is      *)
(* checked once, before the load.                                            *)
ResolveLoads(c, a, j) ==
    /\ Asked("resolve") /\ NoneActive
    /\ HasAttempt(a) /\ file[j].acct[a] = "critical"
    /\ Loads(c, "resolve", {a}, j, {})

(* account_keeper_agent::run_agent after a batch that ended critical, or one *)
(* refused for an unknown password: recover_headless_pending_credentials.    *)
AgentLoads(c, a) ==
    /\ Asked("recover") /\ batch["agent"].at = "off"
    /\ HasAttempt(a) /\ vault.rec[a].job # NoJob
    /\ Loads(c, "recover", {a}, vault.rec[a].job, {})

(* verify_headless_password has signed in with the attempted password.       *)
SignsIn(c, a) == Accepted(call[c].mem.rec[a], call[c].mem.rec[a].pending, a)

Resolved(v, a) ==
    [v EXCEPT !.rec[a] = [@ EXCEPT !.pstate = "changed", !.current = v.rec[a].pending,
                                   !.pending = None, !.seen = TRUE,
                                   !.last = "success"]]

ResolvedFile(ck, a) ==
    LET after == [ck EXCEPT !.acct[a] = "success"] IN [after EXCEPT !.status = FinalStatus(after)]

ResolveSaves(c, a) ==
    LET j == call[c].job
        ck == IF call[c].at = "resolve" THEN call[c].ck ELSE file[j]
    IN
    /\ call[c].at \in {"resolve", "recover"} /\ a \in call[c].acct /\ SignsIn(c, a)
    /\ ck.acct[a] = "critical"
    /\ vault' = Resolved(call[c].mem, a)
    /\ file' = [file EXCEPT ![j] = ResolvedFile(ck, a)]
    /\ call' = [call EXCEPT ![c] = Idle]
    /\ UNCHANGED <<batch, provider, history, work>>

(* account_keeper_delete_profile: the browser is stopped and waited for.     *)
DeleteLoads(c, a) ==
    /\ Asked("delete") /\ NoneActive
    /\ vault.rec[a].pstate = "changed" /\ vault.rec[a].last = "success"
    /\ Loads(c, "delete", {a}, NoJob, {})

DeleteSaves(c, a) ==
    /\ call[c].at = "delete" /\ a \in call[c].acct
    /\ vault' = Without(call[c].mem, a) /\ dropped' = dropped \cup {a}
    /\ call' = [call EXCEPT ![c] = Idle]
    /\ UNCHANGED <<file, batch, provider, imported, work>>

(* connect_codex: a browser, a callback of up to five minutes, an exchange.  *)
ConnectLoads(c, a) ==
    /\ Asked("connect") /\ IsManaged(vault.rec[a])
    /\ Loads(c, "connect", {a}, NoJob, {})

ConnectSaves(c, a) ==
    /\ call[c].at = "connect" /\ a \in call[c].acct
    /\ issued' = [issued EXCEPT ![a] = @ + 1]
    /\ vault' = [call[c].mem EXCEPT !.token[a] = issued[a] + 1]
    /\ call' = [call EXCEPT ![c] = Idle]
    /\ UNCHANGED <<file, batch, real, minted, totp, spent, history, work>>

(* account_keeper_codex_export_accounts: one refresh after another, and one  *)
(* save when all have succeeded.                                             *)
ExportLoads(c) ==
    LET ready == {a \in Accounts : IsManaged(vault.rec[a]) /\ vault.token[a] # None} IN
    /\ Asked("export") /\ ready # {}
    /\ Loads(c, "export", ready, NoJob, ready)

ExportRefreshes(c, a) ==
    /\ call[c].at = "export" /\ a \in call[c].left
    /\ call[c].mem.token[a] \notin spent[a]
    /\ spent' = [spent EXCEPT ![a] = @ \cup {call[c].mem.token[a]}]
    /\ issued' = [issued EXCEPT ![a] = @ + 1]
    /\ call' = [call EXCEPT ![c].left = @ \ {a}, ![c].mem.token[a] = issued[a] + 1]
    /\ UNCHANGED <<files, batch, real, minted, totp, history, work>>

(* Mutant: the refreshed credentials are exported but not saved.             *)
Exported_Unsaved(c) == vault

Exported(c) == call[c].mem

ExportSaves(c) ==
    /\ call[c].at = "export" /\ call[c].left = {}
    /\ vault' = Exported(c)
    /\ call' = [call EXCEPT ![c] = Idle]
    /\ UNCHANGED <<file, batch, provider, history, work>>

(* The sign-in, the callback, the exchange or a refresh fails: nothing is    *)
(* saved.  A refused refresh is part of the instance or not.                 *)
GivesUp(c) ==
    /\ \/ call[c].at \in {"resolve", "recover", "connect"}
       \/ /\ call[c].at = "export"
          /\ \/ "refuse" \in work.allowed /\ call[c].left # {}
             \/ \E a \in call[c].left : call[c].mem.token[a] \in spent[a]
    /\ call' = [call EXCEPT ![c] = Idle]
    /\ UNCHANGED <<files, batch, provider, history, work>>

-----------------------------------------------------------------------------
(* The application ends at any moment; the agent is a process of its own.    *)
Crash ==
    /\ work.crashes > 0 /\ work' = [work EXCEPT !.crashes = @ - 1]
    /\ batch' = [batch EXCEPT !["app"] = Off]
    /\ call' = [c \in Callers |-> IF call[c].at = "recover" THEN call[c] ELSE Idle]
    /\ UNCHANGED <<files, provider, history>>

BatchSteps(p) ==
    \/ BatchLoads(p) \/ BatchEnds(p) \/ BatchFindsNoFile(p)
    \/ \E a \in Accounts : \/ BatchAuthorizes(p, a) \/ ProviderAccepts(p, a)
                           \/ BatchVerifies(p, a) \/ BatchIsUnsure(p, a) \/ BatchFails(p, a)
                           \/ BatchErrs(p, a)
                           \/ TotpOpens(p, a) \/ TotpAuthorizes(p, a) \/ ProviderDisables(p, a)
                           \/ TotpEnrolls(p, a) \/ ProviderEnrolls(p, a) \/ TotpVerifies(p, a)
                           \/ TotpFails(p, a)

CallerSteps(c) ==
    \/ ExportLoads(c) \/ ExportSaves(c) \/ GivesUp(c)
    \/ \E a \in Accounts :
           \/ AgentLoads(c, a) \/ ResolveSaves(c, a) \/ DeleteLoads(c, a) \/ DeleteSaves(c, a)
           \/ ConnectLoads(c, a) \/ ConnectSaves(c, a) \/ ExportRefreshes(c, a)
           \/ \E j \in Jobs : ResolveLoads(c, a, j)

Next ==
    \/ \E p \in Processes : BatchSteps(p)
    \/ \E S \in SUBSET Accounts \ {{}} : Start(S) \/ AgentStarts(S)
    \/ \E j \in Jobs : Resume(j) \/ CancelInactive(j) \/ Abandon(j) \/ Clean(j)
    \/ \E a \in Accounts : SessionConnects(a)
    \/ \E c \in Callers : CallerSteps(c)
    \/ Crash

Spec == Init /\ [][Next]_vars

-----------------------------------------------------------------------------
(* Properties.                                                               *)

TypeOK ==
    /\ vault \in Vaults /\ file \in [Jobs -> JobFiles]
    /\ batch \in [Processes ->
           [at : {"off", "spawned", "next", "authorized", "opened", "disabling", "enrolling"},
            job : Jobs \cup {NoJob},
            acct : SUBSET Accounts, mem : Vaults, ck : JobFiles]]
    /\ call \in [Callers ->
           [at : {"idle", "resolve", "recover", "delete", "connect", "export"},
            acct : SUBSET Accounts, job : Jobs \cup {NoJob}, mem : Vaults, ck : JobFiles,
            left : SUBSET Accounts]]
    /\ real \in [Accounts -> 1 .. MaxMinted] /\ minted \in [Accounts -> 1 .. MaxMinted]
    /\ totp \in [Accounts -> [asked : 0 .. MaxMinted, shown : 1 .. MaxMinted]]
    /\ issued \in [Accounts -> Nat] /\ spent \in [Accounts -> SUBSET Nat]
    /\ imported \subseteq Accounts /\ dropped \subseteq Accounts
    /\ work.commands \in Nat /\ work.jobs \in 0 .. MaxJobs /\ work.crashes \in Nat

(* The vault never loses an account's password: unless the account was       *)
(* deleted or forgotten on request, a password called known is the           *)
(* provider's, and of an unknown one the current or the attempted is.  Every *)
(* save of a whole vault (persist_snapshot, save_vault) can break it.        *)
Recoverable ==
    \A a \in imported \ dropped :
        LET r == vault.rec[a] IN
        \/ r.pstate \in {"original", "changed"} /\ real[a] = r.current
        \/ r.pstate = "unknown" /\ real[a] \in {r.current, r.pending}

(* As long as a command or a batch begins when nothing else runs, and nobody *)
(* abandons a job, an account of unknown password has a way back: some job   *)
(* file still shows it critical, for Verify & Resolve, or open, for Cancel   *)
(* to make it critical.  import, resume and delete all refuse such an        *)
(* account.                                                                  *)
NoDeadEnd ==
    ~work.overlap /\ "abandon" \notin work.allowed => \A a \in Accounts : vault.rec[a].pstate = "unknown" =>
        \E j \in Jobs : file[j].acct[a] \in {"critical", "changing", "queued"}

(* The secret that the provider asks of an account is never only on a page    *)
(* that a worker has left: the vault has it, as the account's or as the       *)
(* pending change's, wherever a change of it was cut off (TotpDisableRequired,*)
(* TotpEnrollmentSecret).                                                    *)
SecretKept ==
    \A a \in imported \ dropped :
        totp[a].asked \in {None, vault.rec[a].secret, vault.change[a]}

(* An account that the vault calls successful signs in with what the vault    *)
(* says of it, through every sequence of jobs, cancellations, crashes and     *)
(* resumes (the Verified event, merge_imports_and_checkpoint).                *)
SuccessSignsIn ==
    \A a \in imported \ dropped : vault.rec[a].last = "success" =>
        Accepted(vault.rec[a], vault.rec[a].current, a)

(* The credential in the vault is one the issuer still accepts, whenever no  *)
(* command is under way (account_keeper_codex_export_accounts and the two    *)
(* ways to connect).                                                         *)
TokenUsable ==
    Quiet => \A a \in Accounts : vault.token[a] \notin spent[a]

(* As long as a command or a batch begins when nothing else runs, an account *)
(* removed from the vault comes back by an import only, never because an     *)
(* older copy of the vault is written.                                       *)
NoResurrection ==
    [][~work.overlap => \A a \in Accounts :
           vault.rec[a] = NoRecord /\ vault'.rec[a] # NoRecord => a \notin dropped']_vars

(* Under the same condition, a credential that was stored is replaced by a   *)
(* newer one or leaves with its record: no batch or command puts an older    *)
(* one in its place.                                                         *)
ConnectedStays ==
    [][~work.overlap => \A a \in Accounts :
           \/ vault'.token[a] >= vault.token[a]
           \/ vault'.rec[a] = NoRecord]_vars

(* Every variable has its type, and neither a password nor a TOTP secret that *)
(* the provider asks for is lost, whatever ends a batch or a command          *)
(* (persist_snapshot, save_vault).                                           *)
CredentialsKept == TypeOK /\ Recoverable /\ SecretKept

(* What was removed from the vault or replaced in it does not come back: no   *)
(* older copy of it is written (account_keeper_delete_profile,               *)
(* persist_codex_credential, persist_snapshot).                              *)
NothingReturns == NoResurrection /\ ConnectedStays
=============================================================================
