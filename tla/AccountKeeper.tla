--------------------------- MODULE AccountKeeper ----------------------------
(***************************************************************************)
(* One Account Keeper batch from start to finish: the coordinator task      *)
(* (run_batch and process_account in src-tauri/src/account_keeper.rs), the   *)
(* Node worker it drives over two pipes (automation/account-keeper-flow.mjs  *)
(* and account-keeper-worker-runtime.mjs), the operator's controls, the two  *)
(* files the coordinator persists (DPAPI vault and job checkpoint), and the  *)
(* provider whose password is being changed.                                 *)
(*                                                                           *)
(* The application may die at any step and be restarted with an explicit     *)
(* resume; any persist may fail; the worker may die or have a line rejected. *)
(* Both pipes keep their order and deliver whole lines.                      *)
(***************************************************************************)
EXTENDS AccountState, Sequences, Functions

CONSTANTS
    NumAccounts,     \* accounts of the batch, processed in the order of their index
    Operation,       \* StartRequest.operation: "change_password" or "login"
    Secrets,         \* the accounts whose vault record has a TOTP secret
    AssignProxy,     \* whether the batch binds a proxy to each profile
    MaxChallenges,   \* bound: TOTP and manual challenges per worker session
    MaxControls,     \* bound: operator commands
    MaxFaults,       \* bound: crashes, failed saves, dead workers, rejected lines
    MaxResumes       \* bound: explicit resumes

Accounts == 1 .. NumAccounts

ASSUME NumAccountsAssumption == NumAccounts \in Nat \ {0}
ASSUME OperationAssumption == Operation \in {"change_password", "login"}
ASSUME SecretsAssumption == Secrets \subseteq Accounts
ASSUME AssignProxyAssumption == AssignProxy \in BOOLEAN
ASSUME BoundsAssumption == /\ MaxChallenges \in Nat /\ MaxControls \in Nat
                           /\ MaxFaults \in Nat     /\ MaxResumes \in Nat

VARIABLES
    \* on disk
    vault,      \* vault.bin: Accounts -> VaultRecords
    ckpt,       \* jobs/<batch_id>.json
    \* the coordinator task, idle when no batch is claimed
    pc, after,  \* where run_batch is; where it goes once both files are saved
    idx,        \* account_index
    mc,         \* the checkpoint in memory (the vault in memory equals the one on disk)
    rs,         \* AccountRunState of the account in hand
    retries,    \* [nav, crash]: navigation_retries, crash_restarts
    waiting,    \* waiting_manual
    ctl,        \* the JobControl channel
    \* the worker process and the two pipes
    wpc, wback, \* where the flow is; the loop a challenge returns to
    wacct,      \* the account it was started for
    wsub,       \* credentialState.unknown
    wcancel,    \* CommandControl.cancelled
    chal,       \* challenges this session may still meet (bound)
    linked,     \* the coordinator still holds the session's pipes
    evq, cmdq,  \* worker stdout; worker stdin
    \* the provider
    provider, inflight,
    minted,     \* the last password generated for each account
    \* bounds
    faults, resumes, controls

diskVars     == <<vault, ckpt>>
taskVars     == <<idx, mc, rs, retries, waiting, ctl>>
workerVars   == <<wpc, wback, wacct, wsub, wcancel, chal>>
pipeVars     == <<linked, evq, cmdq>>
providerVars == <<provider, inflight, minted>>
boundVars    == <<faults, resumes, controls>>
vars == <<diskVars, pc, after, taskVars, workerVars, pipeVars, providerVars, boundVars>>

JobStatuses == {"queued", "running", "paused", "waiting_manual",
                "completed", "failed", "critical", "cancelled"}

Checkpoints == [status : JobStatuses, st : [Accounts -> Stages],
                pause : BOOLEAN, assign : [Accounts -> BOOLEAN]]

Codes == {"navigation_failed", "browser_crashed", "verification_failed",
          "credential_state_unknown", "cancelled", "protocol_error",
          "launch_failed", "manual_marked_failed", "flow_changed"}

Events == [kind : {"stage"}, arg : Stages]
            \cup [kind : {"failed"}, arg : Codes]
            \cup [kind : {"totp_required", "manual_required", "password_submit_required",
                          "password_changed", "verified"}, arg : {""}]

Event(kind) == [kind |-> kind, arg |-> ""]
StageEvent(stage) == [kind |-> "stage", arg |-> stage]
FailedEvent(code) == [kind |-> "failed", arg |-> code]

Commands == {"totp_code", "submit_password", "resume", "cancel"}

Controls == [kind : {"pause", "cancel"}, acct : {0}]
              \cup [kind : {"continue", "mark_failed"}, acct : Accounts]

AliveWorker == wpc \notin {"off", "out"}

-----------------------------------------------------------------------------
(* Checkpoint arithmetic shared by the actions.                              *)

RecordStage(c, a, stage) == [c EXCEPT !.st[a] = stage]

AnyIn(c, stage) == \E a \in Accounts : c.st[a] = stage

FinalStatus(c) ==
    IF AnyIn(c, "critical") THEN "critical"
    ELSE IF AnyIn(c, "waiting_manual") THEN "waiting_manual"
    ELSE IF AnyIn(c, "failed") THEN "failed"
    ELSE "completed"

(* The sweep of cancel_remaining_accounts and of cancel_inactive_job: every  *)
(* account from `first` on that is not terminal is cancelled, or critical    *)
(* when the vault does not know its password.                                *)
(* Mutant: finished accounts are swept too.                                  *)
CancelFrom_Finished(c, first, critical) ==
    [c EXCEPT !.st = [a \in Accounts |-> IF a >= first THEN "cancelled" ELSE c.st[a]],
              !.status = "cancelled"]

CancelFrom(c, first, critical) ==
    LET swept == {a \in Accounts : a >= first /\ c.st[a] \notin TerminalStages}
        unknown == {a \in swept : vault[a].pstate = "unknown"}
        st == [a \in Accounts |-> IF a \in unknown THEN "critical"
                                  ELSE IF a \in swept THEN "cancelled"
                                  ELSE c.st[a]]
    IN [c EXCEPT !.st = st,
                 !.status = IF critical \/ \E a \in first .. NumAccounts : st[a] = "critical"
                            THEN "critical" ELSE "cancelled"]

CancelRemaining(c, first) == CancelFrom(c, first, c.status = "critical")

CancelInactive(c) == CancelFrom(c, 1, FALSE)

(* persist_snapshot: the vault reaches the disk first, the checkpoint in a   *)
(* step of its own (SaveCheckpoint), then the task goes on at `next`.        *)
Persist(v, c, next) ==
    /\ vault' = v
    /\ mc' = c
    /\ pc' = "save"
    /\ after' = next

(* Dropping the session kills the worker (kill_on_drop) and both pipes.      *)
DropSession ==
    IF linked
    THEN /\ wpc' = "out" /\ linked' = FALSE /\ evq' = <<>> /\ cmdq' = <<>>
         /\ UNCHANGED <<wback, wacct, wsub, wcancel, chal>>
    ELSE UNCHANGED <<workerVars, pipeVars>>

(* run_batch returns Err: the session in hand is dropped.                    *)
Raise ==
    /\ pc' = "error"
    /\ DropSession
    /\ UNCHANGED <<diskVars, after, taskVars, providerVars, boundVars>>

Init ==
    /\ vault = [a \in Accounts |->
                   [current |-> 1, pending |-> NoPassword, pstate |-> "original"]]
    /\ \E p \in BOOLEAN :
          ckpt = [status |-> "queued", st |-> [a \in Accounts |-> "queued"],
                  pause |-> p, assign |-> [a \in Accounts |-> AssignProxy]]
    /\ mc = ckpt
    /\ pc = "begin" /\ after = "idle" /\ idx = 1
    /\ rs = [stage |-> "queued", pstate |-> "original"]
    /\ retries = [nav |-> 0, crash |-> 0]
    /\ waiting = FALSE /\ ctl = <<>>
    /\ wpc = "off" /\ wback = "off" /\ wacct = 1 /\ wsub = FALSE /\ wcancel = FALSE
    /\ chal = 0 /\ linked = FALSE /\ evq = <<>> /\ cmdq = <<>>
    /\ provider = [a \in Accounts |-> 1]
    /\ inflight = [a \in Accounts |-> NoPassword]
    /\ minted = [a \in Accounts |-> 1]
    /\ faults = MaxFaults /\ resumes = MaxResumes /\ controls = MaxControls

-----------------------------------------------------------------------------
(* run_batch.                                                                *)

Begin ==
    /\ pc = "begin"
    /\ Persist(vault, [ckpt EXCEPT !.status = "running"], "next")
    /\ idx' = 1
    /\ UNCHANGED <<ckpt, rs, retries, waiting, ctl, workerVars, pipeVars,
                   providerVars, boundVars>>

(* The second half of every persist.  Returning from run_batch releases the  *)
(* batch and closes its control channel.                                     *)
SaveCheckpoint ==
    /\ pc = "save"
    /\ ckpt' = mc
    /\ pc' = after
    /\ ctl' = IF after = "idle" THEN <<>> ELSE ctl
    /\ UNCHANGED <<vault, after, idx, mc, rs, retries, waiting, workerVars, pipeVars,
                   providerVars, boundVars>>

(* save_job fails, or the checkpoint is saved and the output file is not.    *)
SaveFails ==
    /\ pc = "save"
    /\ faults > 0 /\ faults' = faults - 1
    /\ ckpt' \in {ckpt, mc}
    /\ pc' = "error"
    /\ DropSession
    /\ UNCHANGED <<vault, after, taskVars, providerVars, resumes, controls>>

(* save_vault fails in whatever the task does next: nothing was saved.       *)
Idling == pc = "serve" /\ evq = <<>> /\ ctl = <<>> /\ AliveWorker

VaultSaveFails ==
    /\ pc \in {"begin", "next", "proxy", "launch", "spawn", "serve", "finish"}
    /\ ~Idling
    /\ faults > 0 /\ faults' = faults - 1
    /\ pc' = "error"
    /\ DropSession
    /\ UNCHANGED <<diskVars, after, taskVars, providerVars, resumes, controls>>

(* The arm for a critical account is not an action: resume_job refuses such a *)
(* job and a critical account ends the batch, so the loop never meets one     *)
(* (CriticalStopsBatch); were it reached, the guards below leave it stuck.    *)
Skipped == {"success", "failed", "cancelled", "waiting_manual"}

SkipAccount ==
    /\ pc = "next" /\ idx <= NumAccounts
    /\ mc.st[idx] \in Skipped
    /\ idx' = idx + 1
    /\ UNCHANGED <<diskVars, pc, after, mc, rs, retries, waiting, ctl, workerVars,
                   pipeVars, providerVars, boundVars>>

(* The controls that are queued between two accounts are drained with        *)
(* try_recv: Continue and MarkFailed are dropped, a Cancel ends the batch.   *)
CancelQueued == \E k \in Range(ctl) : k.kind = "cancel"

PauseSeen == \E i \in 1 .. Len(ctl) : /\ ctl[i].kind = "pause"
                                      /\ \A j \in 1 .. i : ctl[j].kind # "cancel"

Drained == [mc EXCEPT !.pause = @ \/ PauseSeen]

CancelBetweenAccounts ==
    /\ pc = "next" /\ idx <= NumAccounts
    /\ mc.st[idx] \notin Skipped \cup {"critical"}
    /\ CancelQueued
    /\ Persist(vault, CancelRemaining(Drained, idx), "idle")
    /\ ctl' = <<>>
    /\ UNCHANGED <<ckpt, idx, rs, retries, waiting, workerVars, pipeVars, providerVars,
                   boundVars>>

TakeAccount ==
    /\ pc = "next" /\ idx <= NumAccounts
    /\ mc.st[idx] \notin Skipped \cup {"critical"}
    /\ ~CancelQueued
    /\ mc' = Drained /\ ctl' = <<>>
    /\ minted' = IF Operation = "change_password"
                 THEN [minted EXCEPT ![idx] = @ + 1] ELSE minted
    /\ rs' = [stage |-> "queued", pstate |-> vault[idx].pstate]
    /\ retries' = [nav |-> 0, crash |-> 0]
    /\ pc' = IF mc.assign[idx] THEN "proxy" ELSE "launch"
    /\ UNCHANGED <<diskVars, after, idx, waiting, workerVars, pipeVars, provider,
                   inflight, boundVars>>

FinishBatch ==
    /\ pc = "next" /\ idx = NumAccounts + 1
    /\ Persist(vault, [mc EXCEPT !.status = FinalStatus(mc)], "idle")
    /\ UNCHANGED <<ckpt, idx, rs, retries, waiting, ctl, workerVars, pipeVars,
                   providerVars, boundVars>>

-----------------------------------------------------------------------------
(* process_account up to the running worker.                                 *)

ProxyAssigned ==
    /\ pc = "proxy"
    /\ Persist(vault, [mc EXCEPT !.assign[idx] = FALSE], "launch")
    /\ UNCHANGED <<ckpt, idx, rs, retries, waiting, ctl, workerVars, pipeVars,
                   providerVars, boundVars>>

(* Mutant: the account that has no proxy is passed over, the batch goes on.  *)
ProxyFails_GoesOn ==
    /\ pc = "proxy"
    /\ Persist(vault, RecordStage(mc, idx, "queued"), "next")
    /\ idx' = idx + 1
    /\ UNCHANGED <<ckpt, rs, retries, waiting, ctl, workerVars, pipeVars,
                   providerVars, boundVars>>

ProxyFails ==
    /\ pc = "proxy"
    /\ Persist(vault, [RecordStage(mc, idx, "queued") EXCEPT !.status = "paused"], "idle")
    /\ UNCHANGED <<ckpt, idx, rs, retries, waiting, ctl, workerVars, pipeVars,
                   providerVars, boundVars>>

Launch ==
    /\ pc = "launch"
    /\ rs' = Transition([rs EXCEPT !.stage = "queued"], "LaunchStarted")
    /\ Persist(vault, [RecordStage(mc, idx, rs'.stage) EXCEPT !.status = "running"], "spawn")
    /\ UNCHANGED <<ckpt, idx, retries, waiting, ctl, workerVars, pipeVars, providerVars,
                   boundVars>>

(* prepare_profile_cdp or WorkerTransport::spawn fails.                      *)
LaunchFails ==
    /\ pc = "spawn"
    /\ rs' = AfterFailure(rs, "launch_failed")
    /\ Persist([vault EXCEPT ![idx] = FailedRecord(@, rs')],
               RecordStage(mc, idx, rs'.stage), "finish")
    /\ UNCHANGED <<ckpt, idx, retries, waiting, ctl, workerVars, pipeVars, providerVars,
                   boundVars>>

SpawnWorker ==
    /\ pc = "spawn"
    /\ pc' = "serve" /\ waiting' = FALSE
    /\ wpc' = "start" /\ wback' = "start" /\ wacct' = idx
    /\ wsub' = FALSE /\ wcancel' = FALSE /\ chal' = MaxChallenges
    /\ linked' = TRUE /\ evq' = <<>> /\ cmdq' = <<>>
    /\ UNCHANGED <<diskVars, after, idx, mc, rs, retries, ctl, providerVars, boundVars>>

-----------------------------------------------------------------------------
(* The select loop: worker events.                                           *)

Receive(kind) ==
    /\ pc = "serve" /\ evq # <<>> /\ Head(evq).kind = kind
    /\ evq' = Tail(evq)

ServeUnchanged == UNCHANGED <<ckpt, idx, workerVars, linked, cmdq, providerVars, boundVars>>

OnStage ==
    /\ Receive("stage")
    /\ rs' = [rs EXCEPT !.stage = Head(evq).arg]
    /\ Persist(vault, RecordStage(mc, idx, rs'.stage), "serve")
    /\ UNCHANGED <<retries, waiting, ctl>> /\ ServeUnchanged

OnTotpRequired ==
    /\ Receive("totp_required")
    /\ CanTransition(rs, "TotpRequested")
    /\ rs' = Transition(rs, "TotpRequested")
    /\ Persist(vault, RecordStage(mc, idx, rs'.stage), "send_totp")
    /\ UNCHANGED <<retries, waiting, ctl>> /\ ServeUnchanged

(* Mutant: waiting_manual is not set.                                        *)
OnManualRequired_NoFlag ==
    /\ Receive("manual_required")
    /\ rs' = Transition(rs, "ManualRequired")
    /\ Persist(vault, [RecordStage(mc, idx, rs'.stage) EXCEPT !.status = "waiting_manual"],
               "serve")
    /\ UNCHANGED <<retries, waiting, ctl>> /\ ServeUnchanged

OnManualRequired ==
    /\ Receive("manual_required")
    /\ CanTransition(rs, "ManualRequired")
    /\ rs' = Transition(rs, "ManualRequired")
    /\ waiting' = TRUE
    /\ Persist(vault, [RecordStage(mc, idx, rs'.stage) EXCEPT !.status = "waiting_manual"],
               "serve")
    /\ UNCHANGED <<retries, ctl>> /\ ServeUnchanged

(* Mutant: the authorization is sent before the attempt is saved.            *)
OnSubmitRequired_SendFirst ==
    /\ Receive("password_submit_required")
    /\ AcceptsSubmitRequired(rs, vault[idx])
    /\ rs' = Transition(rs, "PasswordAccepted")
    /\ cmdq' = Append(cmdq, "submit_password")
    /\ Persist(vault, RecordStage(mc, idx, rs'.stage), "serve")
    /\ UNCHANGED <<ckpt, idx, retries, waiting, ctl, workerVars, linked, providerVars,
                   boundVars>>

OnSubmitRequired ==
    /\ Receive("password_submit_required")
    /\ AcceptsSubmitRequired(rs, vault[idx])
    /\ rs' = Transition(rs, "PasswordAccepted")
    /\ Persist([vault EXCEPT ![idx] = AuthorizedRecord(@, minted[idx])],
               RecordStage(mc, idx, rs'.stage), "send_submit")
    /\ UNCHANGED <<retries, waiting, ctl>> /\ ServeUnchanged

OnPasswordChanged ==
    /\ Receive("password_changed")
    /\ AcceptsChanged(rs, vault[idx])
    /\ rs' = Transition(rs, "PasswordChanged")
    /\ Persist(vault, RecordStage(mc, idx, rs'.stage), "serve")
    /\ UNCHANGED <<retries, waiting, ctl>> /\ ServeUnchanged

AcceptsSuccess == IF Operation = "login" THEN CanTransition(rs, "LoginVerified")
                  ELSE AcceptsVerified(rs, vault[idx])

OnVerified ==
    /\ Receive("verified")
    /\ AcceptsSuccess
    /\ rs' = Transition(rs, IF Operation = "login" THEN "LoginVerified" ELSE "Verified")
    /\ Persist([vault EXCEPT ![idx] = IF Operation = "login" THEN LoginVerifiedRecord(@)
                                      ELSE VerifiedRecord(@)],
               [RecordStage(mc, idx, rs'.stage) EXCEPT !.status = "running"], "finish")
    /\ UNCHANGED <<retries, waiting, ctl>> /\ ServeUnchanged

(* A Failed event: two more tries for a navigation failure and one for a     *)
(* crashed browser, as long as the password is known.                        *)
MaxNavigationRetries == 2
MaxCrashRestarts == 1

(* Mutant: one navigation retry too many.                                    *)
MayRetry_OffByOne(code) ==
    /\ rs.pstate # "unknown"
    /\ \/ code = "navigation_failed" /\ retries.nav <= MaxNavigationRetries
       \/ code = "browser_crashed" /\ retries.crash < MaxCrashRestarts

MayRetry(code) ==
    /\ rs.pstate # "unknown"
    /\ \/ code = "navigation_failed" /\ retries.nav < MaxNavigationRetries
       \/ code = "browser_crashed" /\ retries.crash < MaxCrashRestarts

Retry(code) ==
    /\ MayRetry(code)
    /\ retries' = IF code = "navigation_failed" THEN [retries EXCEPT !.nav = @ + 1]
                  ELSE [retries EXCEPT !.crash = @ + 1]
    /\ rs' = [rs EXCEPT !.stage = "queued"]
    /\ Persist(vault, RecordStage(mc, idx, "queued"), "finish")

(* apply_worker_event(Failed{code}), then the job status, then the snapshot. *)
EndAccount(code, statusUnlessCritical) ==
    /\ rs' = AfterFailure(rs, code)
    /\ Persist([vault EXCEPT ![idx] = FailedRecord(@, rs')],
               [RecordStage(mc, idx, rs'.stage) EXCEPT
                    !.status = IF rs'.stage = "critical" THEN "critical"
                               ELSE statusUnlessCritical],
               "finish")

Failure(code) ==
    \/ Retry(code)
    \/ ~MayRetry(code) /\ EndAccount(code, "running") /\ UNCHANGED retries

OnFailed ==
    /\ Receive("failed")
    /\ Failure(Head(evq).arg)
    /\ UNCHANGED <<waiting, ctl>> /\ ServeUnchanged

(* Mutant: the end of the stream ends the account only after a submission.   *)
OnEndOfStream_Ignored ==
    /\ pc = "serve" /\ evq = <<>> /\ wpc = "out" /\ rs.pstate = "unknown"
    /\ Failure("browser_crashed")
    /\ UNCHANGED <<evq, waiting, ctl>> /\ ServeUnchanged

(* next_event returns None: the worker is gone and its output is read.       *)
OnEndOfStream ==
    /\ pc = "serve" /\ evq = <<>> /\ wpc = "out"
    /\ Failure("browser_crashed")
    /\ UNCHANGED <<evq, waiting, ctl>> /\ ServeUnchanged

(* next_event returns Err: the line is rejected or cut.                      *)
OnBadLine ==
    /\ pc = "serve" /\ evq # <<>>
    /\ faults > 0 /\ faults' = faults - 1
    /\ evq' = Tail(evq)
    /\ Failure(IF rs.pstate = "unknown" THEN "credential_state_unknown" ELSE "protocol_error")
    /\ UNCHANGED <<ckpt, idx, waiting, ctl, workerVars, linked, cmdq, providerVars,
                   resumes, controls>>

Rejected(kind) ==
    \/ kind = "totp_required" /\ ~CanTransition(rs, "TotpRequested")
    \/ kind = "manual_required" /\ ~CanTransition(rs, "ManualRequired")
    \/ kind = "password_submit_required" /\ ~AcceptsSubmitRequired(rs, vault[idx])
    \/ kind = "password_changed" /\ ~AcceptsChanged(rs, vault[idx])
    \/ kind = "verified" /\ ~AcceptsSuccess

(* The event fails its guard, and with it the whole run.                     *)
OnRejectedEvent ==
    /\ pc = "serve" /\ evq # <<>>
    /\ Rejected(Head(evq).kind)
    /\ Raise

(* session.send after the snapshot; writing to a worker that is gone fails,  *)
(* and so does a TOTP request for an account without a secret.               *)
Send(command) ==
    /\ pc' = "serve"
    /\ cmdq' = Append(cmdq, command)
    /\ UNCHANGED <<diskVars, after, taskVars, workerVars, linked, evq, providerVars, boundVars>>

SendTotp ==
    /\ pc = "send_totp"
    /\ IF idx \in Secrets /\ AliveWorker THEN Send("totp_code") ELSE Raise

SendSubmit ==
    /\ pc = "send_submit"
    /\ IF AliveWorker THEN Send("submit_password") ELSE Raise

-----------------------------------------------------------------------------
(* The select loop: controls.                                                *)

Take(kind) ==
    /\ pc = "serve" /\ ctl # <<>> /\ Head(ctl).kind = kind
    /\ ctl' = Tail(ctl)

ControlUnchanged ==
    UNCHANGED <<ckpt, idx, retries, workerVars, linked, evq, providerVars, boundVars>>

OnPause ==
    /\ Take("pause")
    /\ Persist(vault, [mc EXCEPT !.pause = TRUE], "serve")
    /\ UNCHANGED <<rs, waiting, cmdq>> /\ ControlUnchanged

Addressed == waiting /\ Head(ctl).acct = idx

OnContinue ==
    /\ Take("continue")
    /\ Addressed /\ AliveWorker
    /\ cmdq' = Append(cmdq, "resume")
    /\ rs' = Transition(rs, "Resumed")
    /\ waiting' = FALSE
    /\ Persist(vault, [RecordStage(mc, idx, rs'.stage) EXCEPT !.status = "running"], "serve")
    /\ ControlUnchanged

OnContinueToDeadWorker ==
    /\ pc = "serve" /\ ctl # <<>> /\ Head(ctl).kind = "continue"
    /\ Addressed /\ ~AliveWorker
    /\ Raise

TellCancel == cmdq' = IF AliveWorker THEN Append(cmdq, "cancel") ELSE cmdq

OnMarkFailed ==
    /\ Take("mark_failed")
    /\ Addressed
    /\ TellCancel
    /\ EndAccount("manual_marked_failed", "running")
    /\ UNCHANGED waiting /\ ControlUnchanged

(* Mutant: a Cancel is not looked at while a manual challenge is open.       *)
OnCancel_NotManual ==
    /\ Take("cancel") /\ ~waiting
    /\ TellCancel
    /\ EndAccount(IF rs.pstate = "unknown" THEN "credential_state_unknown" ELSE "cancelled",
                  "cancelled")
    /\ UNCHANGED waiting /\ ControlUnchanged

OnCancel ==
    /\ Take("cancel")
    /\ TellCancel
    /\ EndAccount(IF rs.pstate = "unknown" THEN "credential_state_unknown" ELSE "cancelled",
                  "cancelled")
    /\ UNCHANGED waiting /\ ControlUnchanged

OnIgnoredControl ==
    /\ pc = "serve" /\ ctl # <<>>
    /\ Head(ctl).kind \in {"continue", "mark_failed"} /\ ~Addressed
    /\ ctl' = Tail(ctl)
    /\ UNCHANGED <<vault, pc, after, mc, rs, waiting, cmdq>> /\ ControlUnchanged

-----------------------------------------------------------------------------
(* session.finish() kills the worker if it has not exited, and run_batch     *)
(* acts on the outcome of the account.                                       *)

Finish ==
    /\ pc = "finish"
    /\ DropSession
    /\ CASE rs.stage = "queued" ->
              /\ pc' = "launch" /\ UNCHANGED <<vault, after, mc, idx>>
         [] rs.stage = "critical" ->
              /\ Persist(vault, [mc EXCEPT !.status = "critical"], "idle")
              /\ UNCHANGED idx
         [] rs.stage = "cancelled" ->
              /\ Persist(vault, CancelRemaining(mc, idx + 1), "idle")
              /\ UNCHANGED idx
         [] rs.stage \in {"success", "failed"} /\ mc.pause ->
              /\ Persist(vault, [mc EXCEPT !.status = "paused"], "idle")
              /\ UNCHANGED idx
         [] rs.stage \in {"success", "failed"} /\ ~mc.pause ->
              /\ pc' = "next" /\ idx' = idx + 1 /\ UNCHANGED <<vault, after, mc>>
    /\ UNCHANGED <<ckpt, rs, retries, waiting, ctl, providerVars, boundVars>>

(* mark_job_run_error: both files are read again and the first account that  *)
(* is not terminal takes the blame.                                          *)
Blamed(c) ==
    LET open == {a \in Accounts : c.st[a] \notin TerminalStages}
        blamed == {a \in open : \A y \in open : a <= y}
        unknown == {a \in blamed : vault[a].pstate = "unknown"}
    IN [c EXCEPT !.st = [a \in Accounts |-> IF a \in unknown THEN "critical"
                                            ELSE IF a \in blamed THEN "failed"
                                            ELSE c.st[a]],
                 !.status = IF c.status = "critical" \/ unknown # {} THEN "critical"
                            ELSE "failed"]

MarkJobRunError ==
    /\ pc = "error"
    /\ ckpt' = Blamed(ckpt)
    /\ pc' = "idle" /\ ctl' = <<>>
    /\ UNCHANGED <<vault, after, idx, mc, rs, retries, waiting, workerVars, pipeVars,
                   providerVars, boundVars>>

(* Marking fails too: the error is dropped and the batch is released.        *)
MarkingFails ==
    /\ pc = "error"
    /\ faults > 0 /\ faults' = faults - 1
    /\ pc' = "idle" /\ ctl' = <<>>
    /\ UNCHANGED <<diskVars, after, idx, mc, rs, retries, waiting, workerVars, pipeVars,
                   providerVars, resumes, controls>>

Coordinator ==
    \/ Begin \/ SaveCheckpoint \/ SkipAccount \/ CancelBetweenAccounts
    \/ TakeAccount \/ FinishBatch \/ ProxyAssigned \/ ProxyFails \/ Launch \/ LaunchFails
    \/ SpawnWorker \/ OnStage \/ OnTotpRequired \/ OnManualRequired \/ OnSubmitRequired
    \/ OnPasswordChanged \/ OnVerified \/ OnFailed \/ OnEndOfStream \/ OnRejectedEvent
    \/ SendTotp \/ SendSubmit \/ OnPause \/ OnContinue \/ OnContinueToDeadWorker
    \/ OnMarkFailed \/ OnCancel \/ OnIgnoredControl \/ Finish \/ MarkJobRunError

-----------------------------------------------------------------------------
(* The worker: runAccountFlow, with a page read as the nondeterministic      *)
(* choice of what the page shows.  A write to a closed pipe ends it.         *)

Emit(events, next) ==
    IF linked THEN evq' = evq \o events /\ wpc' = next
    ELSE wpc' = "out" /\ UNCHANGED evq

Acting(at) == wpc = at /\ ~wcancel

WorkerUnchanged == UNCHANGED <<diskVars, pc, after, taskVars, linked, wacct, boundVars>>

WorkerStart ==
    /\ Acting("start")
    /\ Emit(<<StageEvent("logging_in")>>, "login")
    /\ UNCHANGED <<wback, wsub, wcancel, chal, cmdq, providerVars>> /\ WorkerUnchanged

(* authenticate() returns: the change flow takes an existing session, the    *)
(* login flow must have seen the provider accept the vault's password.       *)
WorkerSignedIn ==
    /\ Acting("login")
    /\ IF Operation = "login"
       THEN /\ provider[wacct] = vault[wacct].current
            /\ Emit(<<Event("verified")>>, "out")
       ELSE Emit(<<StageEvent("changing_password")>>, "change")
    /\ UNCHANGED <<wback, wsub, wcancel, chal, cmdq, providerVars>> /\ WorkerUnchanged

(* A TOTP form: the waiter is registered before the request is sent.         *)
WorkerAsksTotp ==
    /\ wpc \in {"login", "change", "relogin"} /\ ~wcancel
    /\ chal > 0 /\ chal' = chal - 1
    /\ wback' = wpc
    /\ Emit(<<StageEvent("submitting_totp"), Event("totp_required")>>, "totp")
    /\ UNCHANGED <<wsub, wcancel, cmdq, providerVars>> /\ WorkerUnchanged

(* waitForManual.                                                            *)
WorkerAsksManual ==
    /\ wpc \in {"login", "change", "relogin"} /\ ~wcancel
    /\ chal > 0 /\ chal' = chal - 1
    /\ wback' = wpc
    /\ Emit(<<StageEvent("waiting_manual"), Event("manual_required")>>, "manual")
    /\ UNCHANGED <<wsub, wcancel, cmdq, providerVars>> /\ WorkerUnchanged

(* submitPasswordChange, up to the authorization.                            *)
(* Mutant: the flow asks and does not wait for the answer.                   *)
WorkerAsksSubmit_NoWait ==
    /\ Acting("change") /\ ~wsub
    /\ Emit(<<Event("password_submit_required")>>, "submit")
    /\ wsub' = TRUE
    /\ UNCHANGED <<wback, wcancel, chal, cmdq, providerVars>> /\ WorkerUnchanged

WorkerAsksSubmit ==
    /\ Acting("change") /\ ~wsub
    /\ Emit(<<Event("password_submit_required")>>, "authorize")
    /\ UNCHANGED <<wback, wsub, wcancel, chal, cmdq, providerVars>> /\ WorkerUnchanged

(* adapter.submitPasswordChange: the new password leaves for the provider.   *)
WorkerSubmits ==
    /\ Acting("submit")
    /\ inflight' = [inflight EXCEPT ![wacct] = minted[wacct]]
    /\ wpc' = "change"
    /\ UNCHANGED <<wback, wsub, wcancel, chal, evq, cmdq, provider, minted>>
    /\ WorkerUnchanged

(* The page confirms the change; logout; sign in again with the new password. *)
WorkerSeesChange ==
    /\ Acting("change") /\ wsub
    /\ provider[wacct] = minted[wacct]
    /\ Emit(<<Event("password_changed")>>, "logout")
    /\ UNCHANGED <<wback, wsub, wcancel, chal, cmdq, providerVars>> /\ WorkerUnchanged

WorkerLogsOut ==
    /\ Acting("logout")
    /\ Emit(<<StageEvent("verifying_new_password")>>, "relogin")
    /\ UNCHANGED <<wback, wsub, wcancel, chal, cmdq, providerVars>> /\ WorkerUnchanged

WorkerVerifies ==
    /\ Acting("relogin")
    /\ provider[wacct] = minted[wacct]
    /\ wsub' = FALSE
    /\ Emit(<<Event("verified")>>, "out")
    /\ UNCHANGED <<wback, wcancel, chal, cmdq, providerVars>> /\ WorkerUnchanged

(* Any page action may fail; the catch of runAccountFlow names the failure.  *)
WorkerCode == IF wsub THEN {"credential_state_unknown"}
              ELSE IF wcancel THEN {"cancelled"}
              ELSE {"navigation_failed", "browser_crashed", "flow_changed"}

WorkerFails ==
    /\ wpc \in {"start", "login", "change", "submit", "logout", "relogin"}
    /\ \E code \in WorkerCode : Emit(<<FailedEvent(code)>>, "out")
    /\ UNCHANGED <<wback, wsub, wcancel, chal, cmdq, providerVars>> /\ WorkerUnchanged

(* CommandControl.push: a command reaches the waiter that expects it, a      *)
(* cancel is remembered and wakes any waiter, anything else is dropped.      *)
Expected(command) == \/ command = "totp_code" /\ wpc = "totp"
                     \/ command = "resume" /\ wpc = "manual"
                     \/ command = "submit_password" /\ wpc = "authorize"

WorkerReceives ==
    /\ AliveWorker /\ cmdq # <<>>
    /\ cmdq' = Tail(cmdq)
    /\ LET command == Head(cmdq) IN
         CASE command = "cancel" ->
                /\ wcancel' = TRUE
                /\ IF wpc \in {"totp", "manual", "authorize"}
                   THEN Emit(<<FailedEvent(IF wsub THEN "credential_state_unknown"
                                           ELSE "cancelled")>>, "out")
                   ELSE UNCHANGED <<wpc, evq>>
                /\ UNCHANGED wsub
           [] command # "cancel" /\ Expected(command) ->
                /\ wpc' = IF command = "submit_password" THEN "submit" ELSE wback
                /\ wsub' = (wsub \/ command = "submit_password")
                /\ UNCHANGED <<wcancel, evq>>
           [] OTHER -> UNCHANGED <<wpc, wsub, wcancel, evq>>
    /\ UNCHANGED <<wback, chal, providerVars>> /\ WorkerUnchanged

Worker ==
    \/ WorkerStart \/ WorkerSignedIn \/ WorkerAsksTotp \/ WorkerAsksManual
    \/ WorkerAsksSubmit \/ WorkerSubmits \/ WorkerSeesChange \/ WorkerLogsOut
    \/ WorkerVerifies \/ WorkerFails \/ WorkerReceives

(* The worker process is gone without a word.                                *)
WorkerDies ==
    /\ AliveWorker
    /\ faults > 0 /\ faults' = faults - 1
    /\ wpc' = "out"
    /\ UNCHANGED <<diskVars, pc, after, taskVars, wback, wacct, wsub, wcancel, chal,
                   pipeVars, providerVars, resumes, controls>>

-----------------------------------------------------------------------------
(* The provider answers a submitted change.                                  *)

ProviderAnswers ==
    \E a \in Accounts :
        /\ inflight[a] # NoPassword
        /\ inflight' = [inflight EXCEPT ![a] = NoPassword]
        /\ provider' \in {provider, [provider EXCEPT ![a] = inflight[a]]}
        /\ UNCHANGED <<diskVars, pc, after, taskVars, workerVars, pipeVars, minted, boundVars>>

-----------------------------------------------------------------------------
(* The operator, and the application's own death.                            *)

(* account_keeper_pause_after_current writes the flag to the checkpoint on   *)
(* disk and then, like the other controls, queues a control if the batch is  *)
(* the active one.                                                           *)
OperatorControl ==
    /\ controls > 0 /\ controls' = controls - 1
    /\ pc # "idle"
    /\ \E k \in Controls :
          /\ ctl' = Append(ctl, k)
          /\ ckpt' = IF k.kind = "pause" THEN [ckpt EXCEPT !.pause = TRUE] ELSE ckpt
    /\ UNCHANGED <<vault, pc, after, idx, mc, rs, retries, waiting, workerVars, pipeVars,
                   providerVars, faults, resumes>>

OperatorCancelsInactive ==
    /\ pc = "idle"
    /\ controls > 0 /\ controls' = controls - 1
    /\ ckpt' = CancelInactive(ckpt)
    /\ UNCHANGED <<vault, pc, after, taskVars, workerVars, pipeVars, providerVars, faults,
                   resumes>>

Crash ==
    /\ pc # "idle"
    /\ faults > 0 /\ faults' = faults - 1
    /\ pc' = "idle" /\ ctl' = <<>> /\ linked' = FALSE /\ evq' = <<>>
    /\ UNCHANGED <<diskVars, after, idx, mc, rs, retries, waiting, workerVars, cmdq,
                   providerVars, resumes, controls>>

(* resume_job: never with an unknown password, never a completed job; every  *)
(* account that is not terminal goes back to the queue.                      *)
(* Mutant: the checkpoint alone decides.                                     *)
Resumable_CheckpointOnly(c) ==
    /\ c.status \notin {"critical", "completed"}
    /\ \A a \in Accounts : c.st[a] # "critical"
    /\ \E a \in Accounts : c.st[a] \notin TerminalStages

Resumable(c) ==
    /\ c.status \notin {"critical", "completed"}
    /\ \A a \in Accounts : c.st[a] # "critical" /\ vault[a].pstate # "unknown"
    /\ \E a \in Accounts : c.st[a] \notin TerminalStages

ResumeJob ==
    /\ pc = "idle"
    /\ resumes > 0 /\ resumes' = resumes - 1
    /\ Resumable(ckpt)
    /\ ckpt' = [ckpt EXCEPT
                   !.status = "queued", !.pause = FALSE,
                   !.st = [a \in Accounts |-> IF ckpt.st[a] \in TerminalStages
                                              THEN ckpt.st[a] ELSE "queued"]]
    /\ pc' = "begin"
    /\ UNCHANGED <<vault, after, taskVars, workerVars, pipeVars, providerVars, faults,
                   controls>>

Next ==
    \/ Coordinator \/ Worker \/ ProviderAnswers
    \/ SaveFails \/ VaultSaveFails \/ OnBadLine \/ MarkingFails \/ WorkerDies \/ Crash
    \/ OperatorControl \/ OperatorCancelsInactive \/ ResumeJob

(* The coordinator's task is polled while it can act, and every page action  *)
(* of the worker has a timeout; the operator and the provider owe nothing.   *)
Fairness == WF_vars(Coordinator) /\ WF_vars(Worker)

Spec == Init /\ [][Next]_vars /\ Fairness

-----------------------------------------------------------------------------
(* Properties.                                                               *)

PCs == {"idle", "begin", "next", "proxy", "launch", "spawn", "serve", "send_totp",
        "send_submit", "save", "finish", "error"}

WPCs == {"off", "start", "login", "change", "relogin", "totp", "manual", "authorize",
         "submit", "logout", "out"}

(* Every variable keeps its type.                                            *)
TypeOK ==
    /\ vault \in [Accounts -> VaultRecords]
    /\ ckpt \in Checkpoints /\ mc \in Checkpoints
    /\ pc \in PCs /\ after \in PCs
    /\ idx \in 1 .. NumAccounts + 1
    /\ rs \in RunStates
    /\ retries \in [nav : 0 .. MaxNavigationRetries, crash : 0 .. MaxCrashRestarts]
    /\ waiting \in BOOLEAN
    /\ ctl \in Seq(Controls)
    /\ wpc \in WPCs /\ wback \in WPCs
    /\ wacct \in Accounts
    /\ wsub \in BOOLEAN /\ wcancel \in BOOLEAN /\ linked \in BOOLEAN
    /\ chal \in Nat
    /\ evq \in Seq(Events) /\ cmdq \in Seq(Commands)
    /\ provider \in [Accounts -> Passwords]
    /\ inflight \in [Accounts -> Nat]
    /\ minted \in [Accounts -> Passwords]
    /\ faults \in Nat /\ resumes \in Nat /\ controls \in Nat

(* A password the vault calls known is the one that signs in, and nothing is *)
(* on its way that could change it; when the vault calls it unknown, the     *)
(* password that signs in is the current one or the recorded attempt         *)
(* (apply_worker_event and the order of persist_snapshot and session.send).  *)
PasswordNeverLost ==
    \A a \in Accounts :
        LET v == vault[a] IN
        /\ v.pstate # "unknown" => /\ provider[a] = v.current
                                   /\ inflight[a] = NoPassword
                                   /\ v.pending = NoPassword
        /\ v.pstate = "unknown" => /\ v.pending # NoPassword
                                   /\ provider[a] \in {v.current, v.pending}
                                   /\ inflight[a] \in {NoPassword, v.pending}

(* A worker that was allowed to submit, or is about to be told so, works on  *)
(* an account whose attempt is already on disk: the authorization is never   *)
(* ahead of the vault (PasswordSubmitRequired: persist, then send).          *)
MaySubmit == AliveWorker /\ (wsub \/ "submit_password" \in Range(cmdq))

AuthorizedIsDurable ==
    MaySubmit => /\ vault[wacct].pstate = "unknown"
                 /\ vault[wacct].pending = minted[wacct]

(* What the checkpoint says of a finished account agrees with the vault,     *)
(* whichever of the two files a crash or a failed save left behind: a        *)
(* critical account has its attempt on record, a successful one a verified   *)
(* password, and a failed or cancelled one a known password.                 *)
VerdictMatchesVault ==
    \A a \in Accounts :
        /\ ckpt.st[a] = "critical" => vault[a].pstate = "unknown"
        /\ ckpt.st[a] = "success" =>
              vault[a].pstate = (IF Operation = "login" THEN "original" ELSE "changed")
        /\ ckpt.st[a] \in {"failed", "cancelled"} => vault[a].pstate # "unknown"

(* Accounts are finished in order: while the batch works on one, every       *)
(* earlier one is already terminal on disk.                                  *)
DoneInOrder ==
    pc \notin {"idle", "begin", "error"} =>
        \A a \in Accounts : a < idx => ckpt.st[a] \in TerminalStages

(* While the coordinator sits in its select loop, a worker that waits for a  *)
(* TOTP code, an authorization or a Continue has its request or its answer   *)
(* in a pipe, or the coordinator knows that it waits for the operator: no    *)
(* side waits for a message the other believes delivered.                    *)
NobodyForgotten ==
    LET asked(kind) == Event(kind) \in Range(evq)
        told(command) == command \in Range(cmdq)
    IN linked /\ pc = "serve" =>
         /\ wpc = "totp" => asked("totp_required") \/ told("totp_code")
         /\ wpc = "authorize" => asked("password_submit_required") \/ told("submit_password")
         /\ wpc = "manual" => asked("manual_required") \/ told("resume") \/ waiting

(* An account that is terminal on disk keeps its verdict through crashes,    *)
(* resumes, cancellations and coordinator errors.                            *)
TerminalIsFinal ==
    [][\A a \in Accounts : ckpt.st[a] \in TerminalStages => ckpt'.st[a] = ckpt.st[a]]_vars

(* No worker is started, for any account, while the batch holds an account   *)
(* whose password is unknown: a critical account stops the whole batch.      *)
CriticalStopsBatch ==
    [][wpc' = "start" /\ wpc # "start" =>
           \A a \in Accounts : vault[a].pstate # "unknown" /\ ckpt.st[a] # "critical"]_vars

(* The vault and the provider go through a rotation as Rotation allows it.   *)
Promise == INSTANCE Rotation WITH
    current <- [a \in Accounts |-> vault[a].current],
    attempt <- [a \in Accounts |-> vault[a].pending]

ImplementsRotation == Promise!Spec

(* A batch never stays busy for ever: again and again it is over, or it      *)
(* waits for the operator to solve a manual challenge.                       *)
BatchSettles == []<>(pc = "idle" \/ (pc = "serve" /\ waiting))

(* Cancel Batch ends the batch, whatever the account in hand is doing.       *)
CancelEndsBatch == CancelQueued ~> pc = "idle"
=============================================================================
