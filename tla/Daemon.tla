------------------------------- MODULE Daemon -------------------------------
(***************************************************************************)
(* The Account Keeper daemon (src-tauri/src/account_keeper_daemon.rs): a    *)
(* FIFO of password-change jobs kept in memory and saved to one protected   *)
(* file, a task that ticks every 500 ms, and the API calls that race it.    *)
(*                                                                           *)
(* The queue has a lock, but every operation takes it several times: what   *)
(* it read before an await may be stale when it writes.  Each action is one *)
(* stretch of code under one lock, or between two awaits.                    *)
(*                                                                           *)
(* The batches behind the jobs are those of account_keeper.rs, reduced to   *)
(* what the daemon sees of them: the status in the job file, whether an     *)
(* account is left to do, and whether one has an unknown password.          *)
(***************************************************************************)
EXTENDS Naturals, Sequences, FiniteSets

CONSTANTS
    Callers,         \* concurrent API or MCP requests
    MaxJobs,         \* bound: jobs created
    MaxBatches,      \* bound: batches ever started
    Budgets          \* bounds: how much may happen in one behaviour

(* What a behaviour spends: cancel, continue and resume requests; requests   *)
(* begun while another one is in hand; actions of the desktop window; manual *)
(* challenges; crashes, failed saves and batches that die silently.          *)
Spending == [requests : Nat, overlaps : Nat, desktop : Nat, challenges : Nat, faults : Nat]

ASSUME BoundsAssumption ==
    MaxJobs \in Nat /\ MaxBatches \in Nat /\ Budgets \subseteq Spending

Jobs == 1 .. MaxJobs
Batches == 1 .. MaxBatches
NoBatch == 0
NoJob == 0

VARIABLES
    jobs, saved,          \* DaemonState.jobs in memory, and in the file
    tpc,                  \* where the ticking task is
    tjob, tbatch, tseen,  \* the job, the batch and the status it has in hand
    caller,               \* Callers -> where the request is and its job
    batch,                \* Batches -> its job file and its controls
    active,               \* ACTIVE_BATCH
    starts,               \* history: Jobs -> the batches started for it
    claimed,              \* history: batches the daemon claimed since it came up
    requests, overlaps, desktop, challenges, faults      \* spent so far

queueVars  == <<jobs, saved>>
tickVars   == <<tpc, tjob, tbatch, tseen>>
batchVars  == <<batch, active>>
history    == <<starts, claimed>>
boundVars  == <<requests, overlaps, desktop, challenges, faults>>
vars == <<queueVars, tickVars, caller, batchVars, history, boundVars>>

-----------------------------------------------------------------------------
(* The queue.                                                                *)

ActiveStatuses == {"running", "waiting_manual"}

SlotStatuses == ActiveStatuses \cup {"recovery_required"}

FinishedStatuses == {"completed", "failed", "critical", "cancelled"}

DaemonJobs == [status : {"queued"} \cup SlotStatuses \cup FinishedStatuses,
               batch : Batches \cup {NoBatch}]

With(statuses) == {i \in DOMAIN jobs : jobs[i].status \in statuses}

First(S) == {i \in S : \A k \in S : i <= k}

SetStatus(i, status) == [jobs EXCEPT ![i].status = status]

(* What a behaviour has spent, and this much more, is within a budget.       *)
Affordable(request, overlap, action, challenge, fault) ==
    \E budget \in Budgets :
        /\ requests + request <= budget.requests /\ overlaps + overlap <= budget.overlaps
        /\ desktop + action <= budget.desktop
        /\ challenges + challenge <= budget.challenges /\ faults + fault <= budget.faults

(* Something goes wrong that the program does not control.                   *)
Fault == Affordable(0, 0, 0, 0, 1) /\ faults' = faults + 1

(* A change of the queue under its lock, then save_state: a failed write is  *)
(* reported to the caller, and the change in memory stays.                   *)
Save(queue) ==
    /\ jobs' = queue
    /\ \/ saved' = queue /\ UNCHANGED faults
       \/ Fault /\ UNCHANGED saved

-----------------------------------------------------------------------------
(* The batches, as the daemon meets them.                                    *)

EndStatuses == {"completed", "failed", "critical", "cancelled", "paused"}

BatchStatuses == {"unborn", "deleted", "queued", "running", "waiting_manual"} \cup EndStatuses

BatchRecords == [status : BatchStatuses, open : BOOLEAN, unknown : BOOLEAN,
                 cancel : BOOLEAN, pause : BOOLEAN]

NewBatch == [status |-> "queued", open |-> TRUE, unknown |-> FALSE,
             cancel |-> FALSE, pause |-> FALSE]

HasFile(b) == batch[b].status \notin {"unborn", "deleted"}

(* sync_batch's view of a batch status.                                      *)
(* Mutant: a paused batch counts as done.                                    *)
Shown_PausedIsDone(status) ==
    CASE status \in {"queued", "running"} -> "running"
      [] status = "paused" -> "completed"
      [] OTHER -> status

(* Mutant: the job of a paused batch goes back into the queue.               *)
Shown_PausedWaits(status) ==
    CASE status \in {"queued", "running"} -> "running"
      [] status = "paused" -> "queued"
      [] OTHER -> status

Shown(status) == IF status \in {"queued", "running", "paused"} THEN "running" ELSE status

(* account_keeper_resume_job's conditions.                                   *)
Resumable(b) ==
    /\ HasFile(b)
    /\ batch[b].status \notin {"critical", "completed"}
    /\ batch[b].open /\ ~batch[b].unknown

Reclaimed(b) == [batch EXCEPT ![b].status = "queued"]

(* The batch lets go of the slot, and of the controls nobody read.           *)
Released(b, record) ==
    /\ active' = NoBatch
    /\ batch' = [batch EXCEPT ![b] = [record EXCEPT !.cancel = FALSE, !.pause = FALSE]]

Fresh(b) == batch[b].status = "unborn" /\ \A c \in Batches : c < b => batch[c].status # "unborn"

Idle == [at |-> "idle", job |-> NoJob]

-----------------------------------------------------------------------------
Init ==
    /\ jobs = <<>> /\ saved = <<>>
    /\ tpc = "boot" /\ tjob = NoJob /\ tbatch = NoBatch /\ tseen = "running"
    /\ caller = [c \in Callers |-> Idle]
    /\ batch = [b \in Batches |-> [NewBatch EXCEPT !.status = "unborn"]]
    /\ active = NoBatch
    /\ starts = [i \in Jobs |-> {}] /\ claimed = {}
    /\ requests = 0 /\ overlaps = 0 /\ desktop = 0 /\ challenges = 0 /\ faults = 0

-----------------------------------------------------------------------------
(* start and tick.                                                           *)

(* A tick is over: what it held in hand is gone, the next one looks again.   *)
TickEnds == tpc' = "scan" /\ tjob' = NoJob /\ tbatch' = NoBatch /\ tseen' = "running"

(* recover_after_restart.                                                    *)
Recovered ==
    [i \in DOMAIN jobs |-> IF jobs[i].status \in ActiveStatuses
                           THEN [jobs[i] EXCEPT !.status = "recovery_required"] ELSE jobs[i]]

Boot ==
    /\ tpc = "boot"
    /\ Save(Recovered)
    /\ TickEnds
    /\ UNCHANGED <<caller, batchVars, history, requests, overlaps, desktop, challenges>>

(* The first look at the queue: a job to follow, or one to start?            *)
(* Mutant: a job that needs recovery is followed as well.                    *)
Followed_Recovery == With(SlotStatuses)

Followed == With(ActiveStatuses)

TickScans ==
    /\ tpc = "scan"
    /\ IF Followed # {}
       THEN /\ tpc' = "read" /\ tjob' \in First(Followed) /\ tbatch' = jobs[tjob'].batch
       ELSE /\ tpc' = "pick" /\ UNCHANGED <<tjob, tbatch>>
    /\ UNCHANGED <<queueVars, tseen, caller, batchVars, history, boundVars>>

(* account_keeper_get_job, outside the lock; without a file the tick is over. *)
TickReads ==
    /\ tpc = "read"
    /\ IF HasFile(tbatch)
       THEN /\ tpc' = "report" /\ tseen' = Shown(batch[tbatch].status)
            /\ UNCHANGED <<tjob, tbatch>>
       ELSE TickEnds
    /\ UNCHANGED <<queueVars, caller, batchVars, history, boundVars>>

TickReports ==
    /\ tpc = "report"
    /\ Save(SetStatus(tjob, tseen))
    /\ TickEnds
    /\ UNCHANGED <<caller, batchVars, history, requests, overlaps, desktop, challenges>>

(* next_queued_job.                                                          *)
(* Mutant: a job that needs recovery does not hold the queue back.           *)
NextQueued_Anyway == First(With({"queued"}))

NextQueued == IF With(SlotStatuses) # {} THEN {} ELSE First(With({"queued"}))

TickPicks ==
    /\ tpc = "pick"
    /\ IF NextQueued # {}
       THEN tpc' = "start" /\ tjob' \in NextQueued /\ UNCHANGED <<tbatch, tseen>>
       ELSE TickEnds
    /\ UNCHANGED <<queueVars, caller, batchVars, history, boundVars>>

(* start_queued_job up to the answer of account_keeper_start_batch: the slot *)
(* is taken and the job stays queued, or a batch is claimed and spawned.     *)
TickFindsBusy ==
    /\ tpc = "start" /\ active # NoBatch
    /\ TickEnds
    /\ UNCHANGED <<queueVars, caller, batchVars, history, boundVars>>

TickStarts ==
    /\ tpc = "start" /\ active = NoBatch
    /\ \E b \in Batches :
          /\ Fresh(b)
          /\ batch' = [batch EXCEPT ![b] = NewBatch] /\ active' = b
          /\ starts' = [starts EXCEPT ![tjob] = @ \cup {b}] /\ claimed' = claimed \cup {b}
          /\ tpc' = "started" /\ tbatch' = b
    /\ UNCHANGED <<queueVars, tjob, tseen, caller, boundVars>>

(* The input cannot be read or prepared: the claim is released again.        *)
TickIsRefused ==
    /\ tpc = "start" /\ active = NoBatch
    /\ tpc' = "refused"
    /\ UNCHANGED <<queueVars, tjob, tbatch, tseen, caller, batchVars, history, boundVars>>

(* Mutant: the batch id is not kept.                                         *)
TickRecordsStart_NoId ==
    /\ tpc = "started"
    /\ Save(SetStatus(tjob, "running"))
    /\ TickEnds
    /\ UNCHANGED <<caller, batchVars, history, requests, overlaps, desktop, challenges>>

TickRecordsStart ==
    /\ tpc = "started"
    /\ Save([jobs EXCEPT ![tjob] = [status |-> "running", batch |-> tbatch]])
    /\ TickEnds
    /\ UNCHANGED <<caller, batchVars, history, requests, overlaps, desktop, challenges>>

TickRecordsRefusal ==
    /\ tpc = "refused"
    /\ Save(SetStatus(tjob, "failed"))
    /\ TickEnds
    /\ UNCHANGED <<caller, batchVars, history, requests, overlaps, desktop, challenges>>

Tick ==
    \/ Boot \/ TickScans \/ TickReads \/ TickReports \/ TickPicks \/ TickFindsBusy
    \/ TickStarts \/ TickIsRefused \/ TickRecordsStart \/ TickRecordsRefusal

-----------------------------------------------------------------------------
(* API requests.  Each one answers when it has nothing left to do.           *)

At(c, where) == caller[c].at = where

Goes(c, where, i) == caller' = [caller EXCEPT ![c] = [at |-> where, job |-> i]]

Answers(c) == caller' = [caller EXCEPT ![c] = Idle]

(* create_job pushes at the end, under the lock.                             *)
CreateJob ==
    /\ Len(jobs) < MaxJobs
    /\ Save(Append(jobs, [status |-> "queued", batch |-> NoBatch]))
    /\ UNCHANGED <<tickVars, caller, batchVars, history, requests, overlaps, desktop, challenges>>

Request ==
    LET overlap == IF \A c \in Callers : caller[c] = Idle THEN 0 ELSE 1 IN
    /\ Affordable(1, overlap, 0, 0, 0)
    /\ requests' = requests + 1 /\ overlaps' = overlaps + overlap

(* cancel_job reads the job, then takes the lock again or goes to the batch. *)
CancelAsks(c, i) ==
    /\ At(c, "idle") /\ Request
    /\ \/ jobs[i].status = "queued" /\ Goes(c, "cancel_queued", i)
       \/ jobs[i].status # "queued" /\ jobs[i].batch # NoBatch /\ Goes(c, "cancel_batch", i)
    /\ UNCHANGED <<queueVars, tickVars, batchVars, history, desktop, challenges, faults>>

CancelsQueued(c) ==
    /\ At(c, "cancel_queued")
    /\ Save(SetStatus(caller[c].job, "cancelled"))
    /\ Answers(c)
    /\ UNCHANGED <<tickVars, batchVars, history, requests, overlaps, desktop, challenges>>

(* account_keeper_cancel_batch: the active batch is told, and may be past    *)
(* listening; any other one is cancelled in its job file, if it has one.     *)
Tell(b) == batch' = [batch EXCEPT ![b].cancel = TRUE]

CancelInactive(b) ==
    batch' = [batch EXCEPT ![b].status = IF batch[b].unknown THEN "critical" ELSE "cancelled",
                           ![b].open = FALSE]

(* Mutant: the request goes to the job file alone.                           *)
CancelsBatch_FileOnly(c) ==
    /\ At(c, "cancel_batch")
    /\ Answers(c)
    /\ LET b == jobs[caller[c].job].batch IN
         IF HasFile(b) /\ active # b THEN CancelInactive(b) ELSE UNCHANGED batch
    /\ UNCHANGED <<queueVars, tickVars, active, history, boundVars>>

CancelsBatch(c) ==
    /\ At(c, "cancel_batch")
    /\ Answers(c)
    /\ LET b == jobs[caller[c].job].batch IN
         \/ active = b /\ Tell(b)
         \/ (active # b \/ batch[b].status \in EndStatuses) /\ HasFile(b) /\ CancelInactive(b)
         \/ active # b /\ ~HasFile(b) /\ UNCHANGED batch
    /\ UNCHANGED <<queueVars, tickVars, active, history, boundVars>>

(* continue_job: whatever the daemon read before, the control only counts    *)
(* for the active batch while it waits.                                      *)
ContinueJob(i) ==
    LET b == jobs[i].batch IN
    /\ Request
    /\ jobs[i].status = "waiting_manual"
    /\ active = b /\ batch[b].status = "waiting_manual"
    /\ batch' = [batch EXCEPT ![b].status = "running"]
    /\ UNCHANGED <<queueVars, tickVars, caller, active, history, desktop, challenges, faults>>

(* resume_job reads the job, resumes its batch and marks the job running.    *)
ResumeAsks(c, i) ==
    /\ At(c, "idle") /\ Request
    /\ jobs[i].status = "recovery_required" /\ jobs[i].batch # NoBatch
    /\ Goes(c, "resume_batch", i)
    /\ UNCHANGED <<queueVars, tickVars, batchVars, history, desktop, challenges, faults>>

ResumesBatch(c) ==
    LET b == jobs[caller[c].job].batch IN
    /\ At(c, "resume_batch")
    /\ IF active = NoBatch /\ Resumable(b)
       THEN /\ batch' = Reclaimed(b) /\ active' = b /\ claimed' = claimed \cup {b}
            /\ Goes(c, "resume_mark", caller[c].job)
       ELSE Answers(c) /\ UNCHANGED <<batchVars, claimed>>
    /\ UNCHANGED <<queueVars, tickVars, starts, boundVars>>

MarksResumed(c) ==
    /\ At(c, "resume_mark")
    /\ Save(SetStatus(caller[c].job, "running"))
    /\ Answers(c)
    /\ UNCHANGED <<tickVars, batchVars, history, requests, overlaps, desktop, challenges>>

GoesOn(c) == CancelsQueued(c) \/ CancelsBatch(c) \/ ResumesBatch(c) \/ MarksResumed(c)

Api ==
    \/ CreateJob
    \/ \E i \in DOMAIN jobs :
          ContinueJob(i) \/ \E c \in Callers : CancelAsks(c, i) \/ ResumeAsks(c, i)
    \/ \E c \in Callers : GoesOn(c)

-----------------------------------------------------------------------------
(* The active batch.                                                         *)

Outside == UNCHANGED <<queueVars, tickVars, caller, history, requests, overlaps, desktop>>

BatchRuns ==
    /\ active # NoBatch /\ batch[active].status = "queued"
    /\ batch' = [batch EXCEPT ![active].status = "running"]
    /\ Outside /\ UNCHANGED <<active, challenges, faults>>

BatchAsks ==
    /\ active # NoBatch /\ batch[active].status = "running"
    /\ Affordable(0, 0, 0, 1, 0) /\ challenges' = challenges + 1
    /\ batch' = [batch EXCEPT ![active].status = "waiting_manual"]
    /\ Outside /\ UNCHANGED <<active, faults>>

(* The challenge fails, or the desktop window answers it.                    *)
BatchGoesOn ==
    /\ active # NoBatch /\ batch[active].status = "waiting_manual"
    /\ batch' = [batch EXCEPT ![active].status = "running"]
    /\ Outside /\ UNCHANGED <<active, challenges, faults>>

(* How a batch may end: see AccountKeeper.                                   *)
Outcomes(b) ==
    {o \in [status : EndStatuses, open : BOOLEAN, unknown : BOOLEAN] :
        /\ o.unknown <=> o.status = "critical"
        /\ o.status \in {"completed", "cancelled"} => ~o.open
        /\ o.status = "cancelled" => batch[b].cancel
        /\ o.status = "paused" => batch[b].pause}

BatchEnds ==
    /\ active # NoBatch
    /\ \/ batch[active].status = "running"
       \/ batch[active].status = "waiting_manual" /\ batch[active].cancel
    /\ \E o \in Outcomes(active) :
          batch' = [batch EXCEPT ![active].status = o.status, ![active].open = o.open,
                                 ![active].unknown = o.unknown]
    /\ Outside /\ UNCHANGED <<active, challenges, faults>>

(* release_active_batch, after the end is in the job file.                   *)
(* Mutant: the batch stays claimed.                                          *)
BatchReleases_Never == FALSE /\ UNCHANGED vars

BatchReleases ==
    /\ active # NoBatch /\ batch[active].status \in EndStatuses
    /\ Released(active, batch[active])
    /\ Outside /\ UNCHANGED <<challenges, faults>>

(* run_batch fails and mark_job_run_error fails: the file says what it said. *)
BatchVanishes ==
    /\ active # NoBatch /\ batch[active].status \notin EndStatuses
    /\ Fault
    /\ \E u \in BOOLEAN : Released(active, [batch[active] EXCEPT !.unknown = u])
    /\ Outside /\ UNCHANGED challenges

Batch == BatchRuns \/ BatchEnds \/ BatchReleases

-----------------------------------------------------------------------------
(* The desktop window works on the same batches (its Cancel and Continue do  *)
(* what the requests above do), and the application may die.                 *)

Desktop == Affordable(0, 0, 1, 0, 0) /\ desktop' = desktop + 1

DesktopUnchanged == UNCHANGED <<queueVars, tickVars, caller, history, requests, overlaps,
                                challenges, faults>>

DesktopStarts ==
    /\ Desktop /\ active = NoBatch
    /\ \E b \in Batches :
          Fresh(b) /\ batch' = [batch EXCEPT ![b] = NewBatch] /\ active' = b
    /\ DesktopUnchanged

DesktopResumes ==
    /\ Desktop /\ active = NoBatch
    /\ \E b \in Batches : Resumable(b) /\ batch' = Reclaimed(b) /\ active' = b
    /\ DesktopUnchanged

DesktopPauses ==
    /\ Desktop /\ active # NoBatch
    /\ batch' = [batch EXCEPT ![active].pause = TRUE]
    /\ DesktopUnchanged /\ UNCHANGED active

(* account_keeper_abandon_job and account_keeper_clean_progress.             *)
DesktopForgets ==
    /\ Desktop
    /\ \E b \in Batches : /\ b # active /\ HasFile(b)
                          /\ batch' = [batch EXCEPT ![b].status = "deleted"]
    /\ DesktopUnchanged /\ UNCHANGED active

Crash ==
    /\ Fault
    /\ jobs' = saved
    /\ tpc' = "boot" /\ tjob' = NoJob /\ tbatch' = NoBatch /\ tseen' = "running"
    /\ claimed' = {}
    /\ caller' = [c \in Callers |-> Idle]
    /\ IF active = NoBatch
       THEN UNCHANGED batchVars
       ELSE \E u \in BOOLEAN :
               /\ batch[active].status \in EndStatuses => u = batch[active].unknown
               /\ Released(active, [batch[active] EXCEPT !.unknown = u])
    /\ UNCHANGED <<saved, starts, requests, overlaps, desktop, challenges>>

Next ==
    \/ Tick \/ Api \/ Batch \/ BatchAsks \/ BatchGoesOn \/ BatchVanishes
    \/ DesktopStarts \/ DesktopResumes \/ DesktopPauses \/ DesktopForgets \/ Crash

(* The ticking task runs for as long as the application does, a request goes *)
(* on once it has begun, and a batch that waits for nobody settles (shown    *)
(* for AccountKeeper).  Nobody owes the daemon a request.                    *)
Fairness == WF_vars(Tick) /\ WF_vars(Batch) /\ \A c \in Callers : WF_vars(GoesOn(c))

Spec == Init /\ [][Next]_vars /\ Fairness

-----------------------------------------------------------------------------
(* Properties.                                                               *)

(* Every variable keeps its type.                                            *)
TypeOK ==
    /\ jobs \in Seq(DaemonJobs) /\ Len(jobs) <= MaxJobs
    /\ saved \in Seq(DaemonJobs) /\ Len(saved) <= MaxJobs
    /\ tpc \in {"boot", "scan", "read", "report", "pick", "start", "started", "refused"}
    /\ tjob \in Jobs \cup {NoJob} /\ tbatch \in Batches \cup {NoBatch}
    /\ tseen \in {"running", "waiting_manual"} \cup FinishedStatuses
    /\ caller \in [Callers -> [at : {"idle", "cancel_queued", "cancel_batch",
                                     "resume_batch", "resume_mark"},
                              job : Jobs \cup {NoJob}]]
    /\ batch \in [Batches -> BatchRecords]
    /\ active \in Batches \cup {NoBatch}
    /\ starts \in [Jobs -> SUBSET Batches] /\ claimed \subseteq Batches
    /\ requests \in Nat /\ overlaps \in Nat /\ desktop \in Nat
    /\ challenges \in Nat /\ faults \in Nat

(* Whatever is cancelled, finished or added meanwhile, a batch is started    *)
(* for a job only when no job that came before it still waits for its turn.  *)
FifoStarts ==
    [][\A i \in Jobs : starts'[i] # starts[i] =>
           \A k \in DOMAIN jobs : k < i => jobs[k].status # "queued"]_vars

(* A job that needs recovery stays so until a resume request for it has      *)
(* resumed its batch, or the application dies again.                         *)
RecoveryIsExplicit ==
    [][\A i \in DOMAIN jobs :
           /\ jobs[i].status = "recovery_required"
           /\ jobs'[i].status # "recovery_required"
           => tpc' = "boot" \/ \E c \in Callers : At(c, "resume_mark") /\ caller[c].job = i]_vars

(* A job that is shown as live has a batch that was started or resumed since *)
(* the application came up: none is taken over from the file as it was.      *)
LiveWasClaimed ==
    tpc # "boot" => \A i \in With(ActiveStatuses) : jobs[i].batch \in claimed

(* The daemon never loses track of a batch it started: cancel_job can reach  *)
(* it through its job as soon as the start is recorded.                      *)
ActiveIsTracked ==
    \A i \in Jobs :
        active \in starts[i] \cap claimed =>
            \/ tpc = "started" /\ tjob = i /\ tbatch = active
            \/ i \in DOMAIN jobs /\ jobs[i].batch = active

(* A job that is shown as completed has left no account undone and no        *)
(* password unknown, whichever status was read when.                         *)
CompletedIsComplete ==
    \A i \in With({"completed"}) :
        ~batch[jobs[i].batch].open /\ ~batch[jobs[i].batch].unknown

(* One job at a time holds the daemon's slot, as long as requests come one   *)
(* after the other.                                                          *)
OneSlot == overlaps = 0 => Cardinality(With(SlotStatuses)) <= 1

(* A job that is shown as cancelled has no batch at work, whether the cancel  *)
(* found it queued or running.                                               *)
CancelledNeverRuns ==
    \A i \in With({"cancelled"}) :
        active \in starts[i] => batch[active].status \in EndStatuses

(* A job is started once, whatever is cancelled, resumed or forgotten        *)
(* meanwhile: nothing but a crash or a failed save between the start of its  *)
(* batch and the saved id of it has the job started again.                   *)
StartedOnce == faults = 0 => \A i \in Jobs : Cardinality(starts[i]) <= 1

Waits == active # NoBatch /\ batch[active].status = "waiting_manual"

(* Every job that is created is finished sooner or later, unless the         *)
(* operator leaves a manual challenge unsolved, works on the batches through *)
(* the desktop window, or the application fails.                             *)
QueueDrains ==
    \A i \in Jobs : i \in DOMAIN jobs
        ~> i \in With(FinishedStatuses) \/ Waits \/ desktop > 0 \/ faults > 0

(* A cancel request that has reached a job's batch ends the job, unless the  *)
(* desktop window or a failure takes the batch away meanwhile.               *)
CancelEndsJob ==
    \A i \in Jobs : (\E c \in Callers : At(c, "cancel_batch") /\ caller[c].job = i)
        ~> i \in With(FinishedStatuses) \/ desktop > 0 \/ faults > 0

(* The daemon knows what it runs: every variable has its type, a live job     *)
(* has a batch of this run, and a running batch has its job (tick,           *)
(* recover_after_restart).                                                   *)
Tracking == TypeOK /\ LiveWasClaimed /\ ActiveIsTracked

(* Batches are started in the order of the jobs, and one that needs recovery *)
(* goes on at a request only (next_queued_job, resume_job).                  *)
StartsByRule == FifoStarts /\ RecoveryIsExplicit
=============================================================================
