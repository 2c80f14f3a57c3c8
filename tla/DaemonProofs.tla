----------------------------- MODULE DaemonProofs -----------------------------
(***************************************************************************)
(* Theorems about Daemon, for any number of callers, jobs and batches and    *)
(* any budgets: its safety properties hold however ticks, requests, the      *)
(* desktop window, failed saves and crashes interleave.                      *)
(***************************************************************************)
EXTENDS Daemon, FiniteSetTheorems, SequenceTheorems, TLAPS

(* A batch that has nothing left to do, and cannot be resumed.               *)
Done(b) ==
    /\ batch[b].status \in EndStatuses \cup {"deleted"}
    /\ ~batch[b].open /\ ~batch[b].unknown

(* The queue in memory, and the one in the file: a job has a batch once it   *)
(* has been started, and only one of its own.                                *)
QueueOK(q) ==
    \A i \in DOMAIN q :
        /\ q[i].status = "queued" => q[i].batch = NoBatch
        /\ q[i].status \in SlotStatuses => q[i].batch # NoBatch
        /\ q[i].batch # NoBatch => q[i].batch \in starts[i]
        /\ q[i].status = "completed" => q[i].batch # NoBatch /\ Done(q[i].batch)

(* The job in the tick's hand is the one it was when the tick looked, as far *)
(* as the next step needs it.                                                *)
Following == tpc \in {"read", "report"}
Starting == tpc \in {"start", "started", "refused"}

TickHand ==
    /\ Following \/ Starting => tjob \in DOMAIN jobs
    /\ Following => /\ tbatch \in claimed /\ jobs[tjob].batch = tbatch
                    /\ jobs[tjob].status # "recovery_required"
    /\ tpc = "report" /\ tseen = "completed" => Done(tbatch)
    /\ Starting => jobs[tjob].batch = NoBatch /\ jobs[tjob].status \in {"queued", "cancelled"}
    /\ tpc = "start" => \A k \in DOMAIN jobs : k < tjob => jobs[k].status # "queued"
    /\ tpc = "started" => tbatch \in starts[tjob] /\ tbatch \in claimed

(* The job in a request's hand.                                              *)
CallerHand ==
    \A c \in Callers :
        LET i == caller[c].job IN
        /\ ~At(c, "idle") => i \in DOMAIN jobs
        /\ At(c, "cancel_batch") \/ At(c, "resume_batch") => jobs[i].batch # NoBatch
        /\ At(c, "resume_mark") => jobs[i].batch \in claimed
        /\ At(c, "cancel_queued") => jobs[i].status # "recovery_required"
        /\ At(c, "cancel_queued") /\ tpc = "boot" =>
               jobs[i].status \in {"queued", "cancelled"} /\ jobs[i].batch = NoBatch

(* Every batch the daemon has claimed since it came up is its job's, or is   *)
(* about to be recorded.                                                     *)
Tracked ==
    \A i \in Jobs : \A b \in starts[i] \cap claimed :
        \/ tpc = "started" /\ tjob = i /\ tbatch = b
        \/ i \in DOMAIN jobs /\ jobs[i].batch = b

(* A batch is started for one job, once.                                     *)
Started ==
    /\ \A i, k \in Jobs : i # k => starts[i] \cap starts[k] = {}
    /\ \A i \in Jobs : \A b \in starts[i] : batch[b].status # "unborn"
    /\ faults = 0 => \A i \in Jobs : starts[i] \subseteq claimed

Files ==
    /\ active # NoBatch => HasFile(active)
    /\ \A b \in Batches : batch[b].status = "completed" => ~batch[b].open /\ ~batch[b].unknown

(* As long as requests come one after the other, one job holds the slot.     *)
SlotOne(q) ==
    \A i, k \in DOMAIN q : q[i].status \in SlotStatuses /\ q[k].status \in SlotStatuses => i = k

Alone ==
    /\ SlotOne(jobs) /\ SlotOne(saved)
    /\ \A c, d \in Callers : ~At(c, "idle") /\ ~At(d, "idle") => c = d
    /\ \A c \in Callers : At(c, "resume_batch") \/ At(c, "resume_mark") =>
           jobs[caller[c].job].status = "recovery_required"
    /\ Following => \A i \in DOMAIN jobs : jobs[i].status \in SlotStatuses => i = tjob
    /\ Starting => \A i \in DOMAIN jobs : jobs[i].status \notin SlotStatuses

DaemonInv ==
    /\ TypeOK /\ QueueOK(jobs) /\ QueueOK(saved) /\ TickHand /\ CallerHand
    /\ LiveWasClaimed /\ Tracked /\ Started /\ Files
    /\ overlaps = 0 => Alone
-----------------------------------------------------------------------------
(* What the type says of the queue.                                          *)
LEMMA Kinds ==
    ASSUME TypeOK
    PROVE  /\ jobs \in Seq(DaemonJobs) /\ Len(jobs) \in Nat /\ DOMAIN jobs = 1 .. Len(jobs)
           /\ DOMAIN jobs \subseteq Jobs /\ DOMAIN jobs \subseteq Nat
           /\ \A i \in DOMAIN jobs : /\ jobs[i] \in DaemonJobs
                                    /\ jobs[i].batch \in Batches \cup {NoBatch}
           /\ NoBatch \notin Batches
<1>1. /\ jobs \in Seq(DaemonJobs) /\ Len(jobs) \in Nat /\ DOMAIN jobs = 1 .. Len(jobs)
      /\ Len(jobs) <= MaxJobs
    BY DEF TypeOK
<1>2. MaxJobs \in Nat /\ MaxBatches \in Nat
    BY BoundsAssumption
<1>3. \A i \in DOMAIN jobs : jobs[i] \in DaemonJobs
    BY <1>1
<1> QED
    BY <1>1, <1>2, <1>3 DEF Jobs, DaemonJobs, Batches, NoBatch

Statuses == {"queued"} \cup SlotStatuses \cup FinishedStatuses

(* One job gets another record.                                              *)
LEMMA Updated ==
    ASSUME TypeOK, NEW i \in DOMAIN jobs, NEW job \in DaemonJobs
    PROVE  LET q == [jobs EXCEPT ![i] = job] IN
           /\ q \in Seq(DaemonJobs) /\ Len(q) = Len(jobs) /\ DOMAIN q = DOMAIN jobs
           /\ \A k \in DOMAIN jobs : q[k] = IF k = i THEN job ELSE jobs[k]
<1>1. i \in 1 .. Len(jobs)
    BY Kinds
<1> QED
    BY <1>1, Kinds, ExceptSeq

(* SetStatus.                                                                *)
LEMMA SetStatusIs ==
    ASSUME TypeOK, NEW i \in DOMAIN jobs, NEW status \in Statuses
    PROVE  /\ SetStatus(i, status) \in Seq(DaemonJobs)
           /\ Len(SetStatus(i, status)) = Len(jobs)
           /\ DOMAIN SetStatus(i, status) = DOMAIN jobs
           /\ \A k \in DOMAIN jobs :
                  /\ SetStatus(i, status)[k].status = IF k = i THEN status ELSE jobs[k].status
                  /\ SetStatus(i, status)[k].batch = jobs[k].batch
<1> DEFINE job == [jobs[i] EXCEPT !.status = status]
<1>1. job \in DaemonJobs /\ job.status = status /\ job.batch = jobs[i].batch
    BY Kinds DEF DaemonJobs, Statuses
<1>2. SetStatus(i, status) = [jobs EXCEPT ![i] = job]
    BY DEF SetStatus
<1> HIDE DEF job
<1> QED
    BY <1>1, <1>2, Updated

(* A change of the queue: the file has it as well, or a fault is spent.      *)
LEMMA Saves ==
    ASSUME TypeOK, NEW queue, Save(queue)
    PROVE  /\ jobs' = queue /\ (saved' = queue \/ saved' = saved)
           /\ faults' \in Nat /\ (faults' = 0 => faults = 0)
BY DEF Save, Fault, TypeOK

(* It holds when the application comes up for the first time.                *)
LEMMA DaemonInvInit == Init => DaemonInv
<1> SUFFICES ASSUME Init PROVE DaemonInv
    OBVIOUS
<1>1. MaxJobs \in Nat /\ MaxBatches \in Nat
    BY BoundsAssumption
<1>2. jobs = << >> /\ saved = << >> /\ Len(<< >>) = 0 /\ DOMAIN << >> = {}
      /\ << >> \in Seq(DaemonJobs)
    BY DEF Init
<1>3. [NewBatch EXCEPT !.status = "unborn"] \in BatchRecords
    BY DEF NewBatch, BatchRecords, BatchStatuses
<1>4. TypeOK
    BY <1>1, <1>2, <1>3 DEF Init, TypeOK, Idle, NoJob, NoBatch, Batches, Jobs
<1>5. QueueOK(jobs) /\ QueueOK(saved)
    BY <1>2 DEF QueueOK
<1>6. TickHand /\ CallerHand /\ LiveWasClaimed /\ Tracked
    BY <1>2 DEF Init, TickHand, Following, Starting, CallerHand, At, Idle, LiveWasClaimed, Tracked
<1>7. Started /\ Files
    BY DEF Init, Started, Files, NewBatch
<1>8. Alone
    BY <1>2 DEF Init, Alone, SlotOne, At, Idle, Following, Starting
<1> QED
    BY <1>4, <1>5, <1>6, <1>7, <1>8 DEF DaemonInv

-----------------------------------------------------------------------------
(* Steps that leave the queue alone.                                         *)

(* One batch changes; a batch that is done stays done.                       *)
LEMMA OneBatch ==
    ASSUME DaemonInv, UNCHANGED <<queueVars, tickVars, history>>,
           \/ UNCHANGED caller
           \/ \E c \in Callers : caller' = [caller EXCEPT ![c] = Idle],
           requests' \in Nat, overlaps' \in Nat, desktop' \in Nat, challenges' \in Nat, faults' \in Nat,
           overlaps' = 0 => overlaps = 0, faults' = 0 => faults = 0,
           NEW b \in Batches, NEW record \in BatchRecords, batch' = [batch EXCEPT ![b] = record],
           Done(b) => record.status \in EndStatuses \cup {"deleted"} /\ ~record.open /\ ~record.unknown,
           batch[b].status # "unborn" => record.status # "unborn",
           record.status = "completed" => ~record.open /\ ~record.unknown,
           active' \in Batches \cup {NoBatch},
           active' # NoBatch =>
               \/ active' = b /\ record.status \notin {"unborn", "deleted"}
               \/ active' # b /\ active' = active
    PROVE  DaemonInv'
<1> USE DEF DaemonInv
<1>1. UNCHANGED <<jobs, saved, tpc, tjob, tbatch, tseen, starts, claimed>>
    BY DEF queueVars, tickVars, history
<1>2. /\ batch' \in [Batches -> BatchRecords]
      /\ \A x \in Batches : batch'[x] = IF x = b THEN record ELSE batch[x]
    BY DEF TypeOK
<1>3. \A x \in Batches : Done(x) => Done(x)'
    BY <1>2 DEF Done
<1>4. \A c \in Callers : caller'[c] = caller[c] \/ caller'[c] = Idle
    BY DEF TypeOK
<1>5. TypeOK'
  <2>1. Idle \in [at : {"idle", "cancel_queued", "cancel_batch", "resume_batch", "resume_mark"},
                  job : Jobs \cup {NoJob}]
      BY DEF Idle
  <2>2. caller' \in [Callers -> [at : {"idle", "cancel_queued", "cancel_batch",
                                       "resume_batch", "resume_mark"}, job : Jobs \cup {NoJob}]]
      BY <2>1 DEF TypeOK
  <2> QED
      BY <1>1, <1>2, <2>2 DEF TypeOK
<1>6. QueueOK(jobs)' /\ QueueOK(saved)'
  <2>1. starts \in [Jobs -> SUBSET Batches] /\ DOMAIN jobs \subseteq Jobs /\ DOMAIN saved \subseteq Jobs
      BY BoundsAssumption DEF TypeOK, Jobs
  <2>2. \A i \in DOMAIN jobs : jobs[i].batch # NoBatch => jobs[i].batch \in Batches
      BY <2>1 DEF QueueOK
  <2>3. \A i \in DOMAIN saved : saved[i].batch # NoBatch => saved[i].batch \in Batches
      BY <2>1 DEF QueueOK
  <2> QED
      BY <1>1, <1>3, <2>2, <2>3 DEF QueueOK
<1>7. TickHand'
  <2>1. claimed \subseteq Batches
      BY DEF TypeOK
  <2>2. tpc = "report" => tbatch \in Batches
      BY <2>1 DEF TickHand, Following
  <2> QED
      BY <1>1, <1>3, <2>2 DEF TickHand, Following, Starting
<1>8. CallerHand'
    BY <1>1, <1>4 DEF CallerHand, At, Idle
<1>9. LiveWasClaimed' /\ Tracked'
    BY <1>1 DEF LiveWasClaimed, With, Tracked
<1>10. Started'
    BY <1>1, <1>2 DEF Started, TypeOK
<1>11. Files'
    BY <1>2 DEF Files, HasFile
<1>12. ASSUME overlaps' = 0 PROVE Alone'
  <2>1. Alone
      BY <1>12
  <2> QED
      BY <1>1, <1>4, <2>1 DEF Alone, SlotOne, At, Idle, Following, Starting
<1> QED
    BY <1>5, <1>6, <1>7, <1>8, <1>9, <1>10, <1>11, <1>12

(* What the active batch and the desktop window may do.                      *)
LEMMA ActiveSteps ==
    ASSUME DaemonInv,
           \/ BatchRuns \/ BatchAsks \/ BatchGoesOn \/ BatchEnds \/ BatchReleases \/ BatchVanishes
           \/ DesktopPauses
    PROVE  DaemonInv'
<1> DEFINE b == active
           old == batch[active]
<1>1. b \in Batches /\ HasFile(b) /\ old \in BatchRecords /\ batch \in [Batches -> BatchRecords]
    BY DEF DaemonInv, TypeOK, Files, BatchRuns, BatchAsks, BatchGoesOn, BatchEnds, BatchReleases,
           BatchVanishes, DesktopPauses
<1>2. /\ UNCHANGED <<queueVars, tickVars, caller, history>> /\ overlaps' = overlaps
      /\ requests' \in Nat /\ overlaps' \in Nat /\ desktop' \in Nat /\ challenges' \in Nat
      /\ faults' \in Nat /\ (faults' = 0 => faults = 0)
  <2>1. /\ requests \in Nat /\ overlaps \in Nat /\ desktop \in Nat /\ challenges \in Nat
        /\ faults \in Nat
      BY DEF DaemonInv, TypeOK
  <2>2. /\ UNCHANGED <<queueVars, tickVars, caller, history, requests, overlaps>>
        /\ desktop' \in {desktop, desktop + 1} /\ challenges' \in {challenges, challenges + 1}
        /\ faults' \in {faults, faults + 1}
      BY DEF BatchRuns, BatchAsks, BatchGoesOn, BatchEnds, BatchReleases, BatchVanishes,
             DesktopPauses, Outside, DesktopUnchanged, Desktop, Fault
  <2> QED
      BY <2>1, <2>2
<1>3. ASSUME NEW record \in BatchRecords, batch' = [batch EXCEPT ![b] = record],
             Done(b) => record.status \in EndStatuses \cup {"deleted"} /\ ~record.open /\ ~record.unknown,
             record.status \notin {"unborn", "deleted"},
             record.status = "completed" => ~record.open /\ ~record.unknown,
             active' \in {active, NoBatch}
      PROVE  DaemonInv'
    BY <1>1, <1>2, <1>3, OneBatch
<1>4. old.status = "completed" => ~old.open /\ ~old.unknown
    BY <1>1 DEF DaemonInv, Files
<1>5. old.status \notin {"unborn", "deleted"}
    BY <1>1 DEF HasFile
<1>6. Done(b) => old.status \in EndStatuses /\ ~old.open /\ ~old.unknown
    BY <1>5 DEF Done
<1>7. ASSUME NEW status \in {"running", "waiting_manual"}, old.status \notin EndStatuses,
             batch' = [batch EXCEPT ![b].status = status], active' = active
      PROVE  DaemonInv'
  <2> DEFINE record == [old EXCEPT !.status = status]
  <2>1. record \in BatchRecords /\ record.status = status
      BY <1>1 DEF BatchRecords, BatchStatuses
  <2>2. batch' = [batch EXCEPT ![b] = record]
      BY <1>7
  <2> HIDE DEF record
  <2> QED
      BY <1>3, <1>6, <1>7, <2>1, <2>2
<1>8. CASE BatchRuns \/ BatchAsks \/ BatchGoesOn
    BY <1>7, <1>8 DEF BatchRuns, BatchAsks, BatchGoesOn, EndStatuses
<1>9. CASE BatchEnds
  <2>1. PICK o \in Outcomes(b) :
            batch' = [batch EXCEPT ![b].status = o.status, ![b].open = o.open, ![b].unknown = o.unknown]
      BY <1>9 DEF BatchEnds
  <2>2. /\ o.status \in EndStatuses /\ o.open \in BOOLEAN /\ o.unknown \in BOOLEAN
        /\ o.status = "completed" => ~o.open /\ ~o.unknown
      BY DEF Outcomes
  <2> DEFINE record == [old EXCEPT !.status = o.status, !.open = o.open, !.unknown = o.unknown]
  <2>3. record \in BatchRecords /\ record.status = o.status /\ record.open = o.open
        /\ record.unknown = o.unknown
      BY <1>1, <2>2 DEF BatchRecords, BatchStatuses
  <2>4. batch' = [batch EXCEPT ![b] = record] /\ active' = active
      BY <1>1, <1>9, <2>1 DEF BatchEnds
  <2>5. ~Done(b) /\ record.status \notin {"unborn", "deleted"}
      BY <1>6, <1>9, <2>2, <2>3 DEF BatchEnds, EndStatuses
  <2> HIDE DEF record
  <2> QED
      BY <1>3, <2>2, <2>3, <2>4, <2>5
<1>10. ASSUME NEW unknown \in BOOLEAN, Released(b, [old EXCEPT !.unknown = unknown]),
              old.status \in EndStatuses => unknown = old.unknown
       PROVE  DaemonInv'
  <2> DEFINE record == [[old EXCEPT !.unknown = unknown] EXCEPT !.cancel = FALSE, !.pause = FALSE]
  <2>1. record \in BatchRecords /\ record.status = old.status /\ record.open = old.open
        /\ record.unknown = unknown
      BY <1>1 DEF BatchRecords
  <2>2. batch' = [batch EXCEPT ![b] = record] /\ active' = NoBatch
      BY <1>10 DEF Released
  <2> HIDE DEF record
  <2> QED
      BY <1>3, <1>4, <1>5, <1>6, <1>10, <2>1, <2>2 DEF EndStatuses
<1>11. CASE BatchReleases
  <2>1. old = [old EXCEPT !.unknown = old.unknown] /\ old.unknown \in BOOLEAN
      BY <1>1 DEF BatchRecords
  <2> QED
      BY <1>10, <1>11, <2>1 DEF BatchReleases
<1>12. CASE BatchVanishes
    BY <1>10, <1>12 DEF BatchVanishes
<1>13. CASE DesktopPauses
  <2> DEFINE record == [old EXCEPT !.pause = TRUE]
  <2>1. record \in BatchRecords /\ record.status = old.status /\ record.open = old.open
        /\ record.unknown = old.unknown
      BY <1>1 DEF BatchRecords
  <2>2. batch' = [batch EXCEPT ![b] = record] /\ active' = active
      BY <1>13 DEF DesktopPauses
  <2> HIDE DEF record
  <2> QED
      BY <1>3, <1>4, <1>5, <1>6, <2>1, <2>2
<1> QED
    BY <1>8, <1>9, <1>11, <1>12, <1>13

(* The desktop window starts, resumes or forgets a batch.                    *)
LEMMA WindowSteps ==
    ASSUME DaemonInv, DesktopStarts \/ DesktopResumes \/ DesktopForgets
    PROVE  DaemonInv'
<1>1. batch \in [Batches -> BatchRecords] /\ active \in Batches \cup {NoBatch}
    BY DEF DaemonInv, TypeOK
<1>2. /\ UNCHANGED <<queueVars, tickVars, caller, history>> /\ overlaps' = overlaps
      /\ requests' \in Nat /\ overlaps' \in Nat /\ desktop' \in Nat /\ challenges' \in Nat
      /\ faults' \in Nat /\ (faults' = 0 => faults = 0)
    BY DEF DaemonInv, TypeOK, DesktopStarts, DesktopResumes, DesktopForgets, DesktopUnchanged, Desktop
<1>3. CASE DesktopStarts
  <2>1. PICK b \in Batches : Fresh(b) /\ batch' = [batch EXCEPT ![b] = NewBatch] /\ active' = b
      BY <1>3 DEF DesktopStarts
  <2>2. NewBatch \in BatchRecords /\ NewBatch.status = "queued"
      BY DEF NewBatch, BatchRecords, BatchStatuses
  <2>3. ~Done(b)
      BY <2>1 DEF Fresh, Done, EndStatuses
  <2> QED
      BY <1>2, <2>1, <2>2, <2>3, OneBatch
<1>4. CASE DesktopResumes
  <2>1. PICK b \in Batches : Resumable(b) /\ batch' = Reclaimed(b) /\ active' = b
      BY <1>4 DEF DesktopResumes
  <2> DEFINE record == [batch[b] EXCEPT !.status = "queued"]
  <2>2. record \in BatchRecords /\ record.status = "queued"
      BY <1>1 DEF BatchRecords, BatchStatuses
  <2>3. batch' = [batch EXCEPT ![b] = record]
      BY <2>1 DEF Reclaimed
  <2>4. ~Done(b)
      BY <2>1 DEF Resumable, Done
  <2> HIDE DEF record
  <2> QED
      BY <1>2, <2>1, <2>2, <2>3, <2>4, OneBatch
<1>5. CASE DesktopForgets
  <2>1. PICK b \in Batches : /\ b # active /\ HasFile(b)
                             /\ batch' = [batch EXCEPT ![b].status = "deleted"]
      BY <1>5 DEF DesktopForgets
  <2> DEFINE record == [batch[b] EXCEPT !.status = "deleted"]
  <2>2. record \in BatchRecords /\ record.status = "deleted" /\ record.open = batch[b].open
        /\ record.unknown = batch[b].unknown
      BY <1>1 DEF BatchRecords, BatchStatuses
  <2>3. batch' = [batch EXCEPT ![b] = record] /\ active' = active
      BY <1>5, <2>1 DEF DesktopForgets
  <2>4. Done(b) => ~batch[b].open /\ ~batch[b].unknown
      BY DEF Done
  <2> HIDE DEF record
  <2> QED
      BY <1>1, <1>2, <2>1, <2>2, <2>3, <2>4, OneBatch
<1> QED
    BY <1>3, <1>4, <1>5

-----------------------------------------------------------------------------
(* The tick.                                                                 *)

(* A step of the tick that leaves queue, requests and batches alone.         *)
LEMMA TickMoves ==
    ASSUME DaemonInv, UNCHANGED <<queueVars, caller, batchVars, history, boundVars>>,
           tpc \notin {"boot", "started"},
           tpc' \in {"scan", "read", "report", "pick", "start", "refused"},
           tjob' \in Jobs \cup {NoJob}, tbatch' \in Batches \cup {NoBatch},
           tseen' \in {"running", "waiting_manual"} \cup FinishedStatuses,
           TickHand',
           overlaps = 0 /\ Following' =>
               \A i \in DOMAIN jobs : jobs[i].status \in SlotStatuses => i = tjob',
           overlaps = 0 /\ Starting' => \A i \in DOMAIN jobs : jobs[i].status \notin SlotStatuses
    PROVE  DaemonInv'
<1> USE DEF DaemonInv
<1>1. UNCHANGED <<jobs, saved, caller, batch, active, starts, claimed,
                  requests, overlaps, desktop, challenges, faults>>
    BY DEF queueVars, batchVars, history, boundVars
<1>2. TypeOK'
    BY <1>1 DEF TypeOK
<1>3. QueueOK(jobs)' /\ QueueOK(saved)'
    BY <1>1 DEF QueueOK, Done
<1>4. CallerHand'
    BY <1>1 DEF CallerHand, At
<1>5. LiveWasClaimed' /\ Tracked'
    BY <1>1 DEF LiveWasClaimed, With, Tracked
<1>6. Started' /\ Files'
    BY <1>1 DEF Started, Files, HasFile
<1>7. ASSUME overlaps' = 0 PROVE Alone'
    BY <1>1, <1>7 DEF Alone, SlotOne, At
<1> QED
    BY <1>2, <1>3, <1>4, <1>5, <1>6, <1>7

(* A tick that is over holds nothing.                                        *)
LEMMA TickOver ==
    ASSUME TickEnds
    PROVE  /\ TickHand' /\ ~Following' /\ ~Starting' /\ tpc' = "scan"
           /\ tjob' \in Jobs \cup {NoJob} /\ tbatch' \in Batches \cup {NoBatch}
           /\ tseen' \in {"running", "waiting_manual"} \cup FinishedStatuses
BY DEF TickEnds, TickHand, Following, Starting

LEMMA QuietTicks ==
    ASSUME DaemonInv, TickScans \/ TickReads \/ TickPicks \/ TickFindsBusy \/ TickIsRefused
    PROVE  DaemonInv'
<1> USE DEF DaemonInv
<1>1. UNCHANGED <<queueVars, caller, batchVars, history, boundVars>>
    BY DEF TickScans, TickReads, TickPicks, TickFindsBusy, TickIsRefused
<1>2. UNCHANGED <<jobs, saved, starts, claimed, batch>>
    BY <1>1 DEF queueVars, batchVars, history
<1>3. /\ tjob \in Jobs \cup {NoJob} /\ tbatch \in Batches \cup {NoBatch}
      /\ tseen \in {"running", "waiting_manual"} \cup FinishedStatuses
      /\ claimed \subseteq Batches
    BY DEF TypeOK
<1>4. tpc \notin {"boot", "started"}
    BY DEF TickScans, TickReads, TickPicks, TickFindsBusy, TickIsRefused
<1>5. CASE TickEnds
    BY <1>1, <1>4, <1>5, TickOver, TickMoves
<1>6. CASE TickScans
  <2>1. CASE Followed # {}
    <3>1. /\ tpc = "scan" /\ tpc' = "read" /\ tjob' \in Followed /\ tbatch' = jobs[tjob'].batch
          /\ tseen' = tseen
        BY <1>6, <2>1 DEF TickScans, First
    <3>2. /\ tjob' \in DOMAIN jobs /\ jobs[tjob'].status \in ActiveStatuses
          /\ jobs[tjob'].batch \in claimed
        BY <3>1 DEF Followed, With, LiveWasClaimed
    <3>3. TickHand'
        BY <1>2, <3>1, <3>2 DEF TickHand, Following, Starting, ActiveStatuses
    <3>4. overlaps = 0 => \A i \in DOMAIN jobs : jobs[i].status \in SlotStatuses => i = tjob'
        BY <3>2 DEF Alone, SlotOne, SlotStatuses
    <3>5. ~Starting' /\ tjob' \in Jobs /\ tbatch' \in Batches
        BY <1>3, <3>1, <3>2, Kinds DEF Starting
    <3> QED
        BY <1>1, <1>3, <1>4, <3>1, <3>3, <3>4, <3>5, TickMoves
  <2>2. CASE Followed = {}
    <3>1. tpc' = "pick" /\ UNCHANGED <<tjob, tbatch, tseen>>
        BY <1>6, <2>2 DEF TickScans
    <3>2. TickHand' /\ ~Following' /\ ~Starting'
        BY <3>1 DEF TickHand, Following, Starting
    <3> QED
        BY <1>1, <1>3, <1>4, <3>1, <3>2, TickMoves
  <2> QED
      BY <2>1, <2>2
<1>7. CASE TickReads /\ ~TickEnds
  <2>1. /\ tpc = "read" /\ HasFile(tbatch) /\ tpc' = "report"
        /\ tseen' = Shown(batch[tbatch].status) /\ UNCHANGED <<tjob, tbatch>>
      BY <1>7 DEF TickReads
  <2>2. /\ tjob \in DOMAIN jobs /\ tbatch \in claimed /\ jobs[tjob].batch = tbatch
        /\ jobs[tjob].status # "recovery_required" /\ tbatch \in Batches
      BY <1>3, <2>1 DEF TickHand, Following
  <2>3. batch[tbatch].status \in BatchStatuses
      BY <2>2 DEF TypeOK, BatchRecords
  <2>4. /\ tseen' \in {"running", "waiting_manual"} \cup FinishedStatuses
        /\ tseen' = "completed" => batch[tbatch].status = "completed"
      BY <2>1, <2>3 DEF Shown, HasFile, BatchStatuses, EndStatuses, FinishedStatuses
  <2>5. tseen' = "completed" => Done(tbatch)
      BY <2>2, <2>4 DEF Files, Done, EndStatuses
  <2>6. TickHand'
      BY <1>2, <2>1, <2>2, <2>5 DEF TickHand, Following, Starting, Done
  <2>7. overlaps = 0 => \A i \in DOMAIN jobs : jobs[i].status \in SlotStatuses => i = tjob'
      BY <2>1 DEF Alone, Following
  <2>8. ~Starting'
      BY <2>1 DEF Starting
  <2> QED
      BY <1>1, <1>3, <1>4, <2>1, <2>4, <2>6, <2>7, <2>8, TickMoves
<1>8. CASE TickPicks /\ ~TickEnds
  <2>1. /\ NextQueued # {} /\ tpc' = "start" /\ tjob' \in NextQueued /\ UNCHANGED <<tbatch, tseen>>
      BY <1>8 DEF TickPicks
  <2>2. /\ With(SlotStatuses) = {} /\ tjob' \in DOMAIN jobs /\ jobs[tjob'].status = "queued"
        /\ \A k \in DOMAIN jobs : jobs[k].status = "queued" => tjob' <= k
      BY <2>1 DEF NextQueued, First, With
  <2>3. \A k \in DOMAIN jobs : k < tjob' => jobs[k].status # "queued"
      BY <2>2, Kinds
  <2>4. TickHand'
      BY <1>2, <2>1, <2>2, <2>3 DEF TickHand, Following, Starting, QueueOK
  <2>5. ~Following' /\ tjob' \in Jobs
      BY <2>1, <2>2, Kinds DEF Following
  <2>6. \A i \in DOMAIN jobs : jobs[i].status \notin SlotStatuses
      BY <2>2 DEF With
  <2> QED
      BY <1>1, <1>3, <1>4, <2>1, <2>4, <2>5, <2>6, TickMoves
<1>9. CASE TickIsRefused
  <2>1. tpc = "start" /\ tpc' = "refused" /\ UNCHANGED <<tjob, tbatch, tseen>>
      BY <1>9 DEF TickIsRefused
  <2>2. TickHand' /\ ~Following'
      BY <1>2, <2>1 DEF TickHand, Following, Starting
  <2>3. overlaps = 0 => \A i \in DOMAIN jobs : jobs[i].status \notin SlotStatuses
      BY <2>1 DEF Alone, Starting
  <2> QED
      BY <1>1, <1>3, <1>4, <2>1, <2>2, <2>3, TickMoves
<1> QED
    BY <1>5, <1>6, <1>7, <1>8, <1>9 DEF TickFindsBusy

(* A batch is started: a fresh one, for the job in hand alone.               *)
LEMMA StartStep ==
    ASSUME DaemonInv, TickStarts
    PROVE  DaemonInv'
<1> USE DEF DaemonInv
<1>1. PICK b \in Batches :
          /\ Fresh(b) /\ batch' = [batch EXCEPT ![b] = NewBatch] /\ active' = b
          /\ starts' = [starts EXCEPT ![tjob] = @ \cup {b}] /\ claimed' = claimed \cup {b}
          /\ tpc' = "started" /\ tbatch' = b
    BY DEF TickStarts
<1>2. /\ tpc = "start" /\ UNCHANGED <<jobs, saved, tjob, tseen, caller>>
      /\ UNCHANGED <<requests, overlaps, desktop, challenges, faults>>
    BY DEF TickStarts, queueVars, boundVars
<1>3. /\ tjob \in DOMAIN jobs /\ tjob \in Jobs /\ jobs[tjob].batch = NoBatch
      /\ jobs[tjob].status \in {"queued", "cancelled"}
    BY <1>2, Kinds DEF TickHand, Starting
<1>4. /\ batch \in [Batches -> BatchRecords] /\ starts \in [Jobs -> SUBSET Batches]
      /\ claimed \subseteq Batches
    BY DEF TypeOK
<1>5. /\ batch' \in [Batches -> BatchRecords] /\ NewBatch \in BatchRecords
      /\ \A x \in Batches : batch'[x] = IF x = b THEN NewBatch ELSE batch[x]
      /\ NewBatch.status = "queued"
    BY <1>1, <1>4 DEF NewBatch, BatchRecords, BatchStatuses
<1>6. /\ starts' \in [Jobs -> SUBSET Batches]
      /\ \A i \in Jobs : starts'[i] = IF i = tjob THEN starts[i] \cup {b} ELSE starts[i]
    BY <1>1, <1>3, <1>4
<1>7. batch[b].status = "unborn" /\ \A i \in Jobs : b \notin starts[i]
    BY <1>1 DEF Fresh, Started
<1>8. \A x \in Batches : Done(x) => Done(x)'
    BY <1>5, <1>7 DEF Done, EndStatuses
<1>9. TypeOK'
    BY <1>1, <1>2, <1>4, <1>5, <1>6 DEF TypeOK
<1>10. QueueOK(jobs)' /\ QueueOK(saved)'
  <2>1. DOMAIN jobs \subseteq Jobs /\ DOMAIN saved \subseteq Jobs
      BY BoundsAssumption DEF TypeOK, Jobs
  <2>2. QueueOK(jobs)'
      BY <1>2, <1>4, <1>6, <1>8, <2>1 DEF QueueOK
  <2>3. QueueOK(saved)'
      BY <1>2, <1>4, <1>6, <1>8, <2>1 DEF QueueOK
  <2> QED
      BY <2>2, <2>3
<1>11. TickHand'
    BY <1>1, <1>2, <1>3, <1>4, <1>6 DEF TickHand, Following, Starting
<1>12. CallerHand'
    BY <1>1, <1>2 DEF CallerHand, At
<1>13. LiveWasClaimed'
    BY <1>1, <1>2 DEF LiveWasClaimed, With
<1>14. Tracked'
    BY <1>1, <1>2, <1>3, <1>6, <1>7 DEF Tracked
<1>15. Started'
    BY <1>1, <1>2, <1>5, <1>6, <1>7 DEF Started
<1>16. Files'
    BY <1>1, <1>5 DEF Files, HasFile, NewBatch
<1>17. ASSUME overlaps' = 0 PROVE Alone'
    BY <1>1, <1>2, <1>17 DEF Alone, SlotOne, At, Following, Starting
<1> QED
    BY <1>9, <1>10, <1>11, <1>12, <1>13, <1>14, <1>15, <1>16, <1>17

-----------------------------------------------------------------------------
(* Changes of one job's status.                                              *)

(* What such a change does to queue and file, whoever makes it.              *)
LEMMA StatusSet ==
    ASSUME DaemonInv, NEW i \in DOMAIN jobs, NEW status \in Statuses, status # "queued",
           Save(SetStatus(i, status)), UNCHANGED <<batchVars, history>>,
           status = "completed" => jobs[i].batch # NoBatch /\ Done(jobs[i].batch),
           status \in SlotStatuses => jobs[i].batch # NoBatch
    PROVE  /\ jobs' \in Seq(DaemonJobs) /\ Len(jobs') <= MaxJobs /\ DOMAIN jobs' = DOMAIN jobs
           /\ saved' \in Seq(DaemonJobs) /\ Len(saved') <= MaxJobs
           /\ \A k \in DOMAIN jobs : /\ jobs'[k].status = IF k = i THEN status ELSE jobs[k].status
                                    /\ jobs'[k].batch = jobs[k].batch
           /\ saved' = jobs' \/ saved' = saved
           /\ faults' \in Nat /\ (faults' = 0 => faults = 0)
           /\ QueueOK(jobs)' /\ QueueOK(saved)' /\ Started' /\ Files'
<1> USE DEF DaemonInv
<1>1. UNCHANGED <<batch, active, starts, claimed>>
    BY DEF batchVars, history
<1>2. /\ jobs' = SetStatus(i, status) /\ (saved' = jobs' \/ saved' = saved)
      /\ faults' \in Nat /\ (faults' = 0 => faults = 0)
    BY Saves
<1>3. /\ jobs' \in Seq(DaemonJobs) /\ Len(jobs') = Len(jobs) /\ DOMAIN jobs' = DOMAIN jobs
      /\ \A k \in DOMAIN jobs : /\ jobs'[k].status = IF k = i THEN status ELSE jobs[k].status
                               /\ jobs'[k].batch = jobs[k].batch
    BY <1>2, SetStatusIs
<1>4. saved' \in Seq(DaemonJobs) /\ Len(saved') <= MaxJobs /\ Len(jobs') <= MaxJobs
    BY <1>2, <1>3 DEF TypeOK
<1>5. QueueOK(jobs)'
    BY <1>1, <1>3 DEF QueueOK, Done
<1>6. QueueOK(saved)'
  <2>1. CASE saved' = jobs'
      BY <1>5, <2>1 DEF QueueOK
  <2>2. CASE saved' = saved
      BY <1>1, <2>2 DEF QueueOK, Done
  <2> QED
      BY <1>2, <2>1, <2>2
<1>7. Started' /\ Files'
    BY <1>1, <1>2 DEF Started, Files, HasFile
<1> QED
    BY <1>2, <1>3, <1>4, <1>5, <1>6, <1>7

(* The tick reports what it read, or that it could not start.                *)
LEMMA TickSets ==
    ASSUME DaemonInv, TickReports \/ TickRecordsRefusal
    PROVE  DaemonInv'
<1> USE DEF DaemonInv
<1>1. /\ UNCHANGED <<caller, batch, active, starts, claimed, requests, overlaps, desktop, challenges>>
      /\ UNCHANGED <<batchVars, history>> /\ TickEnds /\ tpc \in {"report", "refused"}
    BY DEF TickReports, TickRecordsRefusal, batchVars, history
<1>2. PICK status \in Statuses :
          /\ status \notin {"queued", "recovery_required"} /\ Save(SetStatus(tjob, status))
          /\ status = "completed" => jobs[tjob].batch # NoBatch /\ Done(jobs[tjob].batch)
          /\ status \in ActiveStatuses => jobs[tjob].batch \in claimed
  <2>1. CASE TickReports
    <3>1. /\ tseen \in {"running", "waiting_manual"} \cup FinishedStatuses /\ claimed \subseteq Batches
        BY DEF TypeOK
    <3>2. /\ tpc = "report" /\ Save(SetStatus(tjob, tseen)) /\ jobs[tjob].batch = tbatch
          /\ tbatch \in claimed /\ tbatch # NoBatch
        BY <2>1, <3>1, Kinds DEF TickReports, TickHand, Following
    <3>3. tseen \in Statuses /\ tseen \notin {"queued", "recovery_required"}
        BY <3>1 DEF Statuses, SlotStatuses, ActiveStatuses, FinishedStatuses
    <3> QED
        BY <3>2, <3>3 DEF TickHand
  <2>2. CASE TickRecordsRefusal
      BY <2>2 DEF TickRecordsRefusal, Statuses, FinishedStatuses, ActiveStatuses
  <2> QED
      BY <2>1, <2>2
<1>3. tjob \in DOMAIN jobs /\ (status \in SlotStatuses => jobs[tjob].batch # NoBatch)
    BY <1>1, <1>2, Kinds DEF TickHand, Following, Starting, SlotStatuses, TypeOK
<1>4. /\ jobs' \in Seq(DaemonJobs) /\ Len(jobs') <= MaxJobs /\ DOMAIN jobs' = DOMAIN jobs
      /\ saved' \in Seq(DaemonJobs) /\ Len(saved') <= MaxJobs
      /\ \A k \in DOMAIN jobs : /\ jobs'[k].status = IF k = tjob THEN status ELSE jobs[k].status
                               /\ jobs'[k].batch = jobs[k].batch
      /\ saved' = jobs' \/ saved' = saved
      /\ faults' \in Nat
      /\ QueueOK(jobs)' /\ QueueOK(saved)' /\ Started' /\ Files'
    BY <1>1, <1>2, <1>3, StatusSet
<1>5. TypeOK' /\ TickHand' /\ ~Following' /\ ~Starting' /\ tpc' = "scan"
    BY <1>1, <1>4, TickOver DEF TypeOK, TickEnds
<1>6. CallerHand'
    BY <1>1, <1>2, <1>4, <1>5 DEF CallerHand, At
<1>7. LiveWasClaimed'
    BY <1>1, <1>2, <1>4 DEF LiveWasClaimed, With
<1>8. Tracked'
    BY <1>1, <1>4 DEF Tracked
<1>9. ASSUME overlaps' = 0 PROVE Alone'
  <2>1. Alone
      BY <1>1, <1>9
  <2>2. \A k \in DOMAIN jobs : jobs[k].status \in SlotStatuses =>
            k = tjob /\ jobs[k].status # "recovery_required"
      BY <1>1, <2>1 DEF Alone, Following, Starting, TickHand
  <2>3. \A c \in Callers : ~At(c, "resume_batch") /\ ~At(c, "resume_mark")
      BY <2>1, <2>2 DEF Alone, CallerHand, At, SlotStatuses
  <2>4. SlotOne(jobs)'
      BY <1>4, <2>2 DEF SlotOne
  <2>5. SlotOne(saved)'
      BY <1>4, <2>1, <2>4 DEF SlotOne, Alone
  <2> QED
      BY <1>1, <1>5, <2>1, <2>3, <2>4, <2>5 DEF Alone, At
<1> QED
    BY <1>4, <1>5, <1>6, <1>7, <1>8, <1>9

(* A cancel takes a job out of the slot; a resume marks one running whose    *)
(* batch it has claimed.                                                     *)
LEMMA RequestSets ==
    ASSUME DaemonInv, NEW c \in Callers, CancelsQueued(c) \/ MarksResumed(c)
    PROVE  DaemonInv'
<1> USE DEF DaemonInv
<1> DEFINE i == caller[c].job
<1>1. /\ UNCHANGED <<tpc, tjob, tbatch, tseen, batch, active, starts, claimed,
                     requests, overlaps, desktop, challenges>>
      /\ UNCHANGED <<batchVars, history>> /\ caller' = [caller EXCEPT ![c] = Idle]
    BY DEF CancelsQueued, MarksResumed, Answers, tickVars, batchVars, history
<1>2. PICK status \in {"cancelled", "running"} :
          /\ Save(SetStatus(i, status))
          /\ status = "running" => jobs[i].batch \in claimed /\ At(c, "resume_mark")
    BY DEF CancelsQueued, MarksResumed, CallerHand
<1>3. i \in DOMAIN jobs /\ ~At(c, "idle")
    BY DEF CancelsQueued, MarksResumed, CallerHand, At
<1>4. status \in Statuses
    BY DEF Statuses, SlotStatuses, ActiveStatuses, FinishedStatuses
<1>5. status = "running" => jobs[i].batch # NoBatch
    BY <1>2, Kinds DEF TypeOK
<1>6. /\ jobs' \in Seq(DaemonJobs) /\ Len(jobs') <= MaxJobs /\ DOMAIN jobs' = DOMAIN jobs
      /\ saved' \in Seq(DaemonJobs) /\ Len(saved') <= MaxJobs
      /\ \A k \in DOMAIN jobs : /\ jobs'[k].status = IF k = i THEN status ELSE jobs[k].status
                               /\ jobs'[k].batch = jobs[k].batch
      /\ saved' = jobs' \/ saved' = saved
      /\ faults' \in Nat
      /\ QueueOK(jobs)' /\ QueueOK(saved)' /\ Started' /\ Files'
    BY <1>1, <1>2, <1>3, <1>4, <1>5, StatusSet DEF SlotStatuses, ActiveStatuses
<1> HIDE DEF i
<1>7. \A d \in Callers : caller'[d] = IF d = c THEN Idle ELSE caller[d]
    BY <1>1 DEF TypeOK
<1>8. TypeOK'
  <2>1. caller' \in [Callers -> [at : {"idle", "cancel_queued", "cancel_batch",
                                       "resume_batch", "resume_mark"}, job : Jobs \cup {NoJob}]]
      BY <1>1 DEF TypeOK, Idle
  <2> QED
      BY <1>1, <1>6, <2>1 DEF TypeOK
<1>9. TickHand'
    BY <1>1, <1>2, <1>5, <1>6 DEF TickHand, Following, Starting, Done
<1>10. CallerHand'
    BY <1>1, <1>5, <1>6, <1>7 DEF CallerHand, At, Idle
<1>11. LiveWasClaimed' /\ Tracked'
    BY <1>1, <1>2, <1>6 DEF LiveWasClaimed, With, ActiveStatuses, Tracked
<1>12. ASSUME overlaps' = 0 PROVE Alone'
  <2>1. Alone
      BY <1>1, <1>12
  <2>2. status \in SlotStatuses => jobs[i].status \in SlotStatuses
      BY <1>2, <2>1 DEF Alone, SlotStatuses, ActiveStatuses, i
  <2>3. \A k \in DOMAIN jobs : jobs'[k].status \in SlotStatuses => jobs[k].status \in SlotStatuses
      BY <1>6, <2>2
  <2>4. SlotOne(jobs)'
      BY <1>6, <2>1, <2>3 DEF SlotOne, Alone
  <2>5. SlotOne(saved)'
      BY <1>6, <2>1, <2>4 DEF SlotOne, Alone
  <2>6. \A d \in Callers : caller'[d].at = "idle"
      BY <1>3, <1>7, <2>1 DEF Alone, At, Idle
  <2> QED
      BY <1>1, <1>6, <2>1, <2>3, <2>4, <2>5, <2>6 DEF Alone, At, Following, Starting
<1> QED
    BY <1>6, <1>8, <1>9, <1>10, <1>11, <1>12

-----------------------------------------------------------------------------
(* The other changes of the queue.                                           *)

(* The start is recorded: the batch is the only one the job has had since    *)
(* the application came up.                                                  *)
LEMMA RecordStep ==
    ASSUME DaemonInv, TickRecordsStart
    PROVE  DaemonInv'
<1> USE DEF DaemonInv
<1> DEFINE job == [status |-> "running", batch |-> tbatch]
<1>1. /\ UNCHANGED <<caller, batch, active, starts, claimed, requests, overlaps, desktop, challenges>>
      /\ tpc = "started" /\ TickEnds /\ Save([jobs EXCEPT ![tjob] = job])
    BY DEF TickRecordsStart, batchVars, history
<1>2. /\ tjob \in DOMAIN jobs /\ tjob \in Jobs /\ tbatch \in starts[tjob] /\ tbatch \in claimed
      /\ jobs[tjob].batch = NoBatch
    BY <1>1, Kinds DEF TickHand, Starting
<1>3. tbatch \in Batches /\ tbatch # NoBatch
    BY <1>2, Kinds DEF TypeOK
<1>4. job \in DaemonJobs
    BY <1>3 DEF DaemonJobs, SlotStatuses, ActiveStatuses
<1>5. /\ jobs' = [jobs EXCEPT ![tjob] = job] /\ (saved' = jobs' \/ saved' = saved)
      /\ faults' \in Nat /\ (faults' = 0 => faults = 0)
    BY <1>1, Saves
<1>6. /\ jobs' \in Seq(DaemonJobs) /\ Len(jobs') = Len(jobs) /\ DOMAIN jobs' = DOMAIN jobs
      /\ \A k \in DOMAIN jobs : jobs'[k] = IF k = tjob THEN job ELSE jobs[k]
    BY <1>2, <1>4, <1>5, Updated
<1>7. saved' \in Seq(DaemonJobs) /\ Len(saved') <= MaxJobs /\ Len(jobs') <= MaxJobs
    BY <1>5, <1>6 DEF TypeOK
<1>8. QueueOK(jobs)'
    BY <1>1, <1>2, <1>3, <1>6 DEF QueueOK, Done
<1>9. QueueOK(saved)'
  <2>1. CASE saved' = jobs'
      BY <1>8, <2>1 DEF QueueOK
  <2>2. CASE saved' = saved
      BY <1>1, <2>2 DEF QueueOK, Done
  <2> QED
      BY <1>5, <2>1, <2>2
<1>10. TypeOK' /\ TickHand' /\ ~Following' /\ ~Starting' /\ tpc' = "scan"
    BY <1>1, <1>5, <1>6, <1>7, TickOver DEF TypeOK
<1>11. CallerHand'
    BY <1>1, <1>2, <1>3, <1>6, <1>10 DEF CallerHand, At
<1>12. LiveWasClaimed'
    BY <1>1, <1>2, <1>6 DEF LiveWasClaimed, With
<1>13. Tracked'
  <2>1. ASSUME NEW k \in Jobs, NEW b \in starts[k] \cap claimed
        PROVE  k \in DOMAIN jobs' /\ jobs'[k].batch = b
    <3>1. CASE k = tjob
      <4>1. b # NoBatch
          BY Kinds DEF TypeOK
      <4>2. b = tbatch
          BY <1>2, <2>1, <3>1, <4>1 DEF Tracked
      <4> QED
          BY <1>2, <1>6, <3>1, <4>2
    <3>2. CASE k # tjob
        BY <1>6, <2>1, <3>2 DEF Tracked
    <3> QED
        BY <3>1, <3>2
  <2> QED
      BY <1>1, <2>1 DEF Tracked
<1>14. Started' /\ Files'
    BY <1>1, <1>5 DEF Started, Files, HasFile
<1>15. ASSUME overlaps' = 0 PROVE Alone'
  <2>1. Alone
      BY <1>1, <1>15
  <2>2. \A k \in DOMAIN jobs : jobs[k].status \notin SlotStatuses
      BY <1>1, <2>1 DEF Alone, Starting
  <2>3. SlotOne(jobs)'
      BY <1>6, <2>2 DEF SlotOne
  <2>4. SlotOne(saved)'
      BY <1>5, <2>1, <2>3 DEF SlotOne, Alone
  <2>5. \A c \in Callers : ~At(c, "resume_batch") /\ ~At(c, "resume_mark")
      BY <2>1, <2>2 DEF Alone, CallerHand, At, SlotStatuses
  <2> QED
      BY <1>1, <1>10, <2>1, <2>3, <2>4, <2>5 DEF Alone, At
<1> QED
    BY <1>8, <1>9, <1>10, <1>11, <1>12, <1>13, <1>14, <1>15

(* The restart takes every live job to recovery.                             *)
LEMMA BootStep ==
    ASSUME DaemonInv, Boot
    PROVE  DaemonInv'
<1> USE DEF DaemonInv
<1>1. /\ UNCHANGED <<caller, batch, active, starts, claimed, requests, overlaps, desktop, challenges>>
      /\ tpc = "boot" /\ TickEnds /\ Save(Recovered)
    BY DEF Boot, batchVars, history
<1>2. /\ jobs' = Recovered /\ (saved' = jobs' \/ saved' = saved)
      /\ faults' \in Nat /\ (faults' = 0 => faults = 0)
    BY <1>1, Saves
<1>3. \A k \in DOMAIN jobs : [jobs[k] EXCEPT !.status = "recovery_required"] \in DaemonJobs
    BY Kinds DEF DaemonJobs, SlotStatuses
<1>4. /\ jobs' \in Seq(DaemonJobs) /\ Len(jobs') = Len(jobs) /\ DOMAIN jobs' = DOMAIN jobs
  <2>1. jobs' \in [1 .. Len(jobs) -> DaemonJobs]
      BY <1>2, <1>3, Kinds DEF Recovered
  <2> QED
      BY <2>1, Kinds, SeqDef
<1>5. \A k \in DOMAIN jobs :
          /\ jobs'[k].status = IF jobs[k].status \in ActiveStatuses THEN "recovery_required"
                               ELSE jobs[k].status
          /\ jobs'[k].batch = jobs[k].batch
    BY <1>2, Kinds DEF Recovered, DaemonJobs
<1>6. saved' \in Seq(DaemonJobs) /\ Len(saved') <= MaxJobs /\ Len(jobs') <= MaxJobs
    BY <1>2, <1>4 DEF TypeOK
<1>7. QueueOK(jobs)'
    BY <1>1, <1>4, <1>5 DEF QueueOK, Done, SlotStatuses
<1>8. QueueOK(saved)'
  <2>1. CASE saved' = jobs'
      BY <1>7, <2>1 DEF QueueOK
  <2>2. CASE saved' = saved
      BY <1>1, <2>2 DEF QueueOK, Done
  <2> QED
      BY <1>2, <2>1, <2>2
<1>9. TypeOK' /\ TickHand' /\ ~Following' /\ ~Starting' /\ tpc' = "scan"
    BY <1>1, <1>2, <1>4, <1>6, TickOver DEF TypeOK
<1>10. CallerHand'
    BY <1>1, <1>4, <1>5, <1>9 DEF CallerHand, At, ActiveStatuses
<1>11. LiveWasClaimed'
    BY <1>4, <1>5 DEF LiveWasClaimed, With, ActiveStatuses
<1>12. Tracked'
    BY <1>1, <1>4, <1>5 DEF Tracked
<1>13. Started' /\ Files'
    BY <1>1, <1>2 DEF Started, Files, HasFile
<1>14. ASSUME overlaps' = 0 PROVE Alone'
  <2>1. Alone
      BY <1>1, <1>14
  <2>2. SlotOne(jobs)'
      BY <1>4, <1>5, <2>1 DEF SlotOne, Alone, SlotStatuses
  <2>3. SlotOne(saved)'
      BY <1>2, <2>1, <2>2 DEF SlotOne, Alone
  <2>4. \A c \in Callers : At(c, "resume_batch") \/ At(c, "resume_mark") =>
            jobs'[caller[c].job].status = "recovery_required"
      BY <1>5, <2>1 DEF Alone, CallerHand, At, ActiveStatuses
  <2> QED
      BY <1>1, <1>9, <2>1, <2>2, <2>3, <2>4 DEF Alone, At
<1> QED
    BY <1>7, <1>8, <1>9, <1>10, <1>11, <1>12, <1>13, <1>14

(* A job is added at the end.                                                *)
LEMMA CreateStep ==
    ASSUME DaemonInv, CreateJob
    PROVE  DaemonInv'
<1> USE DEF DaemonInv
<1> DEFINE job == [status |-> "queued", batch |-> NoBatch]
           n == Len(jobs) + 1
<1>1. /\ UNCHANGED <<tpc, tjob, tbatch, tseen, caller, batch, active, starts, claimed>>
      /\ UNCHANGED <<requests, overlaps, desktop, challenges>>
      /\ Len(jobs) < MaxJobs /\ Save(Append(jobs, job))
    BY DEF CreateJob, tickVars, batchVars, history
<1>2. /\ jobs' = Append(jobs, job) /\ (saved' = jobs' \/ saved' = saved)
      /\ faults' \in Nat /\ (faults' = 0 => faults = 0)
    BY <1>1, Saves
<1>3. job \in DaemonJobs /\ job.status = "queued" /\ job.batch = NoBatch
    BY DEF DaemonJobs
<1> HIDE DEF job
<1>4. /\ jobs' \in Seq(DaemonJobs) /\ Len(jobs') = n /\ jobs'[n] = job
      /\ \A k \in 1 .. Len(jobs) : jobs'[k] = jobs[k]
    BY <1>2, <1>3, Kinds, AppendProperties
<1>5. /\ DOMAIN jobs' = DOMAIN jobs \cup {n} /\ n \notin DOMAIN jobs /\ Len(jobs') <= MaxJobs
      /\ \A k \in DOMAIN jobs : jobs'[k] = jobs[k] /\ k < n
    BY <1>1, <1>4, Kinds, BoundsAssumption
<1> HIDE DEF n
<1>6. saved' \in Seq(DaemonJobs) /\ Len(saved') <= MaxJobs
    BY <1>2, <1>4, <1>5 DEF TypeOK
<1>7. QueueOK(jobs)'
    BY <1>1, <1>3, <1>4, <1>5 DEF QueueOK, Done, SlotStatuses, ActiveStatuses
<1>8. QueueOK(saved)'
  <2>1. CASE saved' = jobs'
      BY <1>7, <2>1 DEF QueueOK
  <2>2. CASE saved' = saved
      BY <1>1, <2>2 DEF QueueOK, Done
  <2> QED
      BY <1>2, <2>1, <2>2
<1>9. TypeOK'
    BY <1>1, <1>2, <1>4, <1>5, <1>6 DEF TypeOK
<1>10. TickHand'
  <2>1. tpc = "start" => tjob < n /\ tjob \in Nat
      BY <1>5, Kinds DEF TickHand, Starting
  <2>2. tpc = "start" => ~(n < tjob)
      BY <2>1, <1>5, Kinds DEF n
  <2> QED
      BY <1>1, <1>5, <2>2 DEF TickHand, Following, Starting, Done
<1>11. CallerHand'
    BY <1>1, <1>5 DEF CallerHand, At
<1>12. LiveWasClaimed'
    BY <1>1, <1>3, <1>4, <1>5 DEF LiveWasClaimed, With, ActiveStatuses
<1>13. Tracked'
    BY <1>1, <1>5 DEF Tracked
<1>14. Started' /\ Files'
    BY <1>1, <1>2 DEF Started, Files, HasFile
<1>15. ASSUME overlaps' = 0 PROVE Alone'
  <2>1. Alone
      BY <1>1, <1>15
  <2>2. jobs'[n].status \notin SlotStatuses
      BY <1>3, <1>4 DEF SlotStatuses, ActiveStatuses
  <2>3. SlotOne(jobs)'
      BY <1>5, <2>1, <2>2 DEF SlotOne, Alone
  <2>4. SlotOne(saved)'
      BY <1>2, <2>1, <2>3 DEF SlotOne, Alone
  <2>5. \A c \in Callers : ~At(c, "idle") => caller[c].job \in DOMAIN jobs
      BY DEF CallerHand
  <2> QED
      BY <1>1, <1>5, <2>1, <2>2, <2>3, <2>4, <2>5 DEF Alone, At, Following, Starting
<1> QED
    BY <1>7, <1>8, <1>9, <1>10, <1>11, <1>12, <1>13, <1>14, <1>15

-----------------------------------------------------------------------------
(* Requests that leave the queue alone, and the crash.                       *)

(* What a request spends: nothing overlaps only if no other one is in hand.  *)
LEMMA Requests ==
    ASSUME TypeOK, Request
    PROVE  /\ requests' \in Nat /\ overlaps' \in Nat
           /\ overlaps' = 0 => overlaps = 0 /\ \A c \in Callers : At(c, "idle")
<1>1. requests \in Nat /\ overlaps \in Nat
    BY DEF TypeOK
<1>2. CASE \A c \in Callers : caller[c] = Idle
    BY <1>1, <1>2 DEF Request, At, Idle
<1>3. CASE ~\A c \in Callers : caller[c] = Idle
    BY <1>1, <1>3 DEF Request
<1> QED
    BY <1>2, <1>3

(* A cancel or a resume is asked for.                                        *)
LEMMA AskSteps ==
    ASSUME DaemonInv, NEW i \in DOMAIN jobs, NEW c \in Callers, CancelAsks(c, i) \/ ResumeAsks(c, i)
    PROVE  DaemonInv'
<1> USE DEF DaemonInv
<1>1. /\ UNCHANGED <<jobs, saved, tpc, tjob, tbatch, tseen, batch, active, starts, claimed>>
      /\ UNCHANGED <<desktop, challenges, faults>> /\ Request
    BY DEF CancelAsks, ResumeAsks, queueVars, tickVars, batchVars, history
<1>2. PICK where \in {"cancel_queued", "cancel_batch", "resume_batch"} :
          /\ Goes(c, where, i)
          /\ where = "cancel_queued" => jobs[i].status = "queued"
          /\ where # "cancel_queued" => jobs[i].batch # NoBatch
          /\ where = "resume_batch" => jobs[i].status = "recovery_required"
    BY DEF CancelAsks, ResumeAsks
<1>3. /\ requests' \in Nat /\ overlaps' \in Nat
      /\ overlaps' = 0 => overlaps = 0 /\ \A d \in Callers : At(d, "idle")
    BY <1>1, Requests
<1>4. \A d \in Callers : caller'[d] = IF d = c THEN [at |-> where, job |-> i] ELSE caller[d]
    BY <1>2 DEF Goes, TypeOK
<1>5. TypeOK'
  <2>1. [at |-> where, job |-> i] \in
            [at : {"idle", "cancel_queued", "cancel_batch", "resume_batch", "resume_mark"},
             job : Jobs \cup {NoJob}]
      BY Kinds
  <2>2. caller' \in [Callers -> [at : {"idle", "cancel_queued", "cancel_batch",
                                       "resume_batch", "resume_mark"}, job : Jobs \cup {NoJob}]]
      BY <1>2, <2>1 DEF Goes, TypeOK
  <2> QED
      BY <1>1, <1>3, <2>2 DEF TypeOK
<1>6. QueueOK(jobs)' /\ QueueOK(saved)' /\ TickHand'
    BY <1>1 DEF QueueOK, Done, TickHand, Following, Starting
<1>7. CallerHand'
  <2>1. jobs[i].status = "queued" => jobs[i].batch = NoBatch
      BY DEF QueueOK
  <2> QED
      BY <1>1, <1>2, <1>4, <2>1 DEF CallerHand, At
<1>8. LiveWasClaimed' /\ Tracked' /\ Started' /\ Files'
    BY <1>1 DEF LiveWasClaimed, With, Tracked, Started, Files, HasFile
<1>9. ASSUME overlaps' = 0 PROVE Alone'
  <2>1. Alone /\ \A d \in Callers : At(d, "idle")
      BY <1>3, <1>9
  <2>2. \A d \in Callers : ~At(d, "idle")' => d = c
      BY <1>4, <2>1 DEF At
  <2>3. \A d \in Callers : At(d, "resume_batch")' \/ At(d, "resume_mark")' =>
            jobs[caller'[d].job].status = "recovery_required"
      BY <1>2, <1>4, <2>1 DEF At
  <2> QED
      BY <1>1, <2>1, <2>2, <2>3 DEF Alone, SlotOne, At, Following, Starting
<1> QED
    BY <1>5, <1>6, <1>7, <1>8, <1>9

(* A request reaches a batch.                                                *)
LEMMA ReachSteps ==
    ASSUME DaemonInv,
           \/ \E c \in Callers : CancelsBatch(c)
           \/ \E i \in DOMAIN jobs : ContinueJob(i)
    PROVE  DaemonInv'
<1> USE DEF DaemonInv
<1>1. batch \in [Batches -> BatchRecords] /\ active \in Batches \cup {NoBatch}
    BY DEF TypeOK
<1>2. /\ requests \in Nat /\ overlaps \in Nat /\ desktop \in Nat /\ challenges \in Nat
      /\ faults \in Nat
    BY DEF TypeOK
<1>3. ASSUME NEW c \in Callers, CancelsBatch(c) PROVE DaemonInv'
  <2> DEFINE b == jobs[caller[c].job].batch
             old == batch[b]
  <2>1. b \in Batches
      BY <1>3, Kinds DEF CancelsBatch, CallerHand, At
  <2>2. /\ UNCHANGED <<queueVars, tickVars, history, active>> /\ caller' = [caller EXCEPT ![c] = Idle]
        /\ UNCHANGED <<requests, overlaps, desktop, challenges, faults>>
      BY <1>3 DEF CancelsBatch, Answers, boundVars
  <2>3. /\ active = b \/ (active # b /\ HasFile(b)) \/ (active = b /\ old.status \in EndStatuses)
            \/ (active # b /\ ~HasFile(b))
        /\ \/ active = b /\ Tell(b)
           \/ (active # b \/ old.status \in EndStatuses) /\ HasFile(b) /\ CancelInactive(b)
           \/ active # b /\ ~HasFile(b) /\ UNCHANGED batch
      BY <1>3 DEF CancelsBatch
  <2> HIDE DEF b
  <2>4. old \in BatchRecords
      BY <1>1, <2>1
  <2>5. ASSUME NEW record \in BatchRecords, batch' = [batch EXCEPT ![b] = record],
               Done(b) => record.status \in EndStatuses \cup {"deleted"} /\ ~record.open /\ ~record.unknown,
               old.status # "unborn" => record.status # "unborn",
               record.status = "completed" => ~record.open /\ ~record.unknown,
               active = b => record.status \notin {"unborn", "deleted"}
        PROVE  DaemonInv'
      BY <1>1, <1>2, <2>1, <2>2, <2>5, OneBatch
  <2>6. old.status = "completed" => ~old.open /\ ~old.unknown
      BY <2>1 DEF Files
  <2>7. active = b => old.status \notin {"unborn", "deleted"}
      BY <2>1, Kinds DEF Files, HasFile
  <2>8. CASE Tell(b)
    <3> DEFINE record == [old EXCEPT !.cancel = TRUE]
    <3>1. /\ record \in BatchRecords /\ record.status = old.status /\ record.open = old.open
          /\ record.unknown = old.unknown
        BY <2>4 DEF BatchRecords
    <3>2. batch' = [batch EXCEPT ![b] = record]
        BY <2>8 DEF Tell
    <3> HIDE DEF record
    <3> QED
        BY <2>5, <2>6, <2>7, <3>1, <3>2 DEF Done
  <2>9. CASE HasFile(b) /\ CancelInactive(b)
    <3> DEFINE record == [old EXCEPT !.status = IF old.unknown THEN "critical" ELSE "cancelled",
                                     !.open = FALSE]
    <3>1. /\ record \in BatchRecords /\ record.status \in {"critical", "cancelled"}
          /\ ~record.open /\ record.unknown = old.unknown
        BY <2>4 DEF BatchRecords, BatchStatuses, EndStatuses
    <3>2. batch' = [batch EXCEPT ![b] = record]
        BY <1>1, <2>1, <2>9 DEF CancelInactive
    <3> HIDE DEF record
    <3> QED
        BY <2>5, <3>1, <3>2 DEF Done, EndStatuses
  <2>10. CASE UNCHANGED batch
    <3>1. batch' = [batch EXCEPT ![b] = old]
        BY <1>1, <2>1, <2>10
    <3> QED
        BY <2>4, <2>5, <2>6, <2>7, <3>1 DEF Done
  <2> QED
      BY <2>3, <2>8, <2>9, <2>10
<1>4. ASSUME NEW i \in DOMAIN jobs, ContinueJob(i) PROVE DaemonInv'
  <2> DEFINE b == jobs[i].batch
             record == [batch[b] EXCEPT !.status = "running"]
  <2>1. /\ UNCHANGED <<queueVars, tickVars, caller, history, active, desktop, challenges, faults>>
        /\ Request /\ active = b /\ batch[b].status = "waiting_manual"
        /\ batch' = [batch EXCEPT ![b] = record]
      BY <1>4 DEF ContinueJob
  <2>2. b \in Batches
      BY <1>4, Kinds DEF ContinueJob, QueueOK, SlotStatuses, ActiveStatuses
  <2>3. record \in BatchRecords /\ record.status = "running"
      BY <1>1, <2>2 DEF BatchRecords, BatchStatuses
  <2>4. requests' \in Nat /\ overlaps' \in Nat /\ (overlaps' = 0 => overlaps = 0)
      BY <2>1, Requests
  <2>5. ~Done(b)
      BY <2>1 DEF Done, EndStatuses
  <2> HIDE DEF record, b
  <2> QED
      BY <1>1, <1>2, <2>1, <2>2, <2>3, <2>4, <2>5, OneBatch
<1> QED
    BY <1>3, <1>4

(* A resume claims the job's own batch again.                                *)
LEMMA ResumeStep ==
    ASSUME DaemonInv, NEW c \in Callers, ResumesBatch(c)
    PROVE  DaemonInv'
<1> USE DEF DaemonInv
<1> DEFINE i == caller[c].job
           b == jobs[i].batch
<1>1. /\ UNCHANGED <<jobs, saved, tpc, tjob, tbatch, tseen, starts>>
      /\ UNCHANGED <<requests, overlaps, desktop, challenges, faults>> /\ At(c, "resume_batch")
    BY DEF ResumesBatch, queueVars, tickVars, boundVars
<1>2. i \in DOMAIN jobs /\ i \in Jobs /\ b # NoBatch /\ b \in starts[i] /\ b \in Batches
    BY <1>1, Kinds DEF CallerHand, QueueOK, At
<1>3. CASE active = NoBatch /\ Resumable(b)
  <2> DEFINE record == [batch[b] EXCEPT !.status = "queued"]
             goes == [at |-> "resume_mark", job |-> i]
  <2>1. /\ batch' = [batch EXCEPT ![b] = record] /\ active' = b /\ claimed' = claimed \cup {b}
        /\ caller' = [caller EXCEPT ![c] = goes]
      BY <1>3 DEF ResumesBatch, Reclaimed, Goes
  <2>2. record \in BatchRecords /\ record.status = "queued"
      BY <1>2 DEF TypeOK, BatchRecords, BatchStatuses
  <2>3. goes \in [at : {"idle", "cancel_queued", "cancel_batch", "resume_batch", "resume_mark"},
                  job : Jobs \cup {NoJob}]
      BY <1>2
  <2>4. goes.at = "resume_mark" /\ goes.job = i
      OBVIOUS
  <2> HIDE DEF record, goes
  <2>5. /\ batch' \in [Batches -> BatchRecords]
        /\ \A x \in Batches : batch'[x] = IF x = b THEN record ELSE batch[x]
      BY <2>1, <2>2 DEF TypeOK
  <2>6. /\ caller' \in [Callers -> [at : {"idle", "cancel_queued", "cancel_batch",
                                         "resume_batch", "resume_mark"}, job : Jobs \cup {NoJob}]]
        /\ \A d \in Callers : caller'[d] = IF d = c THEN goes ELSE caller[d]
      BY <2>1, <2>3 DEF TypeOK
  <2> HIDE DEF i, b
  <2>7. \A x \in Batches : Done(x) => Done(x)'
      BY <1>3, <2>5 DEF Done, Resumable
  <2>8. TypeOK'
      BY <1>1, <1>2, <2>1, <2>5, <2>6 DEF TypeOK
  <2>9. QueueOK(jobs)' /\ QueueOK(saved)'
    <3>1. /\ starts \in [Jobs -> SUBSET Batches] /\ DOMAIN jobs \subseteq Jobs
          /\ DOMAIN saved \subseteq Jobs
        BY BoundsAssumption DEF TypeOK, Jobs
    <3>2. QueueOK(jobs)'
        BY <1>1, <2>7, <3>1 DEF QueueOK
    <3>3. QueueOK(saved)'
        BY <1>1, <2>7, <3>1 DEF QueueOK
    <3> QED
        BY <3>2, <3>3
  <2>10. TickHand'
    <3>1. tpc = "report" => tbatch \in Batches
        BY DEF TickHand, Following, TypeOK
    <3> QED
        BY <1>1, <2>1, <2>7, <3>1 DEF TickHand, Following, Starting
  <2>11. CallerHand'
      BY <1>1, <1>2, <2>1, <2>4, <2>6 DEF CallerHand, At, i, b
  <2>12. LiveWasClaimed'
      BY <1>1, <2>1 DEF LiveWasClaimed, With
  <2>13. Tracked'
    <3>1. \A k \in Jobs : b \in starts[k] => k = i
        BY <1>2 DEF Started
    <3> QED
        BY <1>1, <1>2, <2>1, <3>1 DEF Tracked, b
  <2>14. Started'
      BY <1>1, <2>1, <2>2, <2>5 DEF Started, TypeOK
  <2>15. Files'
      BY <2>1, <2>2, <2>5 DEF Files, HasFile
  <2>16. ASSUME overlaps' = 0 PROVE Alone'
      BY <1>1, <2>4, <2>6, <2>16 DEF Alone, SlotOne, At, Following, Starting, i
  <2> QED
      BY <2>8, <2>9, <2>10, <2>11, <2>12, <2>13, <2>14, <2>15, <2>16
<1>4. CASE ~(active = NoBatch /\ Resumable(b))
  <2>1. /\ caller' = [caller EXCEPT ![c] = Idle] /\ UNCHANGED <<batch, active, claimed>>
      BY <1>4 DEF ResumesBatch, Answers, batchVars
  <2>2. batch' = [batch EXCEPT ![b] = batch[b]] /\ batch[b] \in BatchRecords
      BY <1>2, <2>1 DEF TypeOK
  <2>3. UNCHANGED <<queueVars, tickVars, history>>
      BY <1>1, <2>1 DEF queueVars, tickVars, history
  <2>4. /\ batch[b].status = "completed" => ~batch[b].open /\ ~batch[b].unknown
        /\ active = b => batch[b].status \notin {"unborn", "deleted"}
      BY <1>2 DEF Files, HasFile
  <2>5. /\ requests' \in Nat /\ overlaps' \in Nat /\ desktop' \in Nat /\ challenges' \in Nat
        /\ faults' \in Nat /\ active' \in Batches \cup {NoBatch}
      BY <1>1, <2>1 DEF TypeOK
  <2>6. Done(b) => batch[b].status \in EndStatuses \cup {"deleted"} /\ ~batch[b].open /\ ~batch[b].unknown
      BY DEF Done
  <2> HIDE DEF b, i
  <2> QED
      BY <1>1, <1>2, <2>1, <2>2, <2>3, <2>4, <2>5, <2>6, OneBatch
<1> QED
    BY <1>3, <1>4

(* The file is all that a crash leaves.                                      *)
LEMMA CrashStep ==
    ASSUME DaemonInv, Crash
    PROVE  DaemonInv'
<1> USE DEF DaemonInv
<1>1. /\ jobs' = saved /\ saved' = saved /\ tpc' = "boot" /\ tjob' = NoJob /\ tbatch' = NoBatch
      /\ tseen' = "running" /\ claimed' = {} /\ caller' = [c \in Callers |-> Idle] /\ starts' = starts
      /\ UNCHANGED <<requests, overlaps, desktop, challenges>> /\ faults' = faults + 1
    BY DEF Crash, Fault
<1>2. /\ batch' \in [Batches -> BatchRecords] /\ active' = NoBatch
      /\ \A x \in Batches :
             /\ batch'[x].status = batch[x].status /\ batch'[x].open = batch[x].open
             /\ batch[x].status \in EndStatuses \cup {"deleted"} => batch'[x].unknown = batch[x].unknown
  <2>1. batch \in [Batches -> BatchRecords] /\ active \in Batches \cup {NoBatch}
      BY DEF TypeOK
  <2>2. CASE active = NoBatch
      BY <2>1, <2>2 DEF Crash, batchVars
  <2>3. CASE active # NoBatch
    <3>1. PICK u \in BOOLEAN :
              /\ batch[active].status \in EndStatuses => u = batch[active].unknown
              /\ Released(active, [batch[active] EXCEPT !.unknown = u])
        BY <2>3 DEF Crash
    <3> DEFINE record == [[batch[active] EXCEPT !.unknown = u] EXCEPT !.cancel = FALSE, !.pause = FALSE]
    <3>2. batch' = [batch EXCEPT ![active] = record] /\ active' = NoBatch
        BY <3>1 DEF Released
    <3>3. /\ record \in BatchRecords /\ record.status = batch[active].status
          /\ record.open = batch[active].open /\ record.unknown = u
        BY <2>1, <2>3 DEF BatchRecords
    <3>4. batch[active].status # "deleted"
        BY <2>3 DEF Files, HasFile
    <3> HIDE DEF record
    <3> QED
        BY <2>1, <2>3, <3>1, <3>2, <3>3, <3>4
  <2> QED
      BY <2>2, <2>3
<1>3. \A x \in Batches : Done(x) => Done(x)'
    BY <1>2 DEF Done
<1>4. faults' \in Nat /\ faults' # 0
    BY <1>1 DEF TypeOK
<1>5. TypeOK'
    BY <1>1, <1>2, <1>4 DEF TypeOK, Idle, NoJob, NoBatch
<1>6. QueueOK(saved)'
  <2>1. starts \in [Jobs -> SUBSET Batches] /\ DOMAIN saved \subseteq Jobs
      BY BoundsAssumption DEF TypeOK, Jobs
  <2> QED
      BY <1>1, <1>3, <2>1 DEF QueueOK
<1>7. QueueOK(jobs)'
    BY <1>1, <1>6 DEF QueueOK
<1>8. TickHand' /\ CallerHand' /\ LiveWasClaimed' /\ Tracked'
    BY <1>1 DEF TickHand, Following, Starting, CallerHand, At, Idle, LiveWasClaimed, Tracked
<1>9. Started' /\ Files'
    BY <1>1, <1>2, <1>4 DEF Started, Files, TypeOK, EndStatuses
<1>10. ASSUME overlaps' = 0 PROVE Alone'
    BY <1>1, <1>10 DEF Alone, SlotOne, At, Idle, Following, Starting
<1> QED
    BY <1>5, <1>6, <1>7, <1>8, <1>9, <1>10

-----------------------------------------------------------------------------
(* Every step keeps the invariant.                                           *)
LEMMA DaemonInvStep == DaemonInv /\ [Next]_vars => DaemonInv'
<1> SUFFICES ASSUME DaemonInv, [Next]_vars PROVE DaemonInv'
    OBVIOUS
<1>1. CASE UNCHANGED vars
  <2>1. /\ UNCHANGED <<jobs, saved, tpc, tjob, tbatch, tseen, caller, batch, active, starts, claimed>>
        /\ UNCHANGED <<requests, overlaps, desktop, challenges, faults>>
      BY <1>1 DEF vars, queueVars, tickVars, batchVars, history, boundVars
  <2>2. TypeOK' /\ QueueOK(jobs)' /\ QueueOK(saved)' /\ TickHand' /\ CallerHand'
      BY <2>1 DEF DaemonInv, TypeOK, QueueOK, Done, TickHand, Following, Starting, CallerHand, At
  <2>3. LiveWasClaimed' /\ Tracked' /\ Started' /\ Files'
      BY <2>1 DEF DaemonInv, LiveWasClaimed, With, Tracked, Started, Files, HasFile
  <2>4. (overlaps = 0 => Alone)'
      BY <2>1 DEF DaemonInv, Alone, SlotOne, At, Following, Starting
  <2> QED
      BY <2>2, <2>3, <2>4 DEF DaemonInv
<1>2. CASE Tick
    BY <1>2, BootStep, QuietTicks, TickSets, StartStep, RecordStep DEF Tick
<1>3. CASE Api
    BY <1>3, CreateStep, AskSteps, ReachSteps, RequestSets, ResumeStep DEF Api, GoesOn
<1>4. CASE Batch \/ BatchAsks \/ BatchGoesOn \/ BatchVanishes \/ DesktopPauses
    BY <1>4, ActiveSteps DEF Batch
<1>5. CASE DesktopStarts \/ DesktopResumes \/ DesktopForgets
    BY <1>5, WindowSteps
<1>6. CASE Crash
    BY <1>6, CrashStep
<1> QED
    BY <1>1, <1>2, <1>3, <1>4, <1>5, <1>6 DEF Next

(* A set with no two elements has at most one.                               *)
LEMMA AtMostOne ==
    ASSUME NEW S, \A x, y \in S : x = y
    PROVE  Cardinality(S) <= 1
<1>1. ASSUME NEW x \in S PROVE S = {x}
    OBVIOUS
<1>2. Cardinality({}) = 0 /\ \A x : Cardinality({x}) = 1
    BY FS_EmptySet, FS_Singleton
<1>3. CASE S = {}
    BY <1>2, <1>3
<1>4. CASE S # {}
  <2>1. PICK x : x \in S
      BY <1>4
  <2>2. S = {x}
      BY <1>1, <2>1
  <2>3. Cardinality({x}) = 1
      BY <1>2
  <2> QED
      BY <2>2, <2>3
<1> QED
    BY <1>3, <1>4

(* What the invariant says of the queue.                                     *)
LEMMA InvIsEnough == DaemonInv => Tracking /\ CompletedIsComplete /\ OneSlot /\ StartedOnce
<1> SUFFICES ASSUME DaemonInv PROVE Tracking /\ CompletedIsComplete /\ OneSlot /\ StartedOnce
    OBVIOUS
<1> USE DEF DaemonInv
<1>1. Tracking
    BY DEF Tracking, ActiveIsTracked, Tracked
<1>2. CompletedIsComplete
    BY DEF CompletedIsComplete, With, QueueOK, Done
<1>3. ASSUME overlaps = 0 PROVE Cardinality(With(SlotStatuses)) <= 1
  <2>1. \A i, k \in With(SlotStatuses) : i = k
      BY <1>3 DEF Alone, SlotOne, With
  <2> QED
      BY <2>1, AtMostOne
<1>4. ASSUME faults = 0, NEW i \in Jobs PROVE Cardinality(starts[i]) <= 1
  <2>1. starts[i] \subseteq claimed /\ starts[i] \subseteq Batches
      BY <1>4 DEF Started, TypeOK
  <2>2. CASE tpc = "started" /\ tjob = i
      BY <2>1, <2>2, AtMostOne, Kinds DEF Tracked, TickHand, Starting
  <2>3. CASE ~(tpc = "started" /\ tjob = i)
      BY <2>1, <2>3, AtMostOne DEF Tracked
  <2> QED
      BY <2>2, <2>3
<1> QED
    BY <1>1, <1>2, <1>3, <1>4 DEF OneSlot, StartedOnce

(* A start is the tick's, for the first job of the queue.                    *)
LEMMA StartsInOrder ==
    ASSUME DaemonInv, [Next]_vars, NEW i \in Jobs, starts'[i] # starts[i],
           NEW k \in DOMAIN jobs, k < i
    PROVE  jobs[k].status # "queued"
<1>1. TickStarts
    BY DEF Next, vars, Tick, Api, GoesOn, Batch, history, Boot, TickScans, TickReads, TickReports,
           TickPicks, TickFindsBusy, TickIsRefused, TickRecordsStart, TickRecordsRefusal, CreateJob,
           ContinueJob, CancelAsks, ResumeAsks, CancelsQueued, CancelsBatch, ResumesBatch,
           MarksResumed, BatchRuns, BatchEnds, BatchReleases, BatchAsks, BatchGoesOn, BatchVanishes,
           Outside, DesktopStarts, DesktopResumes, DesktopPauses, DesktopForgets, DesktopUnchanged,
           Crash
<1>2. i = tjob /\ tpc = "start"
    BY <1>1 DEF TickStarts, DaemonInv, TypeOK
<1> QED
    BY <1>2 DEF DaemonInv, TickHand

(* A job leaves recovery with a resume, or with the application.             *)
LEMMA RecoveryWaits ==
    ASSUME DaemonInv, [Next]_vars, NEW i \in DOMAIN jobs, jobs[i].status = "recovery_required",
           jobs'[i].status # "recovery_required"
    PROVE  tpc' = "boot" \/ \E c \in Callers : At(c, "resume_mark") /\ caller[c].job = i
<1> USE DEF DaemonInv
<1>1. CASE UNCHANGED jobs
    BY <1>1
<1>2. ASSUME NEW k \in DOMAIN jobs, k # i, NEW status, Save(SetStatus(k, status)) PROVE FALSE
  <2>1. jobs'[i] = jobs[i]
      BY <1>2 DEF Save, SetStatus
  <2> QED
      BY <2>1
<1>3. CASE TickReports
  <2>1. tjob \in DOMAIN jobs /\ tjob # i
      BY <1>3 DEF TickReports, TickHand, Following
  <2> QED
      BY <1>2, <1>3, <2>1 DEF TickReports
<1>4. CASE TickRecordsRefusal
  <2>1. tjob \in DOMAIN jobs /\ tjob # i
      BY <1>4 DEF TickRecordsRefusal, TickHand, Starting
  <2> QED
      BY <1>2, <1>4, <2>1 DEF TickRecordsRefusal
<1>5. CASE TickRecordsStart
  <2>1. tjob \in DOMAIN jobs /\ tjob # i
      BY <1>5 DEF TickRecordsStart, TickHand, Starting
  <2>2. jobs'[i] = jobs[i]
      BY <1>5, <2>1 DEF TickRecordsStart, Save
  <2> QED
      BY <2>2
<1>6. CASE Boot
  <2>1. jobs'[i] = jobs[i]
      BY <1>6 DEF Boot, Save, Recovered, ActiveStatuses
  <2> QED
      BY <2>1
<1>7. CASE CreateJob
  <2>1. jobs' = Append(jobs, [status |-> "queued", batch |-> NoBatch])
      BY <1>7 DEF CreateJob, Save
  <2>2. [status |-> "queued", batch |-> NoBatch] \in DaemonJobs
      BY DEF DaemonJobs
  <2>3. jobs'[i] = jobs[i]
      BY <2>1, <2>2, Kinds, AppendProperties
  <2> QED
      BY <2>3
<1>8. ASSUME NEW c \in Callers, CancelsQueued(c) PROVE FALSE
  <2>1. caller[c].job \in DOMAIN jobs /\ caller[c].job # i
      BY <1>8 DEF CancelsQueued, CallerHand, At
  <2> QED
      BY <1>2, <1>8, <2>1 DEF CancelsQueued
<1>9. ASSUME NEW c \in Callers, MarksResumed(c) PROVE caller[c].job = i /\ At(c, "resume_mark")
  <2>1. caller[c].job \in DOMAIN jobs /\ At(c, "resume_mark")
      BY <1>9 DEF MarksResumed, CallerHand, At
  <2> QED
      BY <1>2, <1>9, <2>1 DEF MarksResumed
<1>10. CASE Crash
    BY <1>10 DEF Crash
<1>11. \/ UNCHANGED jobs \/ TickReports \/ TickRecordsRefusal \/ TickRecordsStart \/ Boot \/ CreateJob
       \/ Crash \/ \E c \in Callers : CancelsQueued(c) \/ MarksResumed(c)
    BY DEF Next, vars, Tick, Api, GoesOn, Batch, queueVars, TickScans, TickReads, TickPicks,
           TickFindsBusy, TickStarts, TickIsRefused, ContinueJob, CancelAsks, ResumeAsks,
           CancelsBatch, ResumesBatch, BatchRuns, BatchEnds, BatchReleases, BatchAsks, BatchGoesOn,
           BatchVanishes, Outside, DesktopStarts, DesktopResumes, DesktopPauses, DesktopForgets,
           DesktopUnchanged
<1> QED
    BY <1>1, <1>3, <1>4, <1>5, <1>6, <1>7, <1>8, <1>9, <1>10, <1>11

-----------------------------------------------------------------------------
(* The invariant holds in every state the daemon reaches.                    *)
THEOREM DaemonHolds == Spec => []DaemonInv
BY DaemonInvInit, DaemonInvStep, PTL DEF Spec

(* However requests, window, failed saves and crashes interleave with the    *)
(* tick: a live job's batch was started or resumed in this run of the        *)
(* application, and a batch the daemon runs is its job's (tick).             *)
THEOREM Tracks == Spec => []Tracking
BY DaemonHolds, InvIsEnough, PTL

(* A job shown as completed has left nothing undone, although its status was *)
(* read in one tick step and written in another (sync_batch).                *)
THEOREM Completes == Spec => []CompletedIsComplete
BY DaemonHolds, InvIsEnough, PTL

(* One job holds the slot as long as requests do not overlap (tick,          *)
(* next_queued_job, resume_job).                                             *)
THEOREM Slots == Spec => []OneSlot
BY DaemonHolds, InvIsEnough, PTL

(* Without a crash or a failed save a job is started once, whatever is       *)
(* cancelled between two looks at it (start_queued_job).                     *)
THEOREM Once == Spec => []StartedOnce
BY DaemonHolds, InvIsEnough, PTL

(* Starts follow the order of the queue, and recovery waits for a request    *)
(* (next_queued_job, resume_job).                                            *)
THEOREM ByRule == Spec => StartsByRule
<1> DEFINE Fifo == \A i \in Jobs : starts'[i] # starts[i] =>
                       \A k \in DOMAIN jobs : k < i => jobs[k].status # "queued"
           Explicit == \A i \in DOMAIN jobs :
                           /\ jobs[i].status = "recovery_required"
                           /\ jobs'[i].status # "recovery_required"
                           => tpc' = "boot" \/ \E c \in Callers : At(c, "resume_mark") /\ caller[c].job = i
<1>1. DaemonInv /\ [Next]_vars => [Fifo]_vars
    BY StartsInOrder
<1>2. DaemonInv /\ [Next]_vars => [Explicit]_vars
    BY RecoveryWaits
<1>3. Spec => [][Fifo]_vars /\ [][Explicit]_vars
    BY <1>1, <1>2, DaemonHolds, PTL DEF Spec
<1> QED
    BY <1>3 DEF StartsByRule, FifoStarts, RecoveryIsExplicit
=============================================================================
