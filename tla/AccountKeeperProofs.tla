------------------------ MODULE AccountKeeperProofs -------------------------
(***************************************************************************)
(* Theorems about AccountKeeper, for batches of any size, both operations   *)
(* and any number of faults, controls, challenges and resumes: the types,   *)
(* that no password is lost, that the checkpoint tells the truth and that   *)
(* coordinator and worker never wait for each other.                        *)
(***************************************************************************)
EXTENDS AccountKeeper, SequenceTheorems, TLAPS

(* Where the coordinator is, or will be when the snapshot in hand is saved. *)
Going == IF pc = "save" THEN after ELSE pc

(* process_account has an account in hand, and so a valid account_index.    *)
InHand == {"proxy", "launch", "spawn", "serve", "send_totp", "send_submit", "finish"}

InSession == {"serve", "send_totp", "send_submit", "finish"}

(* The variables' types, by the part of the system that owns them.          *)
DiskType == vault \in [Accounts -> VaultRecords] /\ ckpt \in Checkpoints

PlaceType == pc \in PCs /\ after \in PCs

TaskType ==
    /\ idx \in 1 .. NumAccounts + 1
    /\ mc \in Checkpoints
    /\ rs \in RunStates
    /\ retries \in [nav : 0 .. MaxNavigationRetries, crash : 0 .. MaxCrashRestarts]
    /\ waiting \in BOOLEAN
    /\ ctl \in Seq(Controls)

WorkerType ==
    /\ wpc \in WPCs /\ wback \in WPCs /\ wacct \in Accounts
    /\ wsub \in BOOLEAN /\ wcancel \in BOOLEAN /\ chal \in Nat

PipeType == linked \in BOOLEAN /\ evq \in Seq(Events) /\ cmdq \in Seq(Commands)

ProviderType ==
    /\ provider \in [Accounts -> Passwords]
    /\ inflight \in [Accounts -> Nat]
    /\ minted \in [Accounts -> Passwords]

BoundType == faults \in Nat /\ resumes \in Nat /\ controls \in Nat

(* What TypeOK rests on: an account in hand is an account of the batch, and *)
(* process_account returns from a stage it has an outcome for.              *)
HandOK ==
    /\ Going \in InHand => idx \in Accounts
    /\ Going = "finish" => rs.stage \in TerminalStages \cup {"queued"}

TypeInv ==
    /\ DiskType /\ PlaceType /\ TaskType /\ WorkerType /\ PipeType /\ ProviderType
    /\ BoundType /\ HandOK

(* TypeInv covers every conjunct of TypeOK.                                  *)
LEMMA TypeInvIsTypeOK == TypeInv => TypeOK
BY DEF TypeInv, TypeOK, DiskType, PlaceType, TaskType, WorkerType, PipeType,
       ProviderType, BoundType

(* A part that an action leaves alone keeps its type.                       *)
LEMMA Frames ==
    ASSUME TypeInv
    PROVE  /\ UNCHANGED diskVars => DiskType'
           /\ UNCHANGED taskVars => TaskType'
           /\ UNCHANGED workerVars => WorkerType'
           /\ UNCHANGED pipeVars => PipeType'
           /\ UNCHANGED providerVars => ProviderType'
           /\ UNCHANGED boundVars => BoundType'
BY DEF TypeInv, DiskType, TaskType, WorkerType, PipeType, ProviderType, BoundType,
       diskVars, taskVars, workerVars, pipeVars, providerVars, boundVars

-----------------------------------------------------------------------------
(* The run state machine keeps its type.                                     *)

RunEvents == {"LaunchStarted", "TotpRequested", "PasswordAccepted", "PasswordChanged",
              "ManualRequired", "Resumed", "Verified", "LoginVerified",
              "SecurityVerified", "CredentialStateUnknown", "Failed", "Cancelled"}

(* Transition (the match of AccountRunState::transition) is total and typed. *)
LEMMA TransitionType ==
    ASSUME NEW r \in RunStates, NEW ev \in RunEvents
    PROVE  Transition(r, ev) \in RunStates
BY DEF RunStates, RunEvents, Transition, UnlessUnknown, Stages, SecurityStages,
       TerminalStages, PasswordStates

(* A failure ends in a terminal stage, critical exactly when it is unknown.  *)
LEMMA AfterFailureType ==
    ASSUME NEW r \in RunStates, NEW code
    PROVE  /\ AfterFailure(r, code) \in RunStates
           /\ AfterFailure(r, code).stage \in TerminalStages
           /\ AfterFailure(r, code).stage = "critical"
                <=> AfterFailure(r, code).pstate = "unknown"
           /\ AfterFailure(r, code).pstate =
                IF code = "credential_state_unknown" THEN "unknown" ELSE r.pstate
BY DEF RunStates, AfterFailure, FailureEvent, Transition, UnlessUnknown, Stages,
       SecurityStages, TerminalStages, PasswordStates

(* So do the checkpoint and the vault record.                                *)
LEMMA RecordType ==
    ASSUME NEW c \in Checkpoints, NEW a, NEW stage \in Stages, NEW s \in JobStatuses
    PROVE  /\ RecordStage(c, a, stage) \in Checkpoints
           /\ [RecordStage(c, a, stage) EXCEPT !.status = s] \in Checkpoints
           /\ [c EXCEPT !.status = s] \in Checkpoints
BY DEF Checkpoints, RecordStage

(* The pause flag, the proxy assignment and the final status keep it typed.  *)
LEMMA CheckpointType ==
    ASSUME NEW c \in Checkpoints, NEW a, NEW p \in BOOLEAN
    PROVE  /\ [c EXCEPT !.pause = p] \in Checkpoints
           /\ [c EXCEPT !.assign[a] = FALSE] \in Checkpoints
           /\ FinalStatus(c) \in JobStatuses
BY DEF Checkpoints, FinalStatus, JobStatuses

(* The cancellation sweep returns a checkpoint.                              *)
LEMMA SweepType ==
    ASSUME NEW c \in Checkpoints, NEW first, NEW critical \in BOOLEAN
    PROVE  CancelFrom(c, first, critical) \in Checkpoints
BY DEF Checkpoints, CancelFrom, JobStatuses, Stages, TerminalStages

(* Blaming an account (mark_job_run_error) returns a checkpoint.             *)
LEMMA BlamedType ==
    ASSUME NEW c \in Checkpoints
    PROVE  Blamed(c) \in Checkpoints
BY DEF Checkpoints, Blamed, JobStatuses, Stages, TerminalStages

(* The four updates of a vault record return a typed vault.                  *)
LEMMA VaultType ==
    ASSUME NEW vv \in [Accounts -> VaultRecords], NEW a, NEW r \in RunStates
    PROVE  /\ [vv EXCEPT ![a] = FailedRecord(@, r)] \in [Accounts -> VaultRecords]
           /\ [vv EXCEPT ![a] = LoginVerifiedRecord(@)] \in [Accounts -> VaultRecords]
           /\ \A p \in Passwords :
                [vv EXCEPT ![a] = AuthorizedRecord(@, p)] \in [Accounts -> VaultRecords]
           /\ a \in Accounts /\ vv[a].pending # NoPassword =>
                [vv EXCEPT ![a] = VerifiedRecord(@)] \in [Accounts -> VaultRecords]
<1> USE DEF VaultRecords
<1>1. ASSUME a \in Accounts
      PROVE  /\ FailedRecord(vv[a], r) \in VaultRecords
             /\ LoginVerifiedRecord(vv[a]) \in VaultRecords
    BY <1>1 DEF RunStates, PasswordStates, NoPassword, FailedRecord, LoginVerifiedRecord
<1>2. ASSUME a \in Accounts, NEW p \in Passwords
      PROVE  AuthorizedRecord(vv[a], p) \in VaultRecords
    BY <1>2 DEF PasswordStates, Passwords, AuthorizedRecord
<1>3. ASSUME a \in Accounts, vv[a].pending # NoPassword
      PROVE  VerifiedRecord(vv[a]) \in VaultRecords
    BY <1>3 DEF PasswordStates, Passwords, NoPassword, VerifiedRecord
<1> HIDE DEF VaultRecords
<1> QED
    BY <1>1, <1>2, <1>3

-----------------------------------------------------------------------------
(* The building blocks of the actions.                                       *)

(* persist_snapshot sends the task on to `next` with typed files.            *)
LEMMA PersistType ==
    ASSUME NEW v \in [Accounts -> VaultRecords], NEW c \in Checkpoints, NEW next \in PCs,
           Persist(v, c, next)
    PROVE  /\ vault' \in [Accounts -> VaultRecords] /\ mc' \in Checkpoints
           /\ PlaceType' /\ Going' = next
BY DEF Persist, PlaceType, PCs, Going

(* Killing the worker and dropping the pipes keeps their types.              *)
LEMMA DropSessionType ==
    ASSUME TypeInv, DropSession
    PROVE  WorkerType' /\ PipeType'
<1>1. <<>> \in Seq(Events) /\ <<>> \in Seq(Commands)
    BY EmptySeq
<1> QED
    BY <1>1 DEF TypeInv, DropSession, WorkerType, PipeType, workerVars, pipeVars, WPCs

(* An Err out of run_batch keeps the types.                                  *)
LEMMA RaiseType ==
    ASSUME TypeInv, Raise
    PROVE  TypeInv'
<1>1. WorkerType' /\ PipeType'
    BY DropSessionType DEF Raise
<1> QED
    BY <1>1, Frames DEF Raise, TypeInv, PlaceType, PCs, HandOK, Going, InHand

(* apply_worker_event(Failed) leaves a typed snapshot and a terminal stage.  *)
LEMMA EndAccountType ==
    ASSUME TypeInv, NEW code, NEW s \in JobStatuses, EndAccount(code, s)
    PROVE  /\ vault' \in [Accounts -> VaultRecords] /\ mc' \in Checkpoints
           /\ rs' \in RunStates /\ rs'.stage \in TerminalStages
           /\ PlaceType' /\ Going' = "finish"
<1>1. rs' \in RunStates /\ rs'.stage \in TerminalStages
    BY AfterFailureType DEF EndAccount, TypeInv, TaskType
<1>2. rs'.stage \in Stages /\ "critical" \in JobStatuses /\ "finish" \in PCs
    BY <1>1 DEF RunStates, JobStatuses, PCs
<1> DEFINE v == [vault EXCEPT ![idx] = FailedRecord(@, rs')]
           st == IF rs'.stage = "critical" THEN "critical" ELSE s
           c == [RecordStage(mc, idx, rs'.stage) EXCEPT !.status = st]
<1>3. v \in [Accounts -> VaultRecords]
    BY <1>1, VaultType DEF TypeInv, DiskType
<1>4. st \in JobStatuses
    BY <1>2
<1>5. c \in Checkpoints
    <2> HIDE DEF st
    <2> QED BY <1>2, <1>4, RecordType DEF TypeInv, TaskType
<1>6. Persist(v, c, "finish")
    BY DEF EndAccount
<1> HIDE DEF v, c
<1> QED
    BY <1>1, <1>2, <1>3, <1>5, <1>6, PersistType

(* Reading one worker event touches nothing outside the coordinator.         *)
LEMMA ServeType ==
    ASSUME TypeInv, pc = "serve", evq # <<>>, evq' = Tail(evq), ServeUnchanged
    PROVE  /\ WorkerType' /\ PipeType' /\ ProviderType' /\ BoundType'
           /\ ckpt' = ckpt /\ idx' = idx /\ idx \in Accounts
           /\ Head(evq) \in Events
<1>1. Head(evq) \in Events /\ Tail(evq) \in Seq(Events)
    BY HeadTailProperties DEF TypeInv, PipeType
<1> QED
    BY <1>1, Frames DEF ServeUnchanged, TypeInv, PipeType, HandOK, Going, InHand

(* Reading one control may add one command to the worker's pipe.             *)
LEMMA ControlType ==
    ASSUME TypeInv, pc = "serve", ctl # <<>>, ctl' = Tail(ctl), ControlUnchanged,
           cmdq' \in {cmdq, Append(cmdq, "cancel"), Append(cmdq, "resume")}
    PROVE  /\ WorkerType' /\ PipeType' /\ ProviderType' /\ BoundType'
           /\ ckpt' = ckpt /\ idx' = idx /\ retries' = retries /\ idx \in Accounts
           /\ ctl' \in Seq(Controls)
<1>1. Tail(ctl) \in Seq(Controls)
    BY HeadTailProperties DEF TypeInv, TaskType
<1>2. cmdq' \in Seq(Commands)
  <2>1. cmdq \in Seq(Commands) /\ "cancel" \in Commands /\ "resume" \in Commands
      BY DEF TypeInv, PipeType, Commands
  <2>2. /\ Append(cmdq, "cancel") \in Seq(Commands)
        /\ Append(cmdq, "resume") \in Seq(Commands)
      BY <2>1, AppendProperties
  <2> QED
      BY <2>1, <2>2
<1> QED
    BY <1>1, <1>2, Frames DEF ControlUnchanged, TypeInv, PipeType, HandOK, Going, InHand

(* A failure, retried or not, leads to "finish" with a typed snapshot.       *)
LEMMA FailureType ==
    ASSUME TypeInv, NEW code, Failure(code)
    PROVE  /\ vault' \in [Accounts -> VaultRecords] /\ mc' \in Checkpoints
           /\ rs' \in RunStates /\ rs'.stage \in TerminalStages \cup {"queued"}
           /\ retries' \in [nav : 0 .. MaxNavigationRetries, crash : 0 .. MaxCrashRestarts]
           /\ PlaceType' /\ Going' = "finish"
<1>1. CASE Retry(code)
  <2>1. RecordStage(mc, idx, "queued") \in Checkpoints
      BY RecordType DEF TypeInv, TaskType, Stages, JobStatuses
  <2>2. rs' \in RunStates /\ rs'.stage = "queued"
      BY <1>1 DEF Retry, TypeInv, TaskType, RunStates, Stages
  <2>3. retries' \in [nav : 0 .. MaxNavigationRetries, crash : 0 .. MaxCrashRestarts]
      BY <1>1 DEF Retry, MayRetry, TypeInv, TaskType, MaxNavigationRetries, MaxCrashRestarts
  <2> QED
      BY <1>1, <2>1, <2>2, <2>3, PersistType DEF Retry, TypeInv, DiskType, PCs
<1>2. CASE EndAccount(code, "running") /\ UNCHANGED retries
    BY <1>2, EndAccountType DEF TypeInv, TaskType, JobStatuses
<1> QED
    BY <1>1, <1>2 DEF Failure

(* Writing to stdout keeps the worker and the pipe typed.                    *)
LEMMA EmitType ==
    ASSUME TypeInv, NEW events \in Seq(Events), NEW next \in WPCs, Emit(events, next),
           UNCHANGED linked
    PROVE  /\ wpc' \in WPCs /\ evq' \in Seq(Events) /\ linked' \in BOOLEAN
BY ConcatProperties DEF Emit, TypeInv, PipeType, WPCs

(* Steps of the worker, the provider and the bounds leave the task alone.    *)
LEMMA TaskFrame ==
    ASSUME TypeInv, UNCHANGED <<diskVars, pc, after, taskVars>>,
           WorkerType', PipeType', ProviderType', BoundType'
    PROVE  TypeInv'
BY Frames DEF TypeInv, PlaceType, HandOK, Going, taskVars

-----------------------------------------------------------------------------
(* Every step of the coordinator keeps TypeInv.                              *)

(* run_batch between accounts.                                               *)
LEMMA BatchSteps ==
    ASSUME TypeInv,
           \/ Begin \/ SaveCheckpoint \/ SkipAccount
           \/ CancelBetweenAccounts \/ TakeAccount \/ FinishBatch \/ Finish
           \/ MarkJobRunError
    PROVE  TypeInv'
<1>0. <<>> \in Seq(Controls)
    BY EmptySeq
<1> USE NumAccountsAssumption, Frames, PersistType
        DEF TypeInv, DiskType, TaskType, HandOK, InHand, PCs, Accounts
<1>1. CASE Begin
  <2>1. [ckpt EXCEPT !.status = "running"] \in Checkpoints
      BY RecordType DEF JobStatuses, Stages
  <2> QED
      BY <1>1, <2>1 DEF Begin
<1>2. CASE SaveCheckpoint
    BY <1>0, <1>2 DEF SaveCheckpoint, PlaceType, Going
<1>3. CASE SkipAccount
    BY <1>3 DEF SkipAccount, PlaceType, Going
<1>4. CASE CancelBetweenAccounts
  <2>1. Drained \in Checkpoints
      BY CheckpointType DEF Drained, Checkpoints
  <2>2. CancelRemaining(Drained, idx) \in Checkpoints
      BY <2>1, SweepType DEF CancelRemaining
  <2> QED
      BY <1>0, <1>4, <2>2 DEF CancelBetweenAccounts
<1>5. CASE TakeAccount
  <2>1. Drained \in Checkpoints
      BY CheckpointType DEF Drained, Checkpoints
  <2>2. ProviderType'
      BY <1>5 DEF TakeAccount, ProviderType, Passwords, NoPassword
  <2>3. rs' \in RunStates
      BY <1>5 DEF TakeAccount, RunStates, Stages, VaultRecords
  <2>4. retries' \in [nav : 0 .. MaxNavigationRetries, crash : 0 .. MaxCrashRestarts]
      BY <1>5 DEF TakeAccount, MaxNavigationRetries, MaxCrashRestarts
  <2> QED
      BY <1>0, <1>5, <2>1, <2>2, <2>3, <2>4 DEF TakeAccount, PlaceType, Going
<1>6. CASE FinishBatch
  <2>1. [mc EXCEPT !.status = FinalStatus(mc)] \in Checkpoints
      BY RecordType, CheckpointType DEF Stages
  <2> QED
      BY <1>6, <2>1 DEF FinishBatch
<1>7. CASE Finish
  <2>1. WorkerType' /\ PipeType'
      BY <1>7, DropSessionType DEF Finish
  <2>2. [mc EXCEPT !.status = "critical"] \in Checkpoints
        /\ [mc EXCEPT !.status = "paused"] \in Checkpoints
      BY RecordType DEF JobStatuses, Stages
  <2>3. CancelRemaining(mc, idx + 1) \in Checkpoints
      BY SweepType DEF CancelRemaining
  <2>4. rs.stage \in TerminalStages \cup {"queued"} /\ idx \in Accounts /\ mc.pause \in BOOLEAN
      BY <1>7 DEF Finish, Going, Checkpoints
  <2>5. /\ UNCHANGED <<ckpt, rs, retries, waiting, ctl>>
        /\ ProviderType' /\ BoundType'
      BY <1>7 DEF Finish
  <2>6. CASE rs.stage = "queued"
    <3>1. pc' = "launch" /\ UNCHANGED <<vault, after, mc, idx>>
        BY <1>7, <2>6 DEF Finish
    <3> QED
        BY <2>1, <2>4, <2>5, <3>1 DEF PlaceType, Going
  <2>7. CASE rs.stage \in {"success", "failed"} /\ ~mc.pause
    <3>1. pc' = "next" /\ idx' = idx + 1 /\ UNCHANGED <<vault, after, mc>>
        BY <1>7, <2>7 DEF Finish
    <3> QED
        BY <2>1, <2>4, <2>5, <3>1 DEF PlaceType, Going
  <2>8. CASE rs.stage = "critical"
      BY <1>7, <2>1, <2>2, <2>5, <2>8 DEF Finish
  <2>9. CASE rs.stage = "cancelled"
      BY <1>7, <2>1, <2>3, <2>5, <2>9 DEF Finish
  <2>10. CASE rs.stage \in {"success", "failed"} /\ mc.pause
      BY <1>7, <2>1, <2>2, <2>5, <2>10 DEF Finish
  <2> QED
      BY <2>4, <2>6, <2>7, <2>8, <2>9, <2>10 DEF TerminalStages
<1>8. CASE MarkJobRunError
    BY <1>0, <1>8, BlamedType DEF MarkJobRunError, PlaceType, Going
<1> QED
    BY <1>1, <1>2, <1>3, <1>4, <1>5, <1>6, <1>7, <1>8

(* process_account up to the running worker.                                 *)
LEMMA AttemptSteps ==
    ASSUME TypeInv,
           ProxyAssigned \/ ProxyFails \/ Launch \/ LaunchFails \/ SpawnWorker
    PROVE  TypeInv'
<1>0. pc \in InHand => idx \in Accounts
    BY DEF TypeInv, HandOK, Going, InHand
<1> USE Frames, PersistType DEF TypeInv, DiskType, TaskType, HandOK, InHand, PCs
<1>1. CASE ProxyAssigned
  <2>1. [mc EXCEPT !.assign[idx] = FALSE] \in Checkpoints
      BY CheckpointType
  <2> QED
      BY <1>0, <1>1, <2>1 DEF ProxyAssigned
<1>2. CASE ProxyFails
  <2>1. [RecordStage(mc, idx, "queued") EXCEPT !.status = "paused"] \in Checkpoints
      BY RecordType DEF JobStatuses, Stages
  <2> QED
      BY <1>2, <2>1 DEF ProxyFails
<1>3. CASE Launch
  <2>1. rs' \in RunStates /\ rs'.stage \in Stages
    <3>1. [rs EXCEPT !.stage = "queued"] \in RunStates
        BY DEF RunStates, Stages
    <3> QED
        BY <1>3, <3>1, TransitionType DEF Launch, RunEvents, RunStates
  <2>2. [RecordStage(mc, idx, rs'.stage) EXCEPT !.status = "running"] \in Checkpoints
      BY <2>1, RecordType DEF JobStatuses
  <2> QED
      BY <1>0, <1>3, <2>1, <2>2 DEF Launch
<1>4. CASE LaunchFails
  <2>1. rs' \in RunStates /\ rs'.stage \in TerminalStages
      BY <1>4, AfterFailureType DEF LaunchFails
  <2>2. RecordStage(mc, idx, rs'.stage) \in Checkpoints
      BY <2>1, RecordType DEF JobStatuses, RunStates
  <2>3. [vault EXCEPT ![idx] = FailedRecord(@, rs')] \in [Accounts -> VaultRecords]
      BY <2>1, VaultType
  <2> QED
      BY <1>0, <1>4, <2>1, <2>2, <2>3 DEF LaunchFails
<1>5. CASE SpawnWorker
  <2>1. WorkerType' /\ PipeType'
      BY <1>0, <1>5, EmptySeq, BoundsAssumption
      DEF SpawnWorker, WorkerType, PipeType, WPCs
  <2> QED
      BY <1>0, <1>5, <2>1 DEF SpawnWorker, PlaceType, Going
<1> QED
    BY <1>1, <1>2, <1>3, <1>4, <1>5

(* The worker events of the select loop.                                     *)
LEMMA EventSteps ==
    ASSUME TypeInv,
           \/ OnStage \/ OnTotpRequired \/ OnManualRequired \/ OnSubmitRequired
           \/ OnPasswordChanged \/ OnVerified \/ OnFailed \/ OnEndOfStream
           \/ OnRejectedEvent \/ SendTotp \/ SendSubmit
    PROVE  TypeInv'
<1> USE PersistType DEF TypeInv, DiskType, TaskType, HandOK, InHand, PCs
<1>1. CASE OnStage
  <2>1. pc = "serve" /\ evq # <<>> /\ evq' = Tail(evq) /\ ServeUnchanged
      BY <1>1 DEF OnStage, Receive
  <2>2. rs' \in RunStates /\ rs'.stage \in Stages
      BY <1>1, <2>1, ServeType DEF OnStage, Receive, Events, RunStates
  <2>3. RecordStage(mc, idx, rs'.stage) \in Checkpoints
      BY <2>2, RecordType DEF JobStatuses
  <2> QED
      BY <1>1, <2>1, <2>2, <2>3, ServeType DEF OnStage
<1>2. CASE OnTotpRequired
  <2>1. pc = "serve" /\ evq # <<>> /\ evq' = Tail(evq) /\ ServeUnchanged
      BY <1>2 DEF OnTotpRequired, Receive
  <2>2. rs' \in RunStates /\ rs'.stage \in Stages
      BY <1>2, TransitionType DEF OnTotpRequired, RunEvents, RunStates
  <2>3. RecordStage(mc, idx, rs'.stage) \in Checkpoints
      BY <2>2, RecordType DEF JobStatuses
  <2> QED
      BY <1>2, <2>1, <2>2, <2>3, ServeType DEF OnTotpRequired
<1>3. CASE OnManualRequired
  <2>1. pc = "serve" /\ evq # <<>> /\ evq' = Tail(evq) /\ ServeUnchanged
      BY <1>3 DEF OnManualRequired, Receive
  <2>2. rs' \in RunStates /\ rs'.stage \in Stages
      BY <1>3, TransitionType DEF OnManualRequired, RunEvents, RunStates
  <2>3. [RecordStage(mc, idx, rs'.stage) EXCEPT !.status = "waiting_manual"] \in Checkpoints
      BY <2>2, RecordType DEF JobStatuses
  <2> QED
      BY <1>3, <2>1, <2>2, <2>3, ServeType DEF OnManualRequired
<1>4. CASE OnSubmitRequired
  <2>1. pc = "serve" /\ evq # <<>> /\ evq' = Tail(evq) /\ ServeUnchanged
      BY <1>4 DEF OnSubmitRequired, Receive
  <2>2. rs' \in RunStates /\ rs'.stage \in Stages
      BY <1>4, TransitionType DEF OnSubmitRequired, RunEvents, RunStates
  <2>3. RecordStage(mc, idx, rs'.stage) \in Checkpoints
      BY <2>2, RecordType DEF JobStatuses
  <2>4. [vault EXCEPT ![idx] = AuthorizedRecord(@, minted[idx])] \in [Accounts -> VaultRecords]
      BY <2>1, <2>2, ServeType, VaultType DEF ProviderType
  <2> QED
      BY <1>4, <2>1, <2>2, <2>3, <2>4, ServeType DEF OnSubmitRequired
<1>5. CASE OnPasswordChanged
  <2>1. pc = "serve" /\ evq # <<>> /\ evq' = Tail(evq) /\ ServeUnchanged
      BY <1>5 DEF OnPasswordChanged, Receive
  <2>2. rs' \in RunStates /\ rs'.stage \in Stages
      BY <1>5, TransitionType DEF OnPasswordChanged, RunEvents, RunStates
  <2>3. RecordStage(mc, idx, rs'.stage) \in Checkpoints
      BY <2>2, RecordType DEF JobStatuses
  <2> QED
      BY <1>5, <2>1, <2>2, <2>3, ServeType DEF OnPasswordChanged
<1>6. CASE OnVerified
  <2>1. pc = "serve" /\ evq # <<>> /\ evq' = Tail(evq) /\ ServeUnchanged
      BY <1>6 DEF OnVerified, Receive
  <2>2. rs' \in RunStates /\ rs'.stage = "success"
    <3>1. rs' \in RunStates
        BY <1>6, TransitionType DEF OnVerified, RunEvents
    <3>2. rs'.stage = "success"
        BY <1>6 DEF OnVerified, Transition, RunStates
    <3> QED BY <3>1, <3>2
  <2>3. [RecordStage(mc, idx, rs'.stage) EXCEPT !.status = "running"] \in Checkpoints
      BY <2>2, RecordType DEF JobStatuses, RunStates
  <2> DEFINE v == [vault EXCEPT ![idx] = IF Operation = "login"
                                         THEN LoginVerifiedRecord(@) ELSE VerifiedRecord(@)]
  <2>4. v \in [Accounts -> VaultRecords]
    <3>1. CASE Operation = "login"
        BY <2>2, <3>1, VaultType
    <3>2. CASE Operation # "login"
        BY <1>6, <2>1, <2>2, <3>2, ServeType, VaultType
        DEF OnVerified, AcceptsSuccess, AcceptsVerified
    <3> QED
        BY <3>1, <3>2
  <2>5. Persist(v, [RecordStage(mc, idx, rs'.stage) EXCEPT !.status = "running"], "finish")
      BY <1>6 DEF OnVerified
  <2> HIDE DEF v
  <2> QED
      BY <1>6, <2>1, <2>2, <2>3, <2>4, <2>5, ServeType DEF OnVerified, TerminalStages
<1>7. CASE OnFailed
  <2>1. pc = "serve" /\ evq # <<>> /\ evq' = Tail(evq) /\ ServeUnchanged
      BY <1>7 DEF OnFailed, Receive
  <2> QED
      BY <1>7, <2>1, ServeType, FailureType DEF OnFailed
<1>8. CASE OnEndOfStream
    BY <1>8, FailureType, Frames
    DEF OnEndOfStream, ServeUnchanged, Going, PipeType
<1>9. CASE OnRejectedEvent
    BY <1>9, RaiseType DEF OnRejectedEvent
<1>10. ASSUME NEW command \in Commands, Send(command), pc \in {"send_totp", "send_submit"}
       PROVE  TypeInv'
    BY <1>10, AppendProperties, Frames
    DEF Send, PipeType, PlaceType, Going, taskVars
<1>11. CASE SendTotp
    BY <1>10, <1>11, RaiseType DEF SendTotp, Commands
<1>12. CASE SendSubmit
    BY <1>10, <1>12, RaiseType DEF SendSubmit, Commands
<1> QED
    BY <1>1, <1>2, <1>3, <1>4, <1>5, <1>6, <1>7, <1>8, <1>9, <1>11, <1>12

(* The controls of the select loop.                                          *)
LEMMA ControlSteps ==
    ASSUME TypeInv,
           \/ OnPause \/ OnContinue \/ OnContinueToDeadWorker \/ OnMarkFailed
           \/ OnCancel \/ OnIgnoredControl
    PROVE  TypeInv'
<1> USE PersistType DEF TypeInv, DiskType, TaskType, HandOK, InHand, PCs
<1>1. CASE OnPause
  <2>1. [mc EXCEPT !.pause = TRUE] \in Checkpoints
      BY CheckpointType
  <2> QED
      BY <1>1, <2>1, ControlType DEF OnPause, Take
<1>2. CASE OnContinue
  <2>1. rs' \in RunStates /\ rs'.stage \in Stages
      BY <1>2, TransitionType DEF OnContinue, RunEvents, RunStates
  <2>2. [RecordStage(mc, idx, rs'.stage) EXCEPT !.status = "running"] \in Checkpoints
      BY <2>1, RecordType DEF JobStatuses
  <2> QED
      BY <1>2, <2>1, <2>2, ControlType DEF OnContinue, Take
<1>3. CASE OnContinueToDeadWorker
    BY <1>3, RaiseType DEF OnContinueToDeadWorker
<1>4. CASE OnMarkFailed
    BY <1>4, ControlType, EndAccountType DEF OnMarkFailed, Take, TellCancel, JobStatuses
<1>5. CASE OnCancel
    BY <1>5, ControlType, EndAccountType DEF OnCancel, Take, TellCancel, JobStatuses
<1>6. CASE OnIgnoredControl
    BY <1>6, ControlType DEF OnIgnoredControl, PlaceType, Going
<1> QED
    BY <1>1, <1>2, <1>3, <1>4, <1>5, <1>6

-----------------------------------------------------------------------------
(* So do the steps of the worker, the provider, the operator and the faults. *)

(* The steps of the worker.                                                  *)
LEMMA WorkerSteps ==
    ASSUME TypeInv, Worker
    PROVE  TypeInv'
<1>1. /\ UNCHANGED <<diskVars, pc, after, taskVars, linked, wacct, boundVars>>
      /\ BoundType' /\ TaskType'
    BY Frames DEF Worker, WorkerUnchanged, WorkerStart, WorkerSignedIn, WorkerAsksTotp,
       WorkerAsksManual, WorkerAsksSubmit, WorkerSubmits, WorkerSeesChange, WorkerLogsOut,
       WorkerVerifies, WorkerFails, WorkerReceives
<1>2. ASSUME ProviderType', WorkerType', PipeType' PROVE TypeInv'
    BY <1>1, <1>2, TaskFrame
<1>3. /\ \A st \in Stages : StageEvent(st) \in Events
      /\ \A c \in Codes : FailedEvent(c) \in Events
      /\ \A k \in {"totp_required", "manual_required", "password_submit_required",
                   "password_changed", "verified"} : Event(k) \in Events
    BY DEF Events, StageEvent, FailedEvent, Event
<1>4. /\ \A e \in Events : <<e>> \in Seq(Events)
      /\ \A e, f \in Events : <<e, f>> \in Seq(Events)
    OBVIOUS
<1>5. {"logging_in", "changing_password", "submitting_totp", "waiting_manual",
       "verifying_new_password"} \subseteq Stages
    BY DEF Stages
<1> USE DEF TypeInv, WorkerType, PipeType, WPCs
<1>6. CASE WorkerStart \/ WorkerLogsOut \/ WorkerAsksSubmit
    BY <1>1, <1>2, <1>3, <1>4, <1>5, <1>6, EmitType, Frames
    DEF WorkerStart, WorkerLogsOut, WorkerAsksSubmit
<1>7. CASE WorkerSignedIn
  <2>1. CASE Operation = "login"
      BY <1>1, <1>2, <1>3, <1>4, <1>7, <2>1, EmitType, Frames DEF WorkerSignedIn
  <2>2. CASE Operation # "login"
      BY <1>1, <1>2, <1>3, <1>4, <1>5, <1>7, <2>2, EmitType, Frames DEF WorkerSignedIn
  <2> QED
      BY <2>1, <2>2
<1>8. CASE WorkerAsksTotp \/ WorkerAsksManual
  <2>1. wback' \in WPCs /\ chal' \in Nat /\ UNCHANGED <<wsub, wcancel>>
      BY <1>8 DEF WorkerAsksTotp, WorkerAsksManual
  <2>2. wpc' \in WPCs /\ evq' \in Seq(Events)
    <3>1. /\ <<StageEvent("submitting_totp"), Event("totp_required")>> \in Seq(Events)
          /\ <<StageEvent("waiting_manual"), Event("manual_required")>> \in Seq(Events)
        BY <1>3, <1>4, <1>5
    <3>2. "totp" \in WPCs /\ "manual" \in WPCs /\ UNCHANGED linked
        BY <1>1
    <3> HIDE DEF WPCs, TypeInv, WorkerType, PipeType
    <3>3. CASE WorkerAsksTotp
        BY <3>1, <3>2, <3>3, EmitType DEF WorkerAsksTotp
    <3>4. CASE WorkerAsksManual
        BY <3>1, <3>2, <3>4, EmitType DEF WorkerAsksManual
    <3> QED
        BY <1>8, <3>3, <3>4
  <2>3. ProviderType' /\ UNCHANGED cmdq
      BY <1>8, Frames DEF WorkerAsksTotp, WorkerAsksManual
  <2> QED
      BY <1>1, <1>2, <2>1, <2>2, <2>3
<1>9. CASE WorkerSubmits
    BY <1>1, <1>2, <1>9 DEF WorkerSubmits, ProviderType, Passwords
<1>10. CASE WorkerSeesChange \/ WorkerVerifies
    BY <1>1, <1>2, <1>3, <1>4, <1>10, EmitType, Frames DEF WorkerSeesChange, WorkerVerifies
<1>11. CASE WorkerFails
    BY <1>1, <1>2, <1>3, <1>4, <1>11, EmitType, Frames DEF WorkerFails, WorkerCode, Codes
<1>12. CASE WorkerReceives
  <2>1. Tail(cmdq) \in Seq(Commands)
      BY <1>12, HeadTailProperties DEF WorkerReceives
  <2>2. ASSUME Emit(<<FailedEvent(IF wsub THEN "credential_state_unknown" ELSE "cancelled")>>,
                    "out")
        PROVE  wpc' \in WPCs /\ evq' \in Seq(Events)
      BY <1>1, <1>3, <1>4, <2>2, EmitType DEF Codes
  <2>3. wpc' \in WPCs /\ evq' \in Seq(Events)
      BY <1>12, <2>2 DEF WorkerReceives
  <2>4. wsub' \in BOOLEAN /\ wcancel' \in BOOLEAN /\ ProviderType'
      BY <1>12, Frames DEF WorkerReceives
  <2> QED
      BY <1>1, <1>2, <1>12, <2>1, <2>3, <2>4 DEF WorkerReceives
<1> QED
    BY <1>6, <1>7, <1>8, <1>9, <1>10, <1>11, <1>12 DEF Worker

(* Failed saves, dead workers, rejected lines and crashes.                   *)
LEMMA FaultSteps ==
    ASSUME TypeInv,
           \/ SaveFails \/ VaultSaveFails \/ OnBadLine \/ MarkingFails \/ WorkerDies \/ Crash
    PROVE  TypeInv'
<1>0. <<>> \in Seq(Controls) /\ <<>> \in Seq(Events)
    BY EmptySeq
<1> USE Frames DEF TypeInv, DiskType, TaskType, BoundType, HandOK, InHand, PCs
<1>1. CASE SaveFails \/ VaultSaveFails
  <2>1. WorkerType' /\ PipeType' /\ ProviderType'
      BY <1>1, DropSessionType DEF SaveFails, VaultSaveFails
  <2>2. DiskType' /\ PlaceType' /\ Going' = "error"
      BY <1>1 DEF SaveFails, VaultSaveFails, PlaceType, Going, diskVars
  <2>3. TaskType' /\ BoundType' /\ HandOK'
      BY <1>1, <2>2 DEF SaveFails, VaultSaveFails, taskVars
  <2> QED
      BY <2>1, <2>2, <2>3
<1>2. CASE OnBadLine
  <2>1. PipeType'
      BY <1>2, HeadTailProperties DEF OnBadLine, PipeType
  <2>2. idx \in Accounts
      BY <1>2 DEF OnBadLine, Going
  <2> QED
    <3>1. PICK code : Failure(code)
        BY <1>2 DEF OnBadLine
    <3>2. DiskType' /\ TaskType' /\ PlaceType' /\ HandOK'
        BY <1>2, <2>2, <3>1, FailureType DEF OnBadLine
    <3>3. WorkerType' /\ ProviderType' /\ BoundType'
        BY <1>2 DEF OnBadLine
    <3> QED
        BY <2>1, <3>2, <3>3
<1>3. CASE MarkingFails
    BY <1>0, <1>3 DEF MarkingFails, PlaceType, Going
<1>4. CASE WorkerDies
  <2>1. WorkerType' /\ PipeType' /\ ProviderType' /\ TaskType' /\ DiskType'
      BY <1>4 DEF WorkerDies, WorkerType, WPCs
  <2>2. BoundType' /\ PlaceType' /\ Going' = Going
      BY <1>4 DEF WorkerDies, PlaceType, Going
  <2> QED
      BY <1>4, <2>1, <2>2 DEF WorkerDies, taskVars
<1>5. CASE Crash
  <2>1. PipeType' /\ ctl' \in Seq(Controls)
      BY <1>0, <1>5 DEF Crash, PipeType
  <2>2. DiskType' /\ WorkerType' /\ ProviderType' /\ BoundType'
      BY <1>5 DEF Crash, diskVars
  <2>3. PlaceType' /\ Going' = "idle"
      BY <1>5 DEF Crash, PlaceType, Going
  <2> QED
      BY <1>5, <2>1, <2>2, <2>3 DEF Crash
<1> QED
    BY <1>1, <1>2, <1>3, <1>4, <1>5

(* The provider, the operator and an explicit resume.                        *)
LEMMA OutsideSteps ==
    ASSUME TypeInv,
           ProviderAnswers \/ OperatorControl \/ OperatorCancelsInactive \/ ResumeJob
    PROVE  TypeInv'
<1> USE Frames DEF TypeInv, DiskType, TaskType, BoundType, HandOK, InHand, PCs
<1>1. CASE ProviderAnswers
  <2>1. ProviderType'
    <3>1. PICK a \in Accounts :
              /\ inflight[a] # NoPassword
              /\ inflight' = [inflight EXCEPT ![a] = NoPassword]
              /\ provider' \in {provider, [provider EXCEPT ![a] = inflight[a]]}
              /\ UNCHANGED minted
        BY <1>1 DEF ProviderAnswers
    <3>2. inflight[a] \in Passwords /\ NoPassword \in Nat
        BY <3>1 DEF ProviderType, Passwords, NoPassword
    <3> QED
        BY <3>1, <3>2 DEF ProviderType
  <2> QED
      BY <1>1, <2>1, TaskFrame DEF ProviderAnswers, pipeVars
<1>2. CASE OperatorControl
  <2>1. ckpt' \in Checkpoints
      BY <1>2, CheckpointType DEF OperatorControl
  <2>2. ctl' \in Seq(Controls)
      BY <1>2, AppendProperties DEF OperatorControl
  <2> QED
      BY <1>2, <2>1, <2>2 DEF OperatorControl, PlaceType, Going
<1>3. CASE OperatorCancelsInactive
  <2>1. ckpt' \in Checkpoints
      BY <1>3, SweepType DEF OperatorCancelsInactive, CancelInactive
  <2>2. DiskType' /\ TaskType' /\ BoundType'
      BY <1>3, <2>1 DEF OperatorCancelsInactive, taskVars
  <2>3. PlaceType' /\ Going' = Going
      BY <1>3 DEF OperatorCancelsInactive, PlaceType, Going
  <2> QED
      BY <1>3, <2>2, <2>3 DEF OperatorCancelsInactive, taskVars
<1>4. CASE ResumeJob
  <2>1. ckpt' \in Checkpoints
      BY <1>4 DEF ResumeJob, Checkpoints, JobStatuses, Stages
  <2> QED
      BY <1>4, <2>1 DEF ResumeJob, PlaceType, Going, taskVars
<1> QED
    BY <1>1, <1>2, <1>3, <1>4

(* A batch that has just been created is typed.                              *)
LEMMA TypeInvInit == Init => TypeInv
<1> SUFFICES ASSUME Init PROVE TypeInv
    OBVIOUS
<1>1. /\ NumAccounts \in Nat \ {0} /\ AssignProxy \in BOOLEAN
      /\ MaxFaults \in Nat /\ MaxResumes \in Nat /\ MaxControls \in Nat
    BY NumAccountsAssumption, BoundsAssumption, AssignProxyAssumption
<1>2. 1 \in Passwords /\ NoPassword \in Nat /\ 1 \in Accounts
    BY <1>1 DEF Passwords, NoPassword, Accounts
<1>3. [current |-> 1, pending |-> NoPassword, pstate |-> "original"] \in VaultRecords
    BY <1>2 DEF VaultRecords, PasswordStates
<1>4. ckpt \in Checkpoints
  <2>1. PICK p \in BOOLEAN :
            ckpt = [status |-> "queued", st |-> [a \in Accounts |-> "queued"],
                    pause |-> p, assign |-> [a \in Accounts |-> AssignProxy]]
      BY DEF Init
  <2> QED
      BY <1>1, <2>1 DEF Checkpoints, JobStatuses, Stages
<1>5. DiskType
    BY <1>3, <1>4 DEF Init, DiskType
<1>6. ProviderType
    BY <1>2 DEF Init, ProviderType
<1>7. PlaceType /\ HandOK
    BY DEF Init, PlaceType, PCs, HandOK, Going, InHand
<1>8. TaskType
  <2>1. rs \in RunStates
      BY DEF Init, RunStates, Stages, PasswordStates
  <2>2. retries \in [nav : 0 .. MaxNavigationRetries, crash : 0 .. MaxCrashRestarts]
      BY DEF Init, MaxNavigationRetries, MaxCrashRestarts
  <2>3. idx \in 1 .. NumAccounts + 1
      BY <1>1 DEF Init
  <2>4. mc \in Checkpoints /\ ctl \in Seq(Controls) /\ waiting \in BOOLEAN
      BY <1>4, EmptySeq DEF Init
  <2> QED
      BY <2>1, <2>2, <2>3, <2>4 DEF TaskType
<1>9. WorkerType /\ PipeType /\ BoundType
    BY <1>1, <1>2, EmptySeq DEF Init, WorkerType, WPCs, PipeType, BoundType
<1> QED
    BY <1>5, <1>6, <1>7, <1>8, <1>9 DEF TypeInv

(* Every step keeps TypeInv.                                                 *)
LEMMA TypeInvStep == TypeInv /\ [Next]_vars => TypeInv'
<1> SUFFICES ASSUME TypeInv, [Next]_vars PROVE TypeInv'
    OBVIOUS
<1>1. CASE UNCHANGED vars
    BY <1>1, Frames DEF vars, TypeInv, PlaceType, HandOK, Going, taskVars
<1>2. CASE Coordinator
    BY <1>2, BatchSteps, AttemptSteps, EventSteps, ControlSteps DEF Coordinator
<1> QED
    BY <1>1, <1>2, WorkerSteps, FaultSteps, OutsideSteps DEF Next

(* Every variable keeps its type, whatever the batch and its environment do. *)
THEOREM TypeCorrect == Spec => []TypeOK
<1>1. Spec => []TypeInv
    BY TypeInvInit, TypeInvStep, PTL DEF Spec
<1> QED
    BY <1>1, TypeInvIsTypeOK, PTL

-----------------------------------------------------------------------------
(***************************************************************************)
(* No password is ever lost: the inductive invariant behind                 *)
(* PasswordNeverLost and AuthorizedIsDurable, and its proof.                *)
(*                                                                           *)
(* The argument follows one attempt around the system.  The coordinator      *)
(* records it (OnSubmitRequired) while the account is known and its worker   *)
(* has not been authorized; the worker may submit only after that            *)
(* (Authority); what it submits is therefore what is recorded (Records);     *)
(* and when "verified" reaches the coordinator the worker is gone and the    *)
(* provider holds exactly the recorded attempt (Reports).                    *)
(***************************************************************************)
Unknown(a) == vault[a].pstate = "unknown"

AtWork == {"serve", "send_totp", "send_submit"}

Reported(kind) == Event(kind) \in Range(evq)

Told(command) == command \in Range(cmdq)

(* What the provider and the vault agree on, account by account: a change    *)
(* under way meets an account that still has its old password, and every     *)
(* password was minted, the attempt after the current one.                   *)
Record(a) ==
    /\ inflight[a] # NoPassword => provider[a] = vault[a].current
    /\ Unknown(a) => vault[a].current # vault[a].pending
    /\ vault[a].current <= minted[a] /\ vault[a].pending <= minted[a]

Records == \A a \in Accounts : Record(a)

(* Until it is authorized, the attempt in hand is newer than any password    *)
(* the vault holds.                                                          *)
Untried == \/ Going \in {"proxy", "launch", "spawn"} \cup AtWork
           \/ Going = "finish" /\ rs.stage = "queued"

Fresh == Operation = "change_password" /\ Untried /\ ~Unknown(idx) =>
             vault[idx].current < minted[idx]

(* Only the account in hand may be unknown while the batch runs, and the run *)
(* state of the coordinator knows it.                                        *)
OneUnknown ==
    /\ Going \notin {"idle", "error"} => \A a \in Accounts : a # idx => ~Unknown(a)
    /\ Going \in {"begin", "next", "proxy", "launch", "spawn"} =>
           \A a \in Accounts : ~Unknown(a)
    /\ Going \in InHand => (rs.pstate = "unknown" <=> Unknown(idx))
    /\ Going = "finish" => (rs.stage = "critical" <=> Unknown(idx))

(* The session's pipes belong to the account in hand.                        *)
Session ==
    /\ linked => Going \in InSession /\ wacct = idx
    /\ ~linked => evq = <<>>

Authorizing ==
    Going = "send_submit" =>
        linked /\ Unknown(idx) /\ vault[idx].pending = minted[idx]

(* A worker that has not submitted faces an account nobody has changed.      *)
Untouched ==
    AliveWorker /\ (~wsub \/ wpc = "submit") =>
        provider[wacct] = vault[wacct].current /\ inflight[wacct] = NoPassword

(* Where the worker is, and whether it has been authorized.                  *)
Place ==
    /\ wpc \in {"logout", "relogin", "submit"} => wsub
    /\ wpc = "authorize" => ~wsub
    /\ wpc \in {"totp", "manual"} =>
          wback \in {"login", "change", "relogin"} /\ (wback = "relogin" => wsub)

(* What the worker's reports mean when the coordinator reads them.           *)
Reports ==
    Going \in AtWork =>
        /\ Reported("verified") =>
              /\ wpc = "out"
              /\ Operation = "change_password" =>
                    /\ Unknown(wacct) /\ provider[wacct] = vault[wacct].pending
                    /\ inflight[wacct] = NoPassword
        /\ FailedEvent("credential_state_unknown") \in Range(evq) => Unknown(wacct)

(* The login operation never comes near a submission.                        *)
LoginOnly ==
    Operation = "login" =>
        /\ \A a \in Accounts : ~Unknown(a)
        /\ wpc \notin {"change", "authorize", "submit", "logout", "relogin"}
        /\ wpc \in {"totp", "manual"} => wback = "login"
        /\ ~Reported("password_submit_required")

IInv ==
    /\ PasswordNeverLost /\ AuthorizedIsDurable
    /\ Records /\ Fresh /\ OneUnknown /\ Session /\ Authorizing
    /\ Untouched /\ Place /\ Reports /\ LoginOnly

-----------------------------------------------------------------------------
(* Sequences as the sets of their elements.                                  *)

(* Reading a queue: the head is one of its elements, the rest were in it.    *)
LEMMA HeadTailRange ==
    ASSUME NEW S, NEW s \in Seq(S), s # <<>>
    PROVE  Head(s) \in Range(s) /\ Range(Tail(s)) \subseteq Range(s)
<1>1. Head(s) = s[1] /\ Len(s) \in Nat \ {0} /\ Tail(s) \in Seq(S)
    BY EmptySeq
<1>2. \A i \in 1 .. Len(Tail(s)) : Tail(s)[i] = s[i+1] /\ i + 1 \in 1 .. Len(s)
    BY <1>1, HeadTailProperties
<1>3. Range(Tail(s)) = {Tail(s)[i] : i \in 1 .. Len(Tail(s))}
    BY <1>1, RangeEquality
<1>4. Range(s) = {s[i] : i \in 1 .. Len(s)}
    BY RangeEquality
<1> QED
    BY <1>1, <1>2, <1>3, <1>4

(* A message of one line.                                                    *)
LEMMA OneRange ==
    ASSUME NEW S, NEW x \in S
    PROVE  <<x>> \in Seq(S) /\ Range(<<x>>) = {x}
BY DEF Range

(* A message of two lines.                                                   *)
LEMMA TwoRange ==
    ASSUME NEW S, NEW x \in S, NEW y \in S
    PROVE  <<x, y>> \in Seq(S) /\ Range(<<x, y>>) = {x, y}
BY DEF Range

(* An empty queue has no elements.                                           *)
LEMMA EmptyRange == Range(<<>>) = {}
BY DEF Range

(* One more command in the queue.                                            *)
LEMMA AppendRange ==
    ASSUME NEW S, NEW s \in Seq(S), NEW x \in S
    PROVE  Range(Append(s, x)) = Range(s) \cup {x}
<1>1. Append(s, x) = s \o <<x>>
    BY AppendIsConcat, Zenon
<1>2. <<x>> \in Seq(S) /\ Range(<<x>>) = {x}
    BY OneRange
<1>3. Range(s \o <<x>>) = Range(s) \cup Range(<<x>>)
  <2>1. \A t \in Seq(S) : Range(s \o t) = Range(s) \cup Range(t)
      BY RangeConcatenation
  <2> QED
      BY <1>2, <2>1
<1> QED
    BY <1>1, <1>2, <1>3, Zenon

(* A message that is read leaves the pipe; one that is sent joins it.        *)
LEMMA Reading ==
    ASSUME TypeInv, IInv, pc = "serve", evq # <<>>
    PROVE  /\ linked /\ wacct = idx /\ idx \in Accounts /\ Going = "serve"
           /\ Head(evq) \in Events /\ Head(evq) \in Range(evq)
           /\ Range(Tail(evq)) \subseteq Range(evq)
<1>1. evq \in Seq(Events)
    BY DEF TypeInv, PipeType
<1>2. Head(evq) \in Events
    BY <1>1, HeadTailProperties
<1>3. Head(evq) \in Range(evq) /\ Range(Tail(evq)) \subseteq Range(evq)
    BY <1>1, HeadTailRange
<1>4. Going = "serve" /\ idx \in Accounts
    BY DEF Going, TypeInv, HandOK, InHand
<1>5. linked /\ wacct = idx
    BY DEF IInv, Session, TypeInv, PipeType
<1> QED
    BY <1>2, <1>3, <1>4, <1>5

(* What a write to stdout does to the pipe, and to a worker with no pipe.    *)
LEMMA Emitting ==
    ASSUME TypeInv, NEW events \in Seq(Events), NEW next, Emit(events, next)
    PROVE  /\ linked => wpc' = next /\ Range(evq') = Range(evq) \cup Range(events)
           /\ ~linked => wpc' = "out" /\ evq' = evq
<1>1. evq \in Seq(Events)
    BY DEF TypeInv, PipeType
<1>2. Range(evq \o events) = Range(evq) \cup Range(events)
    BY <1>1, RangeConcatenation
<1> QED
    BY <1>2 DEF Emit

(* What a step of the coordinator that only ends, retries or goes on with    *)
(* the account in hand leaves to be shown.                                   *)
SameRecords == \A a \in Accounts : /\ vault'[a].current = vault[a].current
                                   /\ vault'[a].pending = vault[a].pending
                                   /\ Unknown(a)' <=> Unknown(a)

(* A step that leaves passwords and worker alone keeps the invariant.        *)
LEMMA Calm ==
    ASSUME TypeInv, IInv, SameRecords,
           UNCHANGED <<providerVars, workerVars, linked>>,
           Range(evq') \subseteq Range(evq),
           Told("submit_password")' => Told("submit_password"),
           Going' \in AtWork => Going \in AtWork,
           Fresh', OneUnknown', Session', Authorizing'
    PROVE  IInv'
<1> USE DEF IInv, SameRecords, providerVars, workerVars, Told, TypeInv, WorkerType
<1>1. PasswordNeverLost' /\ Records'
    BY DEF PasswordNeverLost, Records, Record, Unknown
<1>2. AuthorizedIsDurable'
    BY DEF AuthorizedIsDurable, MaySubmit, AliveWorker, Unknown
<1>3. Untouched' /\ Place'
    BY DEF Untouched, Place, AliveWorker
<1>4. Reports' /\ LoginOnly'
    BY DEF Reports, LoginOnly, Reported
<1> QED
    BY <1>1, <1>2, <1>3, <1>4

(* The vault record of an account that fails, is cancelled or is retried     *)
(* keeps its passwords and whether they are known.                           *)
Ends(code) == Failure(code) \/ \E s \in JobStatuses : EndAccount(code, s)

(* Ending or retrying the account in hand keeps its passwords on record.     *)
LEMMA Ending ==
    ASSUME TypeInv, IInv, NEW code, Ends(code), pc \in {"spawn", "serve"},
           code = "credential_state_unknown" => Unknown(idx),
           UNCHANGED <<idx, minted>>, Session'
    PROVE  /\ SameRecords /\ Going' = "finish"
           /\ Fresh' /\ OneUnknown' /\ Authorizing'
<1>1. Going = pc /\ idx \in Accounts /\ Going' = "finish"
    BY DEF TypeInv, HandOK, Going, InHand, Ends, Failure, Retry, EndAccount, Persist
<1>2. rs.pstate = "unknown" <=> Unknown(idx)
    BY <1>1 DEF IInv, OneUnknown, InHand
<1>3. \A a \in Accounts : a # idx => ~Unknown(a)
    BY <1>1 DEF IInv, OneUnknown
<1>4. CASE Retry(code)
  <2>1. vault' = vault /\ ~Unknown(idx) /\ rs'.stage = "queued" /\ rs'.pstate = rs.pstate
      BY <1>2, <1>4 DEF Retry, MayRetry, Persist, TypeInv, TaskType, RunStates
  <2>2. SameRecords
      BY <2>1 DEF SameRecords, Unknown
  <2> QED
      BY <1>1, <1>2, <1>3, <2>1, <2>2
      DEF IInv, Fresh, Untried, AtWork, OneUnknown, Authorizing, InHand, Unknown
<1>5. CASE \E s \in JobStatuses : EndAccount(code, s)
  <2>1. /\ vault' = [vault EXCEPT ![idx] = FailedRecord(@, rs')]
        /\ rs' = AfterFailure(rs, code)
      BY <1>5 DEF EndAccount, Persist
  <2>2. /\ rs'.stage \in TerminalStages
        /\ rs'.stage = "critical" <=> rs'.pstate = "unknown"
        /\ rs'.pstate = "unknown" <=> Unknown(idx)
      BY <1>2, <2>1, AfterFailureType DEF TypeInv, TaskType
  <2>3. /\ vault'[idx] = [vault[idx] EXCEPT !.pstate = rs'.pstate]
        /\ \A a \in Accounts : a # idx => vault'[a] = vault[a]
      BY <1>1, <2>1 DEF FailedRecord, TypeInv, DiskType
  <2>4. SameRecords
      BY <1>1, <2>2, <2>3 DEF SameRecords, Unknown, TypeInv, DiskType, VaultRecords
  <2>5. Fresh' /\ Authorizing'
      BY <1>1, <2>2 DEF Fresh, Untried, AtWork, TerminalStages, Authorizing
  <2>6. OneUnknown'
      BY <1>1, <1>3, <2>2, <2>4 DEF OneUnknown, SameRecords, InHand
  <2> QED
      BY <1>1, <2>4, <2>5, <2>6
<1> QED
    BY <1>4, <1>5 DEF Ends, Failure, JobStatuses

(* A session that is dropped leaves no worker that could act on it.          *)
LEMMA Quitting ==
    ASSUME TypeInv, IInv, DropSession, UNCHANGED <<vault, providerVars>>
    PROVE  /\ PasswordNeverLost' /\ AuthorizedIsDurable' /\ Records' /\ Untouched'
           /\ Place' /\ Session' /\ Reports' /\ LoginOnly'
<1>1. /\ ~linked' /\ evq' = <<>> /\ Range(evq') = {}
      /\ UNCHANGED <<wback, wacct, wsub>> /\ wpc' \in {wpc, "out"}
      /\ wpc' # "out" => wpc' = wpc /\ cmdq' = cmdq
    BY EmptyRange DEF DropSession, IInv, Session, workerVars, pipeVars, TypeInv, PipeType
<1> USE <1>1 DEF IInv, providerVars, TypeInv, WorkerType
<1>2. PasswordNeverLost' /\ Records'
    BY DEF PasswordNeverLost, Records, Record, Unknown
<1>3. AuthorizedIsDurable' /\ Untouched' /\ Place'
    BY DEF AuthorizedIsDurable, MaySubmit, AliveWorker, Unknown, Untouched, Place
<1>4. Session' /\ Reports' /\ LoginOnly'
    BY DEF Session, Reports, LoginOnly, Reported, Unknown
<1> QED
    BY <1>2, <1>3, <1>4
-----------------------------------------------------------------------------
(* The coordinator's steps.                                                  *)

(* run_batch between accounts keeps the invariant.                           *)
LEMMA BatchSafe ==
    ASSUME TypeInv, IInv,
           \/ Begin \/ SaveCheckpoint \/ SkipAccount \/ CancelBetweenAccounts
           \/ TakeAccount \/ FinishBatch \/ Finish \/ MarkJobRunError
    PROVE  IInv'
<1> USE DEF IInv, PasswordNeverLost, AuthorizedIsDurable, Records, Record, Fresh, OneUnknown,
        Session, Authorizing, Untouched, Place, Reports, LoginOnly, Unknown, AtWork, Untried,
        MaySubmit, AliveWorker, Reported, InHand, InSession, Going
<1> USE DEF Persist, diskVars, workerVars, pipeVars, providerVars
<1>1. CASE Begin
    BY <1>1 DEF Begin
<1>2. CASE SaveCheckpoint
    BY <1>2 DEF SaveCheckpoint
<1>3. CASE SkipAccount
    BY <1>3 DEF SkipAccount
<1>4. CASE CancelBetweenAccounts
    BY <1>4 DEF CancelBetweenAccounts
<1>5. CASE TakeAccount
  <2>1. /\ idx \in Accounts /\ minted \in [Accounts -> Nat]
        /\ \A a \in Accounts : vault[a].current \in Nat /\ vault[a].pending \in Nat
    <3>1. idx \in Accounts
        BY <1>5, NumAccountsAssumption DEF TakeAccount, Accounts, TypeInv, TaskType
    <3>2. minted \in [Accounts -> Nat]
        BY DEF TypeInv, ProviderType, Passwords
    <3>3. \A a \in Accounts : vault[a].current \in Nat /\ vault[a].pending \in Nat
        BY DEF TypeInv, DiskType, VaultRecords, Passwords
    <3> QED
        BY <3>1, <3>2, <3>3
  <2>2. \A a \in Accounts : minted'[a] \in {minted[a], minted[a] + 1}
      BY <1>5, <2>1 DEF TakeAccount
  <2>3. Operation = "change_password" => minted'[idx] = minted[idx] + 1
      BY <1>5, <2>1 DEF TakeAccount
  <2>4. \A a \in Accounts : ~Unknown(a)
      BY <1>5 DEF TakeAccount
  <2>5. ~MaySubmit
      BY <2>4 DEF TypeInv, WorkerType
  <2>6. Records' /\ Fresh'
      BY <1>5, <2>1, <2>2, <2>3 DEF TakeAccount
  <2> QED
      BY <1>5, <2>4, <2>5, <2>6 DEF TakeAccount
<1>6. CASE FinishBatch
    BY <1>6 DEF FinishBatch
<1>7. CASE Finish
  <2>1. UNCHANGED <<vault, providerVars, rs>> /\ DropSession
      BY <1>7 DEF Finish, TypeInv, HandOK, TerminalStages
  <2>2. CASE rs.stage = "queued"
      BY <1>7, <2>1, <2>2, Quitting DEF Finish
  <2>3. CASE rs.stage \in {"critical", "cancelled"} \/ (rs.stage # "queued" /\ mc.pause)
    <3>1. Going' = "idle"
        BY <1>7, <2>3 DEF Finish, TypeInv, HandOK, TerminalStages
    <3> QED
        BY <1>7, <2>1, <3>1, Quitting DEF Finish
  <2>4. CASE rs.stage \in {"success", "failed"} /\ ~mc.pause
      BY <1>7, <2>1, <2>4, Quitting DEF Finish
  <2> QED
      BY <1>7, <2>2, <2>3, <2>4 DEF Finish, TypeInv, HandOK, TerminalStages
<1>8. CASE MarkJobRunError
    BY <1>8 DEF MarkJobRunError
<1> QED
    BY <1>1, <1>2, <1>3, <1>4, <1>5, <1>6, <1>7, <1>8

(* So does process_account up to the running worker.                         *)
LEMMA AttemptSafe ==
    ASSUME TypeInv, IInv,
           ProxyAssigned \/ ProxyFails \/ Launch \/ LaunchFails \/ SpawnWorker
    PROVE  IInv'
<1> USE DEF IInv, PasswordNeverLost, AuthorizedIsDurable, Records, Record, Fresh, OneUnknown,
        Session, Authorizing, Untouched, Place, Reports, LoginOnly, Unknown, AtWork, Untried,
        MaySubmit, AliveWorker, Reported, InHand, InSession, Going
<1> USE DEF Persist, diskVars, workerVars, pipeVars, providerVars, TypeInv, TaskType, RunStates
<1>1. CASE ProxyAssigned
    BY <1>1 DEF ProxyAssigned
<1>2. CASE ProxyFails
    BY <1>2 DEF ProxyFails
<1>3. CASE Launch
  <2>1. rs'.pstate = rs.pstate
      BY <1>3 DEF Launch, Transition
  <2> QED
      BY <1>3, <2>1 DEF Launch
<1>4. CASE LaunchFails
  <2>1. rs' = AfterFailure(rs, "launch_failed") /\ idx \in Accounts
      BY <1>4 DEF LaunchFails, HandOK
  <2>2. /\ rs'.stage \in TerminalStages
        /\ rs'.stage = "critical" <=> rs'.pstate = "unknown"
        /\ rs'.pstate = rs.pstate
      BY <2>1, AfterFailureType
  <2>3. /\ vault'[idx] = [vault[idx] EXCEPT !.pstate = rs'.pstate]
        /\ \A a \in Accounts : a # idx => vault'[a] = vault[a]
      BY <1>4, <2>1 DEF LaunchFails, FailedRecord, DiskType
  <2>4. \A a \in Accounts : ~Unknown(a)
      BY <1>4 DEF LaunchFails
  <2>5. /\ rs'.pstate # "unknown"
        /\ \A a \in Accounts : /\ vault'[a].current = vault[a].current
                              /\ vault'[a].pending = vault[a].pending
                              /\ vault'[a].pstate # "unknown"
      BY <1>4, <2>1, <2>2, <2>3, <2>4 DEF LaunchFails, DiskType, VaultRecords
  <2>6. /\ Going' = "finish" /\ ~linked /\ rs'.stage # "queued" /\ rs'.stage # "critical"
        /\ UNCHANGED <<idx, workerVars, pipeVars, providerVars>>
      BY <1>4, <2>2, <2>5 DEF LaunchFails, TerminalStages
  <2>7. PasswordNeverLost' /\ Records'
      BY <2>4, <2>5, <2>6
  <2>8. Fresh' /\ OneUnknown'
      BY <2>1, <2>4, <2>5, <2>6
  <2>9. AuthorizedIsDurable' /\ Session' /\ Authorizing' /\ Untouched'
      BY <2>4, <2>5, <2>6 DEF WorkerType
  <2>10. Place' /\ Reports' /\ LoginOnly'
      BY <2>5, <2>6
  <2> QED
      BY <2>7, <2>8, <2>9, <2>10
<1>5. CASE SpawnWorker
    BY <1>5, EmptyRange DEF SpawnWorker, HandOK
<1> QED
    BY <1>1, <1>2, <1>3, <1>4, <1>5

(* So do the worker's reports: the record is written and verified here.      *)
LEMMA EventSafe ==
    ASSUME TypeInv, IInv,
           \/ OnStage \/ OnTotpRequired \/ OnManualRequired \/ OnSubmitRequired
           \/ OnPasswordChanged \/ OnVerified
    PROVE  IInv'
<1>1. /\ Going = "serve" /\ idx \in Accounts /\ wacct = idx /\ linked
      /\ Head(evq) \in Range(evq) /\ evq' = Tail(evq) /\ Range(evq') \subseteq Range(evq)
    BY Reading DEF OnStage, OnTotpRequired, OnManualRequired, OnSubmitRequired,
       OnPasswordChanged, OnVerified, Receive
<1>0. \A k \in {"password_submit_required", "verified"} :
          Head(evq).kind = k => Reported(k)
  <2>1. Head(evq) \in Events
      BY Reading DEF OnStage, OnTotpRequired, OnManualRequired, OnSubmitRequired,
         OnPasswordChanged, OnVerified, Receive
  <2>2. ASSUME NEW k \in {"password_submit_required", "verified"}, Head(evq).kind = k
        PROVE  Head(evq) = Event(k)
      BY <2>1, <2>2 DEF Events, Event
  <2> QED
      BY <1>1, <2>2 DEF Reported
<1>2. UNCHANGED <<idx, workerVars, linked, cmdq, providerVars>>
    BY DEF OnStage, OnTotpRequired, OnManualRequired, OnSubmitRequired, OnPasswordChanged,
       OnVerified, ServeUnchanged
<1>3. rs.pstate = "unknown" <=> Unknown(idx)
    BY <1>1 DEF IInv, OneUnknown, InHand
<1>4. CASE OnStage \/ OnTotpRequired \/ OnManualRequired \/ OnPasswordChanged
  <2>1. vault' = vault /\ Going' \in {"serve", "send_totp"}
      BY <1>4 DEF OnStage, OnTotpRequired, OnManualRequired, OnPasswordChanged, Persist,
         Going
  <2>2. rs'.pstate = "unknown" <=> rs.pstate = "unknown"
      BY <1>4 DEF OnStage, OnTotpRequired, OnManualRequired, OnPasswordChanged,
         AcceptsChanged, Transition, TypeInv, TaskType, RunStates
  <2>3. SameRecords /\ Told("submit_password")' = Told("submit_password")
      BY <1>2, <2>1 DEF SameRecords, Unknown, Told
  <2>4. OneUnknown' /\ Fresh' /\ Authorizing'
      BY <1>1, <1>2, <1>3, <2>1, <2>2
      DEF IInv, OneUnknown, Fresh, Authorizing, Untried, AtWork, InHand, Unknown, providerVars
  <2>5. Session'
      BY <1>1, <1>2, <2>1 DEF IInv, Session, InSession, workerVars
  <2> QED
      BY <1>1, <1>2, <2>1, <2>3, <2>4, <2>5, Calm DEF AtWork
<1>5. CASE OnSubmitRequired
  <2>1. /\ ~Unknown(idx) /\ Reported("password_submit_required")
        /\ vault' = [vault EXCEPT ![idx] = AuthorizedRecord(@, minted[idx])]
        /\ Going' = "send_submit" /\ rs'.pstate = "unknown"
      BY <1>0, <1>1, <1>5
      DEF OnSubmitRequired, Receive, AcceptsSubmitRequired, Transition, Persist, Going,
          Unknown
  <2>2. Operation = "change_password"
      BY <2>1, OperationAssumption DEF IInv, LoginOnly
  <2>3. vault[idx].current < minted[idx] /\ vault[idx].current \in Nat /\ minted[idx] \in Nat
      BY <1>1, <2>1, <2>2
      DEF IInv, Fresh, Untried, AtWork, TypeInv, DiskType, VaultRecords, ProviderType, Passwords
  <2>4. /\ vault'[idx].current = vault[idx].current
        /\ vault'[idx].pending = minted[idx] /\ vault'[idx].pstate = "unknown"
        /\ \A a \in Accounts : a # idx => vault'[a] = vault[a]
      BY <1>1, <2>1 DEF AuthorizedRecord, TypeInv, DiskType, VaultRecords
  <2>5. /\ provider[idx] = vault[idx].current /\ inflight[idx] = NoPassword
        /\ minted[idx] # NoPassword
      BY <1>1, <2>1
      DEF IInv, PasswordNeverLost, Unknown, TypeInv, ProviderType, Passwords
  <2>6. PasswordNeverLost' /\ Records'
      BY <1>2, <2>3, <2>4, <2>5
      DEF IInv, PasswordNeverLost, Records, Record, Unknown, providerVars
  <2>7. AuthorizedIsDurable' /\ Untouched' /\ Place' /\ LoginOnly'
      BY <1>1, <1>2, <2>2, <2>4
      DEF IInv, AuthorizedIsDurable, MaySubmit, AliveWorker, Untouched, Place, LoginOnly,
          workerVars, providerVars
  <2>8. Reports'
    <3>1. ~Reported("verified")
        BY <1>1, <2>1, <2>2 DEF IInv, Reports, AtWork
    <3> QED
        BY <1>1, <1>2, <2>4, <3>1 DEF Reports, Reported, Unknown, workerVars
  <2>9. Fresh' /\ OneUnknown' /\ Session' /\ Authorizing'
      BY <1>1, <1>2, <2>1, <2>4
      DEF IInv, Fresh, OneUnknown, Session, Authorizing, InHand, InSession, Unknown,
          workerVars, providerVars
  <2> QED
      BY <2>6, <2>7, <2>8, <2>9 DEF IInv
<1>6. CASE OnVerified
  <2>1. /\ Reported("verified") /\ Going' = "finish" /\ rs'.stage = "success"
        /\ vault' = [vault EXCEPT ![idx] = IF Operation = "login" THEN LoginVerifiedRecord(@)
                                           ELSE VerifiedRecord(@)]
        /\ rs'.pstate = IF Operation = "login" THEN rs.pstate ELSE "changed"
      BY <1>0, <1>1, <1>6
      DEF OnVerified, Receive, Transition, Persist, Going, TypeInv, TaskType, RunStates
  <2>2. wpc = "out"
      BY <1>1, <2>1 DEF IInv, Reports, AtWork
  <2>3. /\ AuthorizedIsDurable' /\ Untouched' /\ Place'
        /\ Fresh' /\ Authorizing' /\ Session'
      BY <1>1, <1>2, <2>1, <2>2
      DEF IInv, AuthorizedIsDurable, MaySubmit, AliveWorker, Untouched, Place, Fresh, Untried,
          AtWork, Authorizing, Session, InSession, workerVars
  <2>4. Reports'
      BY <2>1 DEF Reports, AtWork
  <2>5. \A a \in Accounts : a # idx => vault'[a] = vault[a] /\ ~Unknown(a)
      BY <1>1, <2>1 DEF IInv, OneUnknown, TypeInv, DiskType
  <2>6. CASE Operation = "login"
    <3>1. ~Unknown(idx) /\ vault[idx].pending = NoPassword
        BY <1>1, <2>6 DEF IInv, LoginOnly, PasswordNeverLost, Unknown
    <3>2. /\ vault'[idx].current = vault[idx].current /\ vault'[idx].pending = NoPassword
          /\ vault'[idx].pstate = "original"
        BY <1>1, <2>1, <2>6 DEF LoginVerifiedRecord, TypeInv, DiskType, VaultRecords
    <3>3. PasswordNeverLost' /\ Records'
        BY <1>2, <2>5, <3>1, <3>2
        DEF IInv, PasswordNeverLost, Records, Record, Unknown, providerVars
    <3>4. OneUnknown' /\ LoginOnly'
        BY <1>1, <1>2, <1>3, <2>1, <2>2, <2>5, <3>1, <3>2
        DEF IInv, OneUnknown, LoginOnly, Reported, InHand, Unknown, workerVars
    <3> QED
        BY <2>3, <2>4, <3>3, <3>4 DEF IInv
  <2>7. CASE Operation = "change_password"
    <3>1. /\ Unknown(idx) /\ provider[idx] = vault[idx].pending
          /\ inflight[idx] = NoPassword
        BY <1>1, <2>1, <2>7 DEF IInv, Reports, AtWork
    <3>2. /\ vault'[idx].current = vault[idx].pending /\ vault'[idx].pending = NoPassword
          /\ vault'[idx].pstate = "changed"
        BY <1>1, <2>1, <2>7 DEF VerifiedRecord, TypeInv, DiskType
    <3>3. minted[idx] \in Nat /\ NoPassword <= minted[idx]
        BY <1>1 DEF TypeInv, ProviderType, Passwords, NoPassword
    <3>4. PasswordNeverLost' /\ Records'
        BY <1>2, <2>5, <3>1, <3>2, <3>3
        DEF IInv, PasswordNeverLost, Records, Record, Unknown, providerVars
    <3>5. OneUnknown' /\ LoginOnly'
        BY <1>1, <1>2, <2>1, <2>5, <2>7, <3>2 DEF OneUnknown, LoginOnly, InHand, Unknown
    <3> QED
        BY <2>3, <2>4, <3>4, <3>5 DEF IInv
  <2> QED
      BY <2>6, <2>7, OperationAssumption
<1> QED
    BY <1>4, <1>5, <1>6

(* Steps that end the account in hand, and the three sends.                  *)
LEMMA EndingSafe ==
    ASSUME TypeInv, IInv,
           \/ OnFailed \/ OnEndOfStream \/ OnBadLine \/ OnMarkFailed \/ OnCancel
    PROVE  IInv'
<1>1. /\ pc = "serve" /\ Going = "serve"
      /\ UNCHANGED <<idx, workerVars, linked, providerVars>>
    BY DEF OnFailed, OnEndOfStream, OnBadLine, OnMarkFailed, OnCancel, Receive, Take, Going,
       ServeUnchanged, ControlUnchanged
<1>2. rs.pstate = "unknown" <=> Unknown(idx)
    BY <1>1 DEF IInv, OneUnknown, InHand
<1>3. Range(evq') \subseteq Range(evq) /\ (evq = <<>> => evq' = <<>>)
    BY Reading DEF OnFailed, OnEndOfStream, OnBadLine, OnMarkFailed, OnCancel, Receive,
       ControlUnchanged
<1>4. Told("submit_password")' => Told("submit_password")
  <2>1. cmdq' = cmdq \/ cmdq' = Append(cmdq, "cancel")
      BY DEF OnFailed, OnEndOfStream, OnBadLine, OnMarkFailed, OnCancel, ServeUnchanged,
         TellCancel
  <2>2. cmdq \in Seq(Commands) /\ "cancel" \in Commands
      BY DEF TypeInv, PipeType, Commands
  <2>3. Range(cmdq') \subseteq Range(cmdq) \cup {"cancel"}
      BY <2>1, <2>2, AppendRange
  <2>4. "submit_password" \in Range(cmdq') => "submit_password" \in Range(cmdq)
      BY <2>3
  <2> QED
      BY <2>4 DEF Told
<1>5. \E code : Ends(code) /\ (code = "credential_state_unknown" => Unknown(idx))
  <2>1. CASE OnFailed
    <3>1. Failure(Head(evq).arg) /\ evq # <<>> /\ Head(evq).kind = "failed"
        BY <2>1 DEF OnFailed, Receive
    <3>2. Head(evq) \in Events /\ Head(evq) \in Range(evq) /\ wacct = idx
        BY <1>1, <3>1, Reading
    <3>3. Head(evq).arg = "credential_state_unknown" =>
              Head(evq) = FailedEvent("credential_state_unknown")
        BY <3>1, <3>2 DEF Events, FailedEvent
    <3> QED
        BY <1>1, <3>1, <3>2, <3>3 DEF Ends, IInv, Reports, AtWork
  <2>2. CASE OnEndOfStream
      BY <2>2 DEF OnEndOfStream, Ends
  <2>3. CASE OnBadLine
      BY <1>2, <2>3 DEF OnBadLine, Ends
  <2>4. CASE OnMarkFailed
      BY <2>4 DEF OnMarkFailed, Ends, JobStatuses
  <2>5. CASE OnCancel
      BY <1>2, <2>5 DEF OnCancel, Ends, JobStatuses
  <2> QED
      BY <2>1, <2>2, <2>3, <2>4, <2>5
<1>6. Going' = "finish"
    BY <1>5 DEF Ends, Failure, Retry, EndAccount, Persist, Going
<1>7. Session'
    BY <1>1, <1>3, <1>6 DEF IInv, Session, InSession, workerVars
<1>8. SameRecords /\ Fresh' /\ OneUnknown' /\ Authorizing'
    BY <1>1, <1>5, <1>7, Ending DEF providerVars
<1> QED
    BY <1>1, <1>3, <1>4, <1>6, <1>7, <1>8, Calm DEF AtWork

(* So do the commands the coordinator sends, and the errors it raises.       *)
LEMMA SendSafe ==
    ASSUME TypeInv, IInv,
           \/ OnRejectedEvent \/ SendTotp \/ SendSubmit \/ OnContinueToDeadWorker
           \/ OnPause \/ OnContinue \/ OnIgnoredControl
    PROVE  IInv'
<1>1. CASE Raise
  <2>1. Going' = "error"
      BY <1>1 DEF Raise, Going
  <2>2. Fresh' /\ OneUnknown' /\ Authorizing'
      BY <2>1 DEF Fresh, Untried, AtWork, OneUnknown, Authorizing, InHand
  <2> QED
      BY <1>1, <2>2, Quitting DEF Raise, diskVars, IInv
<1>2. CASE (SendTotp \/ SendSubmit) /\ ~Raise
  <2>1. /\ UNCHANGED <<vault, workerVars, linked, evq, providerVars, idx, rs>>
        /\ Going' = "serve"
        /\ cmdq' = Append(cmdq, IF pc = "send_totp" THEN "totp_code" ELSE "submit_password")
        /\ pc \in {"send_totp", "send_submit"} /\ Going = pc
      BY <1>2 DEF SendTotp, SendSubmit, Send, Going, diskVars, taskVars
  <2>2. Told("submit_password")' =>
            Told("submit_password") \/ Going = "send_submit"
      BY <2>1, AppendRange DEF Told, TypeInv, PipeType, Commands
  <2>3. AuthorizedIsDurable'
    <3>1. Going = "send_submit" => Unknown(wacct) /\ vault[wacct].pending = minted[wacct]
        BY DEF IInv, Authorizing, Session
    <3> QED
        BY <2>1, <2>2, <3>1
        DEF IInv, AuthorizedIsDurable, MaySubmit, AliveWorker, Told, Unknown, workerVars,
            providerVars
  <2>4. /\ PasswordNeverLost' /\ Records' /\ Untouched' /\ Place' /\ Session'
        /\ Reports' /\ LoginOnly'
      BY <2>1
      DEF IInv, PasswordNeverLost, Records, Record, Untouched, Place, Session, Reports,
          LoginOnly, Unknown, AliveWorker, Reported, InSession, AtWork, workerVars, providerVars
  <2>5. Fresh' /\ OneUnknown' /\ Authorizing'
      BY <2>1
      DEF IInv, Fresh, Untried, OneUnknown, Authorizing, InHand, AtWork, Unknown, providerVars
  <2> QED
      BY <2>3, <2>4, <2>5 DEF IInv
<1>3. CASE OnPause \/ OnContinue \/ OnIgnoredControl
  <2>1. /\ UNCHANGED <<vault, workerVars, linked, evq, providerVars, idx>>
        /\ Going = "serve" /\ Going' = "serve"
        /\ rs'.pstate = rs.pstate
        /\ cmdq' = cmdq \/ cmdq' = Append(cmdq, "resume")
      BY <1>3
      DEF OnPause, OnContinue, OnIgnoredControl, Take, ControlUnchanged, Persist, Going,
          Transition, TypeInv, TaskType, RunStates
  <2>2. Told("submit_password")' => Told("submit_password")
    <3>1. cmdq \in Seq(Commands) /\ "resume" \in Commands
        BY DEF TypeInv, PipeType, Commands
    <3>2. Range(cmdq') \subseteq Range(cmdq) \cup {"resume"}
        BY <2>1, <3>1, AppendRange
    <3>3. "submit_password" \in Range(cmdq') => "submit_password" \in Range(cmdq)
        BY <3>2
    <3> QED
        BY <3>3 DEF Told
  <2>3. SameRecords
      BY <2>1 DEF SameRecords, Unknown
  <2>4. Fresh' /\ OneUnknown' /\ Authorizing' /\ Session'
      BY <2>1
      DEF IInv, Fresh, Untried, OneUnknown, Authorizing, Session, InHand, InSession, AtWork,
          Unknown, workerVars, providerVars
  <2> QED
      BY <2>1, <2>2, <2>3, <2>4, Calm DEF AtWork
<1> QED
    BY <1>1, <1>2, <1>3 DEF OnRejectedEvent, OnContinueToDeadWorker

-----------------------------------------------------------------------------
(* The faults and the outside.                                               *)

(* So do crashes, failed saves, the provider's answer and the operator.      *)
LEMMA FaultSafe ==
    ASSUME TypeInv, IInv,
           \/ SaveFails \/ VaultSaveFails \/ MarkingFails \/ WorkerDies \/ Crash
           \/ ProviderAnswers \/ OperatorControl \/ OperatorCancelsInactive \/ ResumeJob
    PROVE  IInv'
<1>1. CASE SaveFails \/ VaultSaveFails
  <2>1. Going' = "error" /\ DropSession /\ UNCHANGED <<vault, providerVars>>
      BY <1>1 DEF SaveFails, VaultSaveFails, Going, diskVars
  <2>2. Fresh' /\ OneUnknown' /\ Authorizing'
      BY <2>1 DEF Fresh, Untried, AtWork, OneUnknown, Authorizing, InHand
  <2> QED
      BY <2>1, <2>2, Quitting DEF IInv
<1>2. CASE ProviderAnswers
  <2>1. UNCHANGED <<diskVars, pc, after, taskVars, workerVars, pipeVars, minted>>
      BY <1>2 DEF ProviderAnswers
  <2>2. PICK a \in Accounts :
            /\ inflight[a] # NoPassword
            /\ inflight' = [inflight EXCEPT ![a] = NoPassword]
            /\ provider' \in {provider, [provider EXCEPT ![a] = inflight[a]]}
      BY <1>2 DEF ProviderAnswers
  <2>3. /\ inflight'[a] = NoPassword /\ provider'[a] \in {provider[a], inflight[a]}
        /\ \A b \in Accounts : b # a => inflight'[b] = inflight[b] /\ provider'[b] = provider[b]
      BY <2>2 DEF TypeInv, ProviderType
  <2>4. /\ Unknown(a) /\ inflight[a] = vault[a].pending /\ provider[a] = vault[a].current
        /\ vault[a].current # vault[a].pending
      BY <2>2 DEF IInv, PasswordNeverLost, Records, Record, Unknown
  <2>5. PasswordNeverLost' /\ Records'
      BY <2>1, <2>3, <2>4
      DEF IInv, PasswordNeverLost, Records, Record, Unknown, diskVars
  <2>6. Untouched' /\ Reports'
      BY <2>1, <2>2, <2>3, <2>4
      DEF IInv, Untouched, Reports, AliveWorker, Unknown, Reported, Going, AtWork, TypeInv,
          WorkerType, diskVars, workerVars, pipeVars
  <2>7. AuthorizedIsDurable' /\ Place' /\ Session' /\ LoginOnly'
      BY <2>1
      DEF IInv, AuthorizedIsDurable, MaySubmit, AliveWorker, Place, Session, LoginOnly, Going,
          Unknown, Reported, diskVars, workerVars, pipeVars, taskVars
  <2>8. Fresh' /\ OneUnknown' /\ Authorizing'
      BY <2>1
      DEF IInv, Fresh, Untried, OneUnknown, Authorizing, Going, Unknown, diskVars, taskVars,
          pipeVars
  <2> QED
      BY <2>5, <2>6, <2>7, <2>8 DEF IInv
<1> USE DEF IInv, PasswordNeverLost, AuthorizedIsDurable, Records, Record, Fresh, OneUnknown,
        Session, Authorizing, Untouched, Place, Reports, LoginOnly, Unknown, AtWork, Untried,
        MaySubmit, AliveWorker, Reported, InHand, InSession, Going
<1> USE DEF diskVars, taskVars, workerVars, pipeVars, providerVars
<1>3. CASE MarkingFails
    BY <1>3 DEF MarkingFails
<1>4. CASE WorkerDies
    BY <1>4 DEF WorkerDies
<1>5. CASE Crash
    BY <1>5, EmptyRange DEF Crash
<1>6. CASE OperatorControl
    BY <1>6 DEF OperatorControl
<1>7. CASE OperatorCancelsInactive
    BY <1>7 DEF OperatorCancelsInactive
<1>8. CASE ResumeJob
    BY <1>8 DEF ResumeJob, Resumable
<1> QED
    BY <1>1, <1>2, <1>3, <1>4, <1>5, <1>6, <1>7, <1>8

-----------------------------------------------------------------------------
(* The worker's steps.                                                       *)

(* A worker leaves the vault and the coordinator alone.                      *)
LEMMA WorkerFrame ==
    ASSUME TypeInv, IInv, Worker
    PROVE  /\ UNCHANGED <<vault, pc, after, taskVars, linked, wacct, minted, provider>>
           /\ Going' = Going /\ wacct \in Accounts /\ AliveWorker
           /\ Fresh' /\ OneUnknown' /\ Authorizing'
           /\ evq' = evq \/ linked => Session'
<1>1. /\ UNCHANGED <<vault, pc, after, taskVars, linked, wacct, minted, provider>>
      /\ Going' = Going /\ wacct \in Accounts
    BY DEF Worker, WorkerUnchanged, WorkerStart, WorkerSignedIn, WorkerAsksTotp,
       WorkerAsksManual, WorkerAsksSubmit, WorkerSubmits, WorkerSeesChange, WorkerLogsOut,
       WorkerVerifies, WorkerFails, WorkerReceives, diskVars, providerVars, Going, TypeInv,
       WorkerType
<1>2. AliveWorker
    BY DEF Worker, WorkerStart, WorkerSignedIn, WorkerAsksTotp, WorkerAsksManual,
       WorkerAsksSubmit, WorkerSubmits, WorkerSeesChange, WorkerLogsOut, WorkerVerifies,
       WorkerFails, WorkerReceives, Acting, AliveWorker
<1>3. Fresh' /\ OneUnknown' /\ Authorizing'
    BY <1>1 DEF IInv, Fresh, Untried, OneUnknown, Authorizing, Unknown, taskVars
<1>4. evq' = evq \/ linked => Session'
    BY <1>1 DEF IInv, Session, taskVars
<1> QED
    BY <1>1, <1>2, <1>3, <1>4

(* A worker that reports anything but a verification, and goes on.           *)
LEMMA Saying ==
    ASSUME TypeInv, IInv, Worker, NEW es \in Seq(Events), NEW next, Emit(es, next),
           UNCHANGED <<inflight, cmdq, wsub>>,
           Event("verified") \notin Range(es),
           FailedEvent("credential_state_unknown") \in Range(es) => wsub,
           Operation = "login" => /\ Event("password_submit_required") \notin Range(es)
                                  /\ \/ next \in {"login", "out"}
                                     \/ next \in {"totp", "manual"} /\ wback' = "login",
           next # "submit", Place'
    PROVE  IInv'
<1> USE WorkerFrame
<1>1. \/ linked /\ wpc' = next /\ Range(evq') = Range(evq) \cup Range(es)
      \/ ~linked /\ wpc' = "out" /\ evq' = evq
    BY Emitting
<1>2. PasswordNeverLost' /\ Records'
    BY DEF IInv, PasswordNeverLost, Records, Record, Unknown
<1>3. AuthorizedIsDurable' /\ Untouched'
    BY <1>1 DEF IInv, AuthorizedIsDurable, MaySubmit, AliveWorker, Untouched
<1>4. Reports'
  <2>1. Going \in AtWork => ~Reported("verified")
      BY DEF IInv, Reports, AliveWorker
  <2>2. wsub => Unknown(wacct)
      BY DEF IInv, AuthorizedIsDurable, MaySubmit, Unknown
  <2> QED
      BY <1>1, <2>1, <2>2 DEF IInv, Reports, Reported, Unknown
<1>5. LoginOnly'
    BY <1>1 DEF IInv, LoginOnly, Reported, Unknown
<1> QED
    BY <1>1, <1>2, <1>3, <1>4, <1>5 DEF IInv

(* The three messages the argument turns on are told apart from the rest.    *)
LEMMA Messages ==
    /\ \A st \in Stages : StageEvent(st) \in Events
    /\ \A k \in {"totp_required", "manual_required", "password_submit_required",
                 "password_changed", "verified"} : Event(k) \in Events
    /\ \A c \in Codes : FailedEvent(c) \in Events
    /\ \A st \in Stages : StageEvent(st) \notin
           {Event("verified"), Event("password_submit_required"),
            FailedEvent("credential_state_unknown")}
    /\ \A k \in {"totp_required", "manual_required", "password_changed"} :
           Event(k) \notin {Event("verified"), Event("password_submit_required"),
                            FailedEvent("credential_state_unknown")}
    /\ Event("password_submit_required") \notin
           {Event("verified"), FailedEvent("credential_state_unknown")}
    /\ \A c \in Codes : /\ FailedEvent(c) \notin {Event("verified"),
                                                  Event("password_submit_required")}
                        /\ FailedEvent(c) = FailedEvent("credential_state_unknown") =>
                              c = "credential_state_unknown"
    /\ {"logging_in", "changing_password", "submitting_totp", "waiting_manual",
        "verifying_new_password"} \subseteq Stages
BY DEF Events, StageEvent, FailedEvent, Event, Stages

(* A worker that has seen the password accepted.                             *)
LEMMA VerifiedSafe ==
    ASSUME TypeInv, IInv, Worker, Emit(<<Event("verified")>>, "out"),
           UNCHANGED <<inflight, cmdq>>,
           Operation = "change_password" =>
               wsub /\ provider[wacct] = minted[wacct]
    PROVE  IInv'
<1> USE WorkerFrame
<1>1. Event("verified") \in Events
    BY Messages
<1>2. <<Event("verified")>> \in Seq(Events) /\ Range(<<Event("verified")>>) = {Event("verified")}
    BY <1>1, OneRange
<1>3. /\ wpc' = "out"
      /\ \/ linked /\ Range(evq') = Range(evq) \cup {Event("verified")}
         \/ ~linked /\ evq' = evq
    BY <1>2, Emitting
<1>4. PasswordNeverLost' /\ Records' /\ AuthorizedIsDurable' /\ Untouched' /\ Place'
    BY <1>3
    DEF IInv, PasswordNeverLost, Records, Record, Unknown, AuthorizedIsDurable, MaySubmit,
        AliveWorker, Untouched, Place
<1>5. LoginOnly'
  <2>1. Event("password_submit_required") # Event("verified")
      BY DEF Event
  <2> QED
      BY <1>3, <2>1 DEF IInv, LoginOnly, Reported, Unknown
<1>6. Operation = "change_password" =>
          /\ Unknown(wacct) /\ provider[wacct] = vault[wacct].pending
          /\ inflight[wacct] = NoPassword
  <2>1. Operation = "change_password" =>
            Unknown(wacct) /\ provider[wacct] = vault[wacct].pending
      BY DEF IInv, AuthorizedIsDurable, MaySubmit, Unknown
  <2>2. Record(wacct)
      BY DEF IInv, Records
  <2> QED
      BY <2>1, <2>2 DEF Record
<1>7. Reports'
  <2>1. FailedEvent("credential_state_unknown") # Event("verified")
      BY DEF FailedEvent, Event
  <2> QED
      BY <1>3, <1>6, <2>1 DEF IInv, Reports, Reported, Unknown
<1> QED
    BY <1>3, <1>4, <1>5, <1>7 DEF IInv

(* The new password leaves for the provider: it is the one on record.        *)
LEMMA SubmitSafe ==
    ASSUME TypeInv, IInv, WorkerSubmits
    PROVE  IInv'
<1>1. Worker
    BY DEF Worker
<1> USE WorkerFrame, <1>1
<1>2. /\ wpc = "submit" /\ wpc' = "change" /\ wsub
      /\ inflight' = [inflight EXCEPT ![wacct] = minted[wacct]]
      /\ UNCHANGED <<wback, wsub, evq, cmdq>>
    BY DEF WorkerSubmits, Acting, IInv, Place
<1>3. /\ Unknown(wacct) /\ vault[wacct].pending = minted[wacct]
      /\ provider[wacct] = vault[wacct].current /\ inflight[wacct] = NoPassword
      /\ Operation # "login"
    BY <1>2 DEF IInv, AuthorizedIsDurable, MaySubmit, Untouched, Unknown, LoginOnly
<1>4. \A a \in Accounts : inflight'[a] = IF a = wacct THEN minted[wacct] ELSE inflight[a]
    BY <1>2 DEF TypeInv, ProviderType
<1>5. PasswordNeverLost' /\ Records'
    BY <1>3, <1>4 DEF IInv, PasswordNeverLost, Records, Record, Unknown
<1>6. AuthorizedIsDurable' /\ Untouched' /\ Place'
    BY <1>2, <1>3 DEF IInv, AuthorizedIsDurable, MaySubmit, Untouched, Place, Unknown,
        AliveWorker
<1>7. Reports'
    BY <1>2, <1>3 DEF IInv, Reports, Reported, Unknown
<1>8. LoginOnly' /\ Session'
    BY <1>2, <1>3 DEF LoginOnly
<1> QED
    BY <1>5, <1>6, <1>7, <1>8 DEF IInv

(* A command reaches the worker, which stops, goes on, or may submit now.    *)
LEMMA ReceiveSafe ==
    ASSUME TypeInv, IInv, WorkerReceives
    PROVE  IInv'
<1>1. Worker
    BY DEF Worker
<1> USE WorkerFrame, <1>1
<1>2. /\ UNCHANGED <<wback, inflight>> /\ Head(cmdq) \in Range(cmdq)
      /\ Range(cmdq') \subseteq Range(cmdq)
    BY HeadTailRange DEF WorkerReceives, providerVars, TypeInv, PipeType
<1>3. PasswordNeverLost' /\ Records'
    BY <1>2 DEF IInv, PasswordNeverLost, Records, Record, Unknown
<1>4. CASE Head(cmdq) = "cancel" /\ wpc \in {"totp", "manual", "authorize"}
  <2> DEFINE code == IF wsub THEN "credential_state_unknown" ELSE "cancelled"
             es == <<FailedEvent(code)>>
  <2>1. Emit(es, "out") /\ UNCHANGED wsub
      BY <1>4 DEF WorkerReceives
  <2>2. code \in Codes /\ (code = "credential_state_unknown" => wsub)
      BY DEF Codes
  <2> HIDE DEF code
  <2>3. es \in Seq(Events) /\ Range(es) = {FailedEvent(code)}
      BY <2>2, Messages, OneRange
  <2>4. /\ Event("verified") \notin Range(es)
        /\ Event("password_submit_required") \notin Range(es)
        /\ FailedEvent("credential_state_unknown") \in Range(es) => wsub
      BY <2>2, <2>3, Messages
  <2> HIDE DEF es
  <2>5. /\ wpc' = "out"
        /\ \/ linked /\ Range(evq') = Range(evq) \cup Range(es)
           \/ ~linked /\ evq' = evq
      BY <2>1, <2>3, Emitting
  <2>6. AuthorizedIsDurable' /\ Untouched' /\ Place'
      BY <2>5 DEF AuthorizedIsDurable, MaySubmit, AliveWorker, Untouched, Place
  <2>7. Reports'
    <3>1. Going \in AtWork => ~Reported("verified")
        BY DEF IInv, Reports, AliveWorker
    <3>2. wsub => Unknown(wacct)
        BY DEF IInv, AuthorizedIsDurable, MaySubmit, Unknown
    <3> QED
        BY <1>2, <2>4, <2>5, <3>1, <3>2 DEF IInv, Reports, Reported, Unknown
  <2>8. LoginOnly'
      BY <1>2, <2>4, <2>5 DEF IInv, LoginOnly, Reported, Unknown
  <2> QED
      BY <1>3, <2>5, <2>6, <2>7, <2>8 DEF IInv
<1>5. CASE ~(Head(cmdq) = "cancel" /\ wpc \in {"totp", "manual", "authorize"})
  <2>1. /\ evq' = evq
        /\ \/ UNCHANGED <<wpc, wsub>>
           \/ wpc \in {"totp", "manual"} /\ wpc' = wback /\ UNCHANGED wsub
           \/ /\ Head(cmdq) = "submit_password" /\ wpc = "authorize"
              /\ wpc' = "submit" /\ wsub' = TRUE
    <3>1. CASE Head(cmdq) = "cancel"
      <4>1. UNCHANGED <<wpc, evq>> /\ UNCHANGED wsub
          BY <1>5, <3>1 DEF WorkerReceives
      <4> QED
          BY <4>1
    <3>2. CASE Head(cmdq) # "cancel" /\ Expected(Head(cmdq))
      <4>1. /\ wpc' = IF Head(cmdq) = "submit_password" THEN "submit" ELSE wback
            /\ wsub' = (wsub \/ Head(cmdq) = "submit_password")
            /\ evq' = evq
          BY <3>2 DEF WorkerReceives
      <4>2. wsub \in BOOLEAN
          BY DEF TypeInv, WorkerType
      <4>3. CASE Head(cmdq) = "submit_password"
          BY <3>2, <4>1, <4>3 DEF Expected
      <4>4. CASE Head(cmdq) # "submit_password"
        <5>1. (wsub' <=> wsub) /\ wsub' \in BOOLEAN
            BY <4>1, <4>4
        <5>2. wsub' = wsub
            BY <4>2, <5>1
        <5> QED
            BY <3>2, <4>1, <4>4, <5>2 DEF Expected
      <4> QED
          BY <4>3, <4>4
    <3>3. CASE Head(cmdq) # "cancel" /\ ~Expected(Head(cmdq))
        BY <3>3 DEF WorkerReceives
    <3> QED
        BY <3>1, <3>2, <3>3
  <2>2. Head(cmdq) = "submit_password" =>
            Unknown(wacct) /\ vault[wacct].pending = minted[wacct]
      BY <1>2 DEF IInv, AuthorizedIsDurable, MaySubmit, Unknown
  <2>3. Place'
      BY <1>2, <2>1 DEF IInv, Place
  <2>4. AuthorizedIsDurable'
      BY <1>2, <2>1, <2>2 DEF IInv, AuthorizedIsDurable, MaySubmit, Unknown
  <2>5. Untouched'
      BY <1>2, <2>1 DEF IInv, Untouched, Place, AliveWorker
  <2>6. Reports'
      BY <2>1, <1>2 DEF IInv, Reports, Reported, Unknown, AliveWorker
  <2>7. LoginOnly'
      BY <2>1, <2>2, <1>2 DEF IInv, LoginOnly, Reported, Unknown
  <2> QED
      BY <1>3, <2>1, <2>3, <2>4, <2>5, <2>6, <2>7 DEF IInv
<1> QED
    BY <1>4, <1>5

(* Whatever the worker does keeps the invariant.                             *)
LEMMA WorkerSafe ==
    ASSUME TypeInv, IInv, Worker
    PROVE  IInv'
<1>1. Place
    BY DEF IInv
<1>2. ASSUME NEW st \in {"logging_in", "changing_password", "verifying_new_password"}
      PROVE  /\ <<StageEvent(st)>> \in Seq(Events)
             /\ Range(<<StageEvent(st)>>) = {StageEvent(st)}
    BY Messages, OneRange
<1>3. CASE WorkerStart
  <2> DEFINE es == <<StageEvent("logging_in")>>
  <2>1. es \in Seq(Events) /\ Range(es) = {StageEvent("logging_in")}
      BY <1>2
  <2>2. Place'
      BY <1>1, <1>3 DEF WorkerStart, Acting, Emit, Place
  <2>3. Emit(es, "login") /\ UNCHANGED <<inflight, cmdq, wsub>>
      BY <1>3 DEF WorkerStart, providerVars
  <2>4. /\ Event("verified") \notin Range(es)
        /\ Event("password_submit_required") \notin Range(es)
        /\ FailedEvent("credential_state_unknown") \notin Range(es)
      BY <2>1, Messages
  <2> HIDE DEF es
  <2> QED
      BY <2>1, <2>2, <2>3, <2>4, Saying
<1>4. CASE WorkerSignedIn
  <2>1. CASE Operation = "login"
      BY <1>4, <2>1, VerifiedSafe DEF WorkerSignedIn, providerVars
  <2>2. CASE Operation # "login"
    <3>1. Place'
        BY <1>1, <1>4, <2>2 DEF WorkerSignedIn, Acting, Emit, Place
    <3> QED
        BY <1>2, <1>4, <2>2, <3>1, Messages, Saying DEF WorkerSignedIn, providerVars
  <2> QED
      BY <2>1, <2>2
<1>5. CASE WorkerAsksTotp
  <2> DEFINE es == <<StageEvent("submitting_totp"), Event("totp_required")>>
  <2>1. es \in Seq(Events) /\ Range(es) = {StageEvent("submitting_totp"), Event("totp_required")}
      BY Messages, TwoRange
  <2>2. Place'
      BY <1>1, <1>5 DEF WorkerAsksTotp, Emit, Place
  <2>3. Operation = "login" => wback' = "login"
      BY <1>5 DEF WorkerAsksTotp, IInv, LoginOnly
  <2>4. Emit(es, "totp") /\ UNCHANGED <<inflight, cmdq, wsub>>
      BY <1>5 DEF WorkerAsksTotp, providerVars
  <2> HIDE DEF es
  <2> QED
      BY <2>1, <2>2, <2>3, <2>4, Messages, Saying
<1>6. CASE WorkerAsksManual
  <2> DEFINE es == <<StageEvent("waiting_manual"), Event("manual_required")>>
  <2>1. es \in Seq(Events) /\ Range(es) = {StageEvent("waiting_manual"), Event("manual_required")}
      BY Messages, TwoRange
  <2>2. Place'
      BY <1>1, <1>6 DEF WorkerAsksManual, Emit, Place
  <2>3. Operation = "login" => wback' = "login"
      BY <1>6 DEF WorkerAsksManual, IInv, LoginOnly
  <2>4. Emit(es, "manual") /\ UNCHANGED <<inflight, cmdq, wsub>>
      BY <1>6 DEF WorkerAsksManual, providerVars
  <2> HIDE DEF es
  <2> QED
      BY <2>1, <2>2, <2>3, <2>4, Messages, Saying
<1>7. CASE WorkerAsksSubmit
  <2> DEFINE es == <<Event("password_submit_required")>>
  <2>1. es \in Seq(Events) /\ Range(es) = {Event("password_submit_required")}
      BY Messages, OneRange
  <2>2. Place' /\ Operation # "login"
      BY <1>1, <1>7 DEF WorkerAsksSubmit, Acting, Emit, Place, IInv, LoginOnly
  <2>3. Emit(es, "authorize") /\ UNCHANGED <<inflight, cmdq, wsub>>
      BY <1>7 DEF WorkerAsksSubmit, providerVars
  <2> HIDE DEF es
  <2> QED
      BY <2>1, <2>2, <2>3, Messages, Saying
<1>8. CASE WorkerSeesChange
  <2> DEFINE es == <<Event("password_changed")>>
  <2>1. es \in Seq(Events) /\ Range(es) = {Event("password_changed")}
      BY Messages, OneRange
  <2>2. Place' /\ Operation # "login"
      BY <1>1, <1>8 DEF WorkerSeesChange, Acting, Emit, Place, IInv, LoginOnly
  <2>3. Emit(es, "logout") /\ UNCHANGED <<inflight, cmdq, wsub>>
      BY <1>8 DEF WorkerSeesChange, providerVars
  <2> HIDE DEF es
  <2> QED
      BY <2>1, <2>2, <2>3, Messages, Saying
<1>9. CASE WorkerLogsOut
  <2>1. Place' /\ Operation # "login"
      BY <1>1, <1>9 DEF WorkerLogsOut, Acting, Emit, Place, IInv, LoginOnly
  <2> QED
      BY <1>2, <1>9, <2>1, Messages, Saying DEF WorkerLogsOut, providerVars
<1>10. CASE WorkerVerifies
  <2>1. wsub /\ provider[wacct] = minted[wacct]
      BY <1>1, <1>10 DEF WorkerVerifies, Acting, Place
  <2> QED
      BY <1>10, <2>1, VerifiedSafe DEF WorkerVerifies, providerVars
<1>11. CASE WorkerFails
  <2>1. PICK code \in WorkerCode : Emit(<<FailedEvent(code)>>, "out")
      BY <1>11 DEF WorkerFails
  <2>2. code \in Codes /\ (code = "credential_state_unknown" => wsub)
      BY <2>1 DEF WorkerCode, Codes
  <2> DEFINE es == <<FailedEvent(code)>>
  <2>3. es \in Seq(Events) /\ Range(es) = {FailedEvent(code)}
      BY <2>2, Messages, OneRange
  <2>4. Place'
      BY <2>1 DEF Emit, Place
  <2>5. Emit(es, "out") /\ UNCHANGED <<inflight, cmdq, wsub>>
      BY <1>11, <2>1 DEF WorkerFails, providerVars
  <2>6. /\ Event("verified") \notin Range(es)
        /\ Event("password_submit_required") \notin Range(es)
        /\ FailedEvent("credential_state_unknown") \in Range(es) => wsub
      BY <2>2, <2>3, Messages
  <2> HIDE DEF es
  <2> QED
      BY <2>3, <2>4, <2>5, <2>6, Saying
<1>12. CASE WorkerSubmits
    BY <1>12, SubmitSafe
<1>13. CASE WorkerReceives
    BY <1>13, ReceiveSafe
<1> QED
    BY <1>3, <1>4, <1>5, <1>6, <1>7, <1>8, <1>9, <1>10, <1>11, <1>12, <1>13 DEF Worker

-----------------------------------------------------------------------------
(* The invariant and what it is for.                                         *)

(* A batch starts with every password known and no worker.                   *)
LEMMA SafeInit == Init => IInv
<1> SUFFICES ASSUME Init PROVE IInv
    OBVIOUS
<1>1. PasswordNeverLost /\ AuthorizedIsDurable /\ Records
    BY DEF Init, PasswordNeverLost, AuthorizedIsDurable, MaySubmit, AliveWorker, Records,
           Record, Unknown, NoPassword
<1>2. Fresh /\ OneUnknown /\ Session /\ Authorizing
    BY DEF Init, Fresh, Untried, OneUnknown, Session, Authorizing, Going, AtWork, InHand,
           Unknown
<1>3. Untouched /\ Place /\ Reports
    BY DEF Init, Untouched, Place, Reports, AliveWorker, AtWork, Going
<1>4. LoginOnly
    BY EmptyRange DEF Init, LoginOnly, Unknown, Reported
<1> QED
    BY <1>1, <1>2, <1>3, <1>4 DEF IInv

(* Every step keeps the invariant.                                           *)
LEMMA SafeStep == TypeInv /\ IInv /\ [Next]_vars => IInv'
<1> SUFFICES ASSUME TypeInv, IInv, [Next]_vars PROVE IInv'
    OBVIOUS
<1>1. CASE UNCHANGED vars
    BY <1>1
    DEF vars, diskVars, taskVars, workerVars, pipeVars, providerVars, IInv,
        PasswordNeverLost, AuthorizedIsDurable, MaySubmit, AliveWorker, Records, Record,
        Unknown, Fresh, Untried, OneUnknown, Session, Authorizing, Untouched, Place,
        Reports, Reported, LoginOnly, Going
<1>2. CASE Coordinator
    BY <1>2, BatchSafe, AttemptSafe, EventSafe, EndingSafe, SendSafe DEF Coordinator
<1>3. CASE Worker
    BY <1>3, WorkerSafe
<1>4. CASE Next /\ ~Coordinator /\ ~Worker
    BY <1>4, EndingSafe, FaultSafe DEF Next
<1> QED
    BY <1>1, <1>2, <1>3, <1>4

(* The two invariants hold together, whatever fails and whenever it fails.   *)
THEOREM Safety == Spec => [](TypeInv /\ IInv)
<1>1. Init => TypeInv /\ IInv
    BY TypeInvInit, SafeInit
<1>2. TypeInv /\ IInv /\ [Next]_vars => TypeInv' /\ IInv'
    BY TypeInvStep, SafeStep
<1> QED
    BY <1>1, <1>2, PTL DEF Spec

(* Whatever crashes, fails to be saved or is answered late, a password the   *)
(* vault calls known signs in, and one it calls unknown is the current one   *)
(* or the recorded attempt: for batches of any size.                         *)
THEOREM NeverLost == Spec => []PasswordNeverLost
<1>1. IInv => PasswordNeverLost
    BY DEF IInv
<1> QED
    BY <1>1, Safety, PTL

(* No worker may submit an attempt that is not on disk yet.                  *)
THEOREM Durable == Spec => []AuthorizedIsDurable
<1>1. IInv => AuthorizedIsDurable
    BY DEF IInv
<1> QED
    BY <1>1, Safety, PTL

-----------------------------------------------------------------------------
(* AccountKeeper implements Rotation: whatever the coordinator, the worker,  *)
(* the operator and the faults do, the passwords of each account go through  *)
(* record, submit, answer and confirm as the promise has them.               *)

(* The passwords of every account, as the promise sees them, are untouched.  *)
SamePasswords ==
    /\ \A a \in Accounts : /\ vault'[a].current = vault[a].current
                           /\ vault'[a].pending = vault[a].pending
    /\ UNCHANGED <<provider, inflight>>

(* A step that touches no password is a stutter of the promise.              *)
LEMMA Stutter ==
    ASSUME SamePasswords
    PROVE  UNCHANGED Promise!vars
BY DEF SamePasswords, Promise!vars

(* The first state of a batch is one of the promise's.                       *)
LEMMA InitIsPromised == Init => Promise!Init
BY DEF Init, Promise!Init, Promise!Password, NoPassword

(* apply_worker_event(PasswordSubmitRequired) records an attempt newer than  *)
(* every password of the account.                                            *)
LEMMA RecordIsPromised ==
    ASSUME TypeInv, IInv, OnSubmitRequired
    PROVE  Promise!Next
<1>1. /\ idx \in Accounts /\ Going = "serve"
      /\ Head(evq) \in Range(evq) /\ Head(evq) \in Events
    BY Reading DEF OnSubmitRequired, Receive
<1>2. Head(evq).kind = "password_submit_required"
    BY DEF OnSubmitRequired, Receive
<1>3. Head(evq) = Event("password_submit_required")
    BY <1>1, <1>2 DEF Events, Event
<1>4. Operation = "change_password"
    BY <1>1, <1>3, OperationAssumption DEF IInv, LoginOnly, Reported
<1>5. ~Unknown(idx) /\ vault[idx].pending = NoPassword
    BY DEF OnSubmitRequired, AcceptsSubmitRequired, Unknown
<1>6. /\ vault[idx].current < minted[idx] /\ provider[idx] = vault[idx].current
      /\ minted[idx] \in Passwords /\ vault[idx].current \in Nat
    BY <1>1, <1>4, <1>5
    DEF IInv, Fresh, Untried, AtWork, PasswordNeverLost, Unknown, TypeInv, ProviderType,
        DiskType, VaultRecords, Passwords
<1>7. /\ vault' = [vault EXCEPT ![idx] = AuthorizedRecord(@, minted[idx])]
      /\ UNCHANGED <<provider, inflight>>
    BY DEF OnSubmitRequired, Persist, ServeUnchanged, providerVars
<1>8. /\ vault'[idx].pending = minted[idx]
      /\ \A a \in Accounts : vault'[a].current = vault[a].current
      /\ \A a \in Accounts : a # idx => vault'[a].pending = vault[a].pending
    BY <1>1, <1>7 DEF AuthorizedRecord, TypeInv, DiskType, VaultRecords
<1>9. minted[idx] \in Promise!Password \ {provider[idx]}
    BY <1>6 DEF Promise!Password, Passwords, NoPassword
<1>10. ASSUME NEW a \in Accounts, a = idx
       PROVE  Promise!Record(a)
    BY <1>10, <1>1, <1>5, <1>7, <1>8, <1>9 DEF Promise!Record, NoPassword
<1> QED
    BY <1>1, <1>10 DEF Promise!Next

(* apply_worker_event(Verified) confirms an attempt the provider has taken.  *)
LEMMA ConfirmIsPromised ==
    ASSUME TypeInv, IInv, OnVerified
    PROVE  Promise!Next \/ UNCHANGED Promise!vars
<1>1. /\ idx \in Accounts /\ wacct = idx /\ Going = "serve"
      /\ Head(evq) \in Range(evq) /\ Head(evq) \in Events
    BY Reading DEF OnVerified, Receive
<1>2. Head(evq).kind = "verified" /\ UNCHANGED <<provider, inflight>>
    BY DEF OnVerified, Receive, ServeUnchanged, providerVars
<1>3. Head(evq) = Event("verified")
    BY <1>1, <1>2 DEF Events, Event
<1>4. CASE Operation = "login"
  <2>1. vault' = [vault EXCEPT ![idx] = LoginVerifiedRecord(@)]
      BY <1>4 DEF OnVerified, Persist
  <2>2. vault[idx].pending = NoPassword
      BY <1>1, <1>4 DEF IInv, LoginOnly, PasswordNeverLost, Unknown
  <2>3. SamePasswords
      BY <1>1, <1>2, <2>1, <2>2
      DEF SamePasswords, LoginVerifiedRecord, TypeInv, DiskType, VaultRecords
  <2> QED
      BY <2>3, Stutter
<1>5. CASE Operation = "change_password"
  <2>1. /\ Unknown(idx) /\ provider[idx] = vault[idx].pending
        /\ inflight[idx] = NoPassword
      BY <1>1, <1>3, <1>5 DEF IInv, Reports, AtWork, Reported
  <2>2. vault' = [vault EXCEPT ![idx] = VerifiedRecord(@)]
      BY <1>5 DEF OnVerified, Persist
  <2>3. vault[idx].pending # NoPassword
      BY <1>1, <2>1 DEF IInv, PasswordNeverLost, Unknown
  <2>4. /\ vault'[idx].current = vault[idx].pending /\ vault'[idx].pending = NoPassword
        /\ \A a \in Accounts : a # idx => vault'[a] = vault[a]
      BY <1>1, <2>2 DEF VerifiedRecord, TypeInv, DiskType, VaultRecords
  <2>5. ASSUME NEW a \in Accounts, a = idx
        PROVE  Promise!Confirm(a)
      BY <2>5, <1>1, <1>2, <2>1, <2>3, <2>4 DEF Promise!Confirm, NoPassword
  <2> QED
      BY <1>1, <2>5 DEF Promise!Next
<1> QED
    BY <1>4, <1>5, OperationAssumption

(* The worker submits what is recorded.                                      *)
LEMMA SubmitIsPromised ==
    ASSUME TypeInv, IInv, WorkerSubmits
    PROVE  Promise!Next
<1>1. /\ wacct \in Accounts /\ wpc = "submit" /\ wsub
      /\ inflight' = [inflight EXCEPT ![wacct] = minted[wacct]]
      /\ UNCHANGED <<vault, provider>>
    BY DEF WorkerSubmits, Acting, WorkerUnchanged, diskVars, TypeInv, WorkerType, IInv, Place
<1>2. vault[wacct].pending = minted[wacct] /\ vault[wacct].pending # NoPassword
    BY <1>1 DEF IInv, AuthorizedIsDurable, MaySubmit, AliveWorker, PasswordNeverLost
<1>3. Promise!Submit(wacct)
    BY <1>1, <1>2 DEF Promise!Submit, NoPassword
<1> QED
    BY <1>1, <1>3 DEF Promise!Next

(* The provider takes the new password or refuses it.                        *)
LEMMA AnswerIsPromised ==
    ASSUME TypeInv, IInv, ProviderAnswers
    PROVE  Promise!Next
<1>1. PICK a \in Accounts :
          /\ inflight[a] # NoPassword
          /\ inflight' = [inflight EXCEPT ![a] = NoPassword]
          /\ provider' \in {provider, [provider EXCEPT ![a] = inflight[a]]}
          /\ UNCHANGED vault
    BY DEF ProviderAnswers, diskVars
<1>2. Promise!Accept(a) \/ Promise!Refuse(a)
    BY <1>1 DEF Promise!Accept, Promise!Refuse, NoPassword
<1> QED
    BY <1>1, <1>2 DEF Promise!Next

(* An account that fails, is cancelled or is retried keeps its passwords.    *)
LEMMA EndIsQuiet ==
    ASSUME TypeInv,
           \/ OnFailed \/ OnEndOfStream \/ OnBadLine \/ OnMarkFailed \/ OnCancel
           \/ LaunchFails
    PROVE  SamePasswords
<1>1. UNCHANGED <<provider, inflight>>
    BY DEF OnFailed, OnEndOfStream, OnBadLine, OnMarkFailed, OnCancel, LaunchFails,
           ServeUnchanged, ControlUnchanged, providerVars
<1>2. vault' = vault \/ vault' = [vault EXCEPT ![idx] = FailedRecord(@, rs')]
    BY DEF OnFailed, OnEndOfStream, OnBadLine, OnMarkFailed, OnCancel, LaunchFails, Failure,
           Retry, EndAccount, Persist
<1> QED
    BY <1>1, <1>2 DEF SamePasswords, FailedRecord, TypeInv, DiskType, VaultRecords

(* Every other step leaves vault and provider alone.                         *)
LEMMA RestIsQuiet ==
    ASSUME TypeInv,
           \/ Begin \/ SaveCheckpoint \/ SkipAccount \/ CancelBetweenAccounts \/ TakeAccount
           \/ FinishBatch \/ ProxyAssigned \/ ProxyFails \/ Launch \/ SpawnWorker \/ OnStage
           \/ OnTotpRequired \/ OnManualRequired \/ OnPasswordChanged \/ OnRejectedEvent
           \/ SendTotp \/ SendSubmit \/ OnPause \/ OnContinue \/ OnContinueToDeadWorker
           \/ OnIgnoredControl \/ Finish \/ MarkJobRunError \/ (Worker /\ ~WorkerSubmits)
           \/ SaveFails \/ VaultSaveFails \/ MarkingFails \/ WorkerDies \/ Crash
           \/ OperatorControl \/ OperatorCancelsInactive \/ ResumeJob
    PROVE  SamePasswords
<1> USE DEF diskVars, providerVars, Persist, Raise, Send, ServeUnchanged, ControlUnchanged,
            WorkerUnchanged, SamePasswords
<1>1. CASE \/ Begin \/ SaveCheckpoint \/ SkipAccount \/ CancelBetweenAccounts \/ TakeAccount
           \/ FinishBatch \/ ProxyAssigned \/ ProxyFails \/ Launch \/ SpawnWorker
           \/ MarkJobRunError
    BY <1>1 DEF Begin, SaveCheckpoint, SkipAccount, CancelBetweenAccounts, TakeAccount,
       FinishBatch, ProxyAssigned, ProxyFails, Launch, SpawnWorker, MarkJobRunError
<1>2. CASE Finish
    BY <1>2 DEF Finish, TypeInv, HandOK, Going, TerminalStages
<1>3. CASE \/ OnStage \/ OnTotpRequired \/ OnManualRequired \/ OnPasswordChanged
           \/ OnRejectedEvent \/ SendTotp \/ SendSubmit \/ OnPause \/ OnContinue
           \/ OnContinueToDeadWorker \/ OnIgnoredControl
    BY <1>3 DEF OnStage, OnTotpRequired, OnManualRequired, OnPasswordChanged,
       OnRejectedEvent, SendTotp, SendSubmit, OnPause, OnContinue, OnContinueToDeadWorker,
       OnIgnoredControl
<1>4. CASE Worker /\ ~WorkerSubmits
    BY <1>4 DEF Worker, WorkerStart, WorkerSignedIn, WorkerAsksTotp, WorkerAsksManual,
       WorkerAsksSubmit, WorkerSeesChange, WorkerLogsOut, WorkerVerifies, WorkerFails,
       WorkerReceives
<1>5. CASE \/ SaveFails \/ VaultSaveFails \/ MarkingFails \/ WorkerDies \/ Crash
           \/ OperatorControl \/ OperatorCancelsInactive \/ ResumeJob
    BY <1>5 DEF SaveFails, VaultSaveFails, MarkingFails, WorkerDies, Crash, OperatorControl,
       OperatorCancelsInactive, ResumeJob
<1> QED
    BY <1>1, <1>2, <1>3, <1>4, <1>5

(* Every step of the batch is a step of the promise or a stutter of it.      *)
LEMMA StepIsPromised ==
    ASSUME TypeInv, IInv, [Next]_vars
    PROVE  [Promise!Next]_(Promise!vars)
<1>1. CASE OnSubmitRequired \/ OnVerified \/ WorkerSubmits \/ ProviderAnswers
    BY <1>1, RecordIsPromised, ConfirmIsPromised, SubmitIsPromised, AnswerIsPromised
<1>2. CASE UNCHANGED vars
    BY <1>2, Stutter DEF vars, diskVars, providerVars, SamePasswords
<1>3. CASE Next /\ ~(OnSubmitRequired \/ OnVerified \/ WorkerSubmits \/ ProviderAnswers)
  <2>1. SamePasswords
      BY <1>3, EndIsQuiet, RestIsQuiet DEF Next, Coordinator
  <2> QED
      BY <2>1, Stutter
<1> QED
    BY <1>1, <1>2, <1>3

(* The batch, with its crashes, failed saves and dead workers, implements    *)
(* Rotation: run_batch, the worker and the two files together never do to a  *)
(* password what the promise does not allow.                                 *)
THEOREM Implements == Spec => ImplementsRotation
<1>1. Init => Promise!Init
    BY InitIsPromised
<1>2. TypeInv /\ IInv /\ [Next]_vars => [Promise!Next]_(Promise!vars)
    BY StepIsPromised
<1> QED
    BY <1>1, <1>2, Safety, PTL DEF Spec, ImplementsRotation, Promise!Spec

-----------------------------------------------------------------------------
(* The checkpoint of a batch tells the truth: the inductive invariant behind *)
(* VerdictMatchesVault, DoneInOrder, TerminalIsFinal and CriticalStopsBatch, *)
(* and its proof; and, at the end, that coordinator and worker never wait    *)
(* for each other.                                                           *)
(*                                                                           *)
(* The two files are written one after the other, so the vault may be ahead  *)
(* of the checkpoint.  It is so for the account in hand only, and that one   *)
(* has no verdict on disk yet (HandOpen): whatever is lost on the way, the   *)
(* verdicts that are on disk were given under the vault that is on disk.     *)

Over(c, a) == c.st[a] \in TerminalStages

(* run_batch is under way, and the checkpoint in memory is its own.          *)
Busy == pc \notin {"idle", "begin", "error"}

Verified == IF Operation = "login" THEN "original" ELSE "changed"

(* The verdict of one account, as VerdictMatchesVault has it of the disk.    *)
Verdict(c, a) ==
    /\ c.st[a] = "critical" => Unknown(a)
    /\ c.st[a] = "success" => vault[a].pstate = Verified
    /\ c.st[a] \in {"failed", "cancelled"} => ~Unknown(a)

OnDisk == \A a \in Accounts : Verdict(ckpt, a)

InMemory == Busy => \A a \in Accounts : Verdict(mc, a)

(* The memory knows every verdict on disk, and is on disk between two saves. *)
Ahead == Busy => \A a \in Accounts : Over(ckpt, a) => mc.st[a] = ckpt.st[a]

Saved == Busy /\ pc # "save" => ckpt.st = mc.st

(* The account in hand has no verdict until process_account has its outcome. *)
HandOpen == Busy =>
    /\ Going \in InHand \ {"finish"} => ~Over(mc, idx)
    /\ Going = "finish" => mc.st[idx] = rs.stage

(* Every other account is over or has not been begun.                        *)
Settled(c, a) == Over(c, a) \/ c.st[a] = "queued"

Queue ==
    /\ pc = "begin" => \A a \in Accounts : Settled(ckpt, a)
    /\ Busy /\ Going # "idle" =>
          \A a \in Accounts : a # idx \/ Going = "next" => Settled(mc, a)

(* No stage that the worker reports is a verdict.                            *)
OpenStages == \A e \in Range(evq) : e.kind = "stage" => e.arg \notin TerminalStages

(* A snapshot leads on, not back to its own start.                           *)
Onward == after \notin {"save", "begin"}

VInv == /\ OnDisk /\ DoneInOrder /\ InMemory /\ Ahead /\ Saved
        /\ HandOpen /\ Queue /\ OpenStages /\ Onward

-----------------------------------------------------------------------------
(* The building blocks of the steps.                                         *)

(* What VInv looks at besides the pipe.                                      *)
Looked == <<ckpt.st, mc.st, pc, after, idx, rs, [a \in Accounts |-> vault[a].pstate]>>

(* A step that changes none of it keeps the invariant.                       *)
LEMMA Aside ==
    ASSUME VInv, UNCHANGED Looked, OpenStages'
    PROVE  VInv'
<1>1. /\ UNCHANGED <<ckpt.st, mc.st, pc, after, idx, rs>>
      /\ \A a \in Accounts : vault'[a].pstate = vault[a].pstate
  <2>1. [a \in Accounts |-> vault[a].pstate]' = [a \in Accounts |-> vault[a].pstate]
      BY DEF Looked
  <2> QED
      BY <2>1 DEF Looked
<1> QED
    BY <1>1 DEF VInv, OnDisk, DoneInOrder, InMemory, Ahead, Saved, HandOpen, Queue, Settled,
       Over, Verdict, Verified, Unknown, Busy, Going, Onward

(* A session that is dropped leaves an empty pipe or the one that was there. *)
LEMMA Dropping ==
    ASSUME VInv, DropSession
    PROVE  OpenStages'
<1>1. evq' = evq \/ Range(evq') = {}
    BY EmptyRange DEF DropSession, pipeVars
<1>2. OpenStages
    BY DEF VInv
<1> QED
    BY <1>1, <1>2 DEF OpenStages

(* The task is not under way: only the disk matters.                         *)
LEMMA Released ==
    ASSUME VInv, pc' \in {"idle", "error"}, OnDisk', OpenStages', Onward'
    PROVE  VInv'
BY DEF VInv, DoneInOrder, InMemory, Ahead, Saved, HandOpen, Queue, Busy, Going

(* persist_snapshot: the vault is saved, the checkpoint is still to be.  An  *)
(* account that has a verdict keeps it, and its record.                      *)
LEMMA Snapshot ==
    ASSUME VInv, Busy, pc # "save", pc' = "save", UNCHANGED <<ckpt, idx>>,
           \A a \in Accounts : Over(ckpt, a) =>
               mc'.st[a] = mc.st[a] /\ vault'[a].pstate = vault[a].pstate,
           \A a \in Accounts : Verdict(mc, a)',
           HandOpen', Queue', OpenStages', Onward'
    PROVE  VInv'
<1>1. Busy' /\ ckpt.st = mc.st
    BY DEF VInv, Saved, Busy
<1>2. OnDisk'
    BY DEF VInv, OnDisk, Verdict, Over, Unknown, Verified, TerminalStages
<1>3. DoneInOrder' /\ Ahead'
    BY <1>1 DEF VInv, DoneInOrder, Ahead, Over, Busy
<1> QED
    BY <1>1, <1>2, <1>3 DEF VInv, InMemory, Saved

(* A stage of the account in hand is recorded, and it is not a verdict.      *)
LEMMA Staged ==
    ASSUME TypeInv, VInv, Busy, pc # "save", pc' = "save",
           Going \in InHand \ {"finish"}, Going' \in InHand \ {"finish"},
           UNCHANGED <<ckpt, idx>>,
           NEW s \in Stages \ TerminalStages,
           mc'.st = RecordStage(mc, idx, s).st,
           \A a \in Accounts : a # idx => vault'[a].pstate = vault[a].pstate,
           OpenStages'
    PROVE  VInv'
<1>1. idx \in Accounts /\ ckpt.st = mc.st /\ ~Over(mc, idx)
    BY DEF TypeInv, HandOK, VInv, Saved, HandOpen
<1>2. /\ mc'.st[idx] = s
      /\ \A a \in Accounts : a # idx => mc'.st[a] = mc.st[a]
    BY <1>1 DEF RecordStage, TypeInv, TaskType, Checkpoints
<1>3. \A a \in Accounts : Over(ckpt, a) => a # idx
    BY <1>1 DEF Over
<1>4. \A a \in Accounts : Verdict(mc, a)'
  <2> SUFFICES ASSUME NEW a \in Accounts PROVE Verdict(mc, a)'
      OBVIOUS
  <2>1. CASE a = idx
      BY <1>2, <2>1 DEF Verdict, TerminalStages
  <2>2. CASE a # idx
      BY <1>2, <2>2 DEF VInv, InMemory, Verdict, Unknown, Verified
  <2> QED
      BY <2>1, <2>2
<1>5. HandOpen'
    BY <1>2 DEF HandOpen, Over
<1>6. Queue'
    BY <1>2 DEF VInv, Queue, Settled, Over, InHand, Busy
<1> QED
    BY <1>2, <1>3, <1>4, <1>5, <1>6, Snapshot DEF Onward, Going, InHand

(* The account in hand has its outcome: the verdict recorded agrees with the *)
(* record saved, or the account goes back to the queue for another try.      *)
LEMMA Concluded ==
    ASSUME TypeInv, VInv, Busy, pc # "save", pc' = "save",
           Going \in InHand \ {"finish"}, Going' = "finish",
           UNCHANGED <<ckpt, idx>>,
           mc'.st = RecordStage(mc, idx, rs'.stage).st,
           rs'.stage \in TerminalStages \cup {"queued"},
           rs'.stage = "critical" => Unknown(idx)',
           rs'.stage = "success" => vault'[idx].pstate = Verified,
           rs'.stage \in {"failed", "cancelled"} => ~Unknown(idx)',
           \A a \in Accounts : a # idx => vault'[a].pstate = vault[a].pstate,
           OpenStages'
    PROVE  VInv'
<1>1. idx \in Accounts /\ ckpt.st = mc.st /\ ~Over(mc, idx)
    BY DEF TypeInv, HandOK, VInv, Saved, HandOpen
<1>2. /\ mc'.st[idx] = rs'.stage
      /\ \A a \in Accounts : a # idx => mc'.st[a] = mc.st[a]
    BY <1>1 DEF RecordStage, TypeInv, TaskType, Checkpoints
<1>3. \A a \in Accounts : Over(ckpt, a) => a # idx
    BY <1>1 DEF Over
<1>4. \A a \in Accounts : Verdict(mc, a)'
  <2> SUFFICES ASSUME NEW a \in Accounts PROVE Verdict(mc, a)'
      OBVIOUS
  <2>1. CASE a = idx
      BY <1>2, <2>1 DEF Verdict, Verified, Unknown
  <2>2. CASE a # idx
      BY <1>2, <2>2 DEF VInv, InMemory, Verdict, Unknown, Verified
  <2> QED
      BY <2>1, <2>2
<1>5. HandOpen'
    BY <1>2 DEF HandOpen
<1>6. Queue'
    BY <1>2 DEF VInv, Queue, Settled, Over, InHand, Busy
<1> QED
    BY <1>2, <1>3, <1>4, <1>5, <1>6, Snapshot DEF Onward, Going, InHand

(* The sweep of a cancellation gives a verdict to accounts without one, the  *)
(* one that the vault asks for.                                              *)
LEMMA Sweeping ==
    ASSUME NEW c \in Checkpoints, NEW first, NEW critical,
           \A a \in Accounts : Verdict(c, a)
    PROVE  \A a \in Accounts :
              /\ CancelFrom(c, first, critical).st[a] \in
                    {c.st[a], IF Unknown(a) THEN "critical" ELSE "cancelled"}
              /\ Over(c, a) => CancelFrom(c, first, critical).st[a] = c.st[a]
              /\ Verdict(CancelFrom(c, first, critical), a)
<1> DEFINE d == CancelFrom(c, first, critical)
<1>1. \A a \in Accounts :
         /\ d.st[a] \in {c.st[a], IF Unknown(a) THEN "critical" ELSE "cancelled"}
         /\ Over(c, a) => d.st[a] = c.st[a]
    BY DEF CancelFrom, Over, Unknown, Checkpoints
<1> HIDE DEF d
<1>2. \A a \in Accounts : Verdict(d, a)
    BY <1>1 DEF Verdict
<1> QED
    BY <1>1, <1>2 DEF d

(* mark_job_run_error gives one account the verdict the vault asks for.      *)
LEMMA Blaming ==
    ASSUME TypeInv, OnDisk
    PROVE  \A a \in Accounts : /\ Over(ckpt, a) => Blamed(ckpt).st[a] = ckpt.st[a]
                               /\ Verdict(Blamed(ckpt), a)
<1> DEFINE d == Blamed(ckpt)
<1>1. \A a \in Accounts :
         /\ d.st[a] \in {ckpt.st[a], IF Unknown(a) THEN "critical" ELSE "failed"}
         /\ Over(ckpt, a) => d.st[a] = ckpt.st[a]
    BY DEF Blamed, Over, Unknown, TypeInv, DiskType, Checkpoints
<1> HIDE DEF d
<1>2. \A a \in Accounts : Verdict(d, a)
    BY <1>1 DEF Verdict, OnDisk
<1> QED
    BY <1>1, <1>2 DEF d

(* A failure is never a success (the arms of Failed in transition).          *)
LEMMA FailureVerdict ==
    ASSUME NEW r \in RunStates, NEW code
    PROVE  /\ AfterFailure(r, code).stage \in {"failed", "cancelled", "critical"}
           /\ AfterFailure(r, code).stage = "critical"
                <=> AfterFailure(r, code).pstate = "unknown"
BY DEF RunStates, AfterFailure, FailureEvent, Transition, UnlessUnknown, PasswordStates

(* An account that fails, is cancelled or is retried.                        *)
LEMMA EndVerdict ==
    ASSUME TypeInv, VInv, NEW code, pc \in {"spawn", "serve"}, UNCHANGED <<ckpt, idx>>,
           OpenStages',
           \/ Failure(code)
           \/ \E s \in JobStatuses : EndAccount(code, s)
           \/ LaunchFails /\ code = "launch_failed"
    PROVE  VInv'
<1>1. Busy /\ Going = pc /\ idx \in Accounts /\ pc' = "save" /\ Going' = "finish"
    BY DEF TypeInv, HandOK, Going, InHand, Failure, Retry, EndAccount, LaunchFails, Persist, Busy
<1>2. CASE Retry(code)
  <2>1. /\ vault' = vault /\ mc' = RecordStage(mc, idx, "queued") /\ rs'.stage = "queued"
      BY <1>2 DEF Retry, Persist, TypeInv, TaskType, RunStates
  <2> QED
      BY <1>1, <2>1, Concluded DEF InHand
<1>3. CASE ~Retry(code)
  <2>1. /\ rs' = AfterFailure(rs, code)
        /\ vault' = [vault EXCEPT ![idx] = FailedRecord(@, rs')]
        /\ mc'.st = RecordStage(mc, idx, rs'.stage).st
      BY <1>3 DEF Failure, EndAccount, LaunchFails, Persist, RecordStage, TypeInv, TaskType,
         Checkpoints
  <2>2. /\ rs'.stage \in {"failed", "cancelled", "critical"}
        /\ rs'.stage = "critical" <=> rs'.pstate = "unknown"
      BY <2>1, FailureVerdict DEF TypeInv, TaskType
  <2>3. /\ vault'[idx].pstate = rs'.pstate
        /\ \A a \in Accounts : a # idx => vault'[a].pstate = vault[a].pstate
      BY <1>1, <2>1 DEF FailedRecord, TypeInv, DiskType, VaultRecords
  <2>4. /\ rs'.stage \in TerminalStages \cup {"queued"}
        /\ rs'.stage = "critical" => Unknown(idx)'
        /\ rs'.stage \in {"failed", "cancelled"} => ~Unknown(idx)'
      BY <1>1, <2>2, <2>3 DEF TerminalStages, Unknown
  <2> QED
      BY <1>1, <2>1, <2>2, <2>3, <2>4, Concluded DEF InHand
<1> QED
    BY <1>2, <1>3

-----------------------------------------------------------------------------
(* The coordinator's steps.                                                  *)

(* run_batch between accounts.                                               *)
LEMMA BatchVerdict ==
    ASSUME TypeInv, VInv,
           \/ Begin \/ SaveCheckpoint \/ SkipAccount \/ CancelBetweenAccounts
           \/ TakeAccount \/ FinishBatch
    PROVE  VInv'
<1> USE DEF Persist, pipeVars, Busy, Going
<1>0. OpenStages'
    BY DEF VInv, OpenStages, Begin, SaveCheckpoint, SkipAccount, CancelBetweenAccounts,
           TakeAccount, FinishBatch
<1>1. CASE Begin
  <2>1. mc'.st = ckpt.st /\ UNCHANGED <<vault, ckpt>> /\ pc' = "save" /\ after' = "next"
        /\ idx' = 1 /\ pc = "begin"
      BY <1>1 DEF Begin, TypeInv, DiskType, Checkpoints
  <2>2. OnDisk' /\ InMemory'
      BY <2>1 DEF VInv, OnDisk, InMemory, Verdict, Unknown, Verified
  <2>3. DoneInOrder' /\ Ahead' /\ Saved' /\ HandOpen'
      BY <2>1 DEF DoneInOrder, Ahead, Saved, HandOpen, InHand, Over, Accounts
  <2>4. Queue'
      BY <2>1 DEF VInv, Queue, Settled, Over
  <2> QED
      BY <1>0, <2>1, <2>2, <2>3, <2>4 DEF VInv, Onward
<1>2. CASE SaveCheckpoint
  <2>1. /\ ckpt' = mc /\ pc' = after /\ pc = "save"
        /\ UNCHANGED <<vault, idx, mc, rs, after>>
      BY <1>2 DEF SaveCheckpoint
  <2>3. OnDisk' /\ InMemory' /\ Ahead' /\ Saved'
      BY <2>1 DEF VInv, OnDisk, InMemory, Ahead, Saved, Verdict, Unknown, Verified
  <2>4. DoneInOrder'
      BY <2>1 DEF VInv, DoneInOrder, Ahead, Over
  <2>5. HandOpen' /\ Queue'
      BY <2>1 DEF VInv, HandOpen, Queue, InHand, Settled, Over, Onward
  <2> QED
      BY <1>0, <2>1, <2>3, <2>4, <2>5 DEF VInv, Onward
<1>3. CASE SkipAccount
  <2>1. /\ idx \in Accounts /\ idx' = idx + 1 /\ pc = "next" /\ mc.st[idx] \in Skipped
        /\ UNCHANGED <<vault, ckpt, mc, pc, after, rs>>
      BY <1>3, NumAccountsAssumption DEF SkipAccount, diskVars, TypeInv, TaskType, Accounts
  <2>2. \A a \in Accounts : Settled(mc, a)
      BY <2>1 DEF VInv, Queue
  <2>3. Over(ckpt, idx)
      BY <2>1, <2>2 DEF Settled, Over, Skipped, VInv, Saved, TerminalStages
  <2>4. \A a \in Accounts : a < idx + 1 => a < idx \/ a = idx
      BY <2>1 DEF Accounts
  <2>5. DoneInOrder'
      BY <2>1, <2>3, <2>4 DEF VInv, DoneInOrder, Over
  <2>6. OnDisk' /\ InMemory' /\ Ahead' /\ Saved' /\ HandOpen'
      BY <2>1 DEF VInv, OnDisk, InMemory, Ahead, Saved, HandOpen, Verdict, Unknown, Verified,
         Over, InHand, Onward
  <2>7. Queue'
      BY <2>1, <2>2 DEF Queue, Settled, Over
  <2> QED
      BY <1>0, <2>1, <2>5, <2>6, <2>7 DEF VInv, Onward
<1>4. CASE CancelBetweenAccounts
  <2>1. /\ pc = "next" /\ pc' = "save" /\ after' = "idle" /\ UNCHANGED <<vault, ckpt, idx>>
        /\ mc' = CancelFrom(Drained, idx, Drained.status = "critical")
      BY <1>4 DEF CancelBetweenAccounts, CancelRemaining
  <2>2. Drained \in Checkpoints /\ Drained.st = mc.st
      BY CheckpointType DEF Drained, TypeInv, TaskType, Checkpoints
  <2>3. \A a \in Accounts : Verdict(Drained, a)
      BY <2>1, <2>2 DEF VInv, InMemory, Verdict
  <2>4. \A a \in Accounts : /\ Over(Drained, a) => mc'.st[a] = Drained.st[a]
                            /\ Verdict(CancelFrom(Drained, idx, Drained.status = "critical"), a)
      BY <2>1, <2>2, <2>3, Sweeping
  <2>5. \A a \in Accounts : Verdict(mc, a)'
      BY <2>1, <2>4 DEF Verdict, Unknown, Verified
  <2>6. \A a \in Accounts : Over(ckpt, a) => mc'.st[a] = mc.st[a]
      BY <2>1, <2>2, <2>4 DEF Over, VInv, Saved
  <2> QED
      BY <1>0, <2>1, <2>5, <2>6, Snapshot DEF HandOpen, Queue, InHand, Onward
<1>5. CASE TakeAccount
  <2>1. /\ pc = "next" /\ pc' \in {"proxy", "launch"} /\ UNCHANGED <<vault, ckpt, idx, after>>
        /\ mc'.st = mc.st /\ mc.st[idx] \notin TerminalStages
      BY <1>5 DEF TakeAccount, diskVars, Drained, TypeInv, TaskType, Checkpoints, Skipped,
         TerminalStages
  <2>2. OnDisk' /\ InMemory' /\ Ahead' /\ Saved'
      BY <2>1 DEF VInv, OnDisk, InMemory, Ahead, Saved, Verdict, Unknown, Verified, Over
  <2>3. DoneInOrder' /\ HandOpen' /\ Queue'
      BY <2>1 DEF VInv, DoneInOrder, HandOpen, Queue, Settled, Over
  <2> QED
      BY <1>0, <2>1, <2>2, <2>3 DEF VInv, Onward
<1>6. CASE FinishBatch
  <2>1. /\ pc = "next" /\ pc' = "save" /\ after' = "idle" /\ UNCHANGED <<vault, ckpt, idx>>
        /\ mc'.st = mc.st
      BY <1>6 DEF FinishBatch, TypeInv, TaskType, Checkpoints
  <2>2. \A a \in Accounts : Verdict(mc, a)'
      BY <2>1 DEF VInv, InMemory, Verdict, Unknown, Verified
  <2> QED
      BY <1>0, <2>1, <2>2, Snapshot DEF HandOpen, Queue, InHand, Onward
<1> QED
    BY <1>1, <1>2, <1>3, <1>4, <1>5, <1>6

(* process_account up to the running worker, but for its failure.            *)
LEMMA AttemptVerdict ==
    ASSUME TypeInv, VInv, ProxyAssigned \/ ProxyFails \/ Launch \/ SpawnWorker
    PROVE  VInv'
<1>0. OpenStages'
    BY EmptyRange DEF VInv, OpenStages, ProxyAssigned, ProxyFails, Launch, SpawnWorker, pipeVars
<1>1. mc \in Checkpoints /\ rs \in RunStates
    BY DEF TypeInv, TaskType
<1>2. CASE ProxyAssigned
  <2>1. /\ pc = "proxy" /\ pc' = "save" /\ after' = "launch" /\ mc'.st = mc.st
        /\ UNCHANGED <<vault, ckpt, idx>>
      BY <1>1, <1>2 DEF ProxyAssigned, Persist, Checkpoints
  <2>2. \A a \in Accounts : Verdict(mc, a)'
      BY <2>1 DEF VInv, InMemory, Verdict, Unknown, Verified, Busy
  <2>3. HandOpen' /\ Queue' /\ Onward'
      BY <2>1 DEF VInv, HandOpen, Queue, Settled, Over, Busy, Going, InHand, Onward
  <2> QED
      BY <1>0, <2>1, <2>2, <2>3, Snapshot DEF Busy
<1>3. CASE ProxyFails
  <2>1. /\ pc = "proxy" /\ pc' = "save" /\ after' = "idle"
        /\ mc'.st = [mc.st EXCEPT ![idx] = "queued"]
        /\ UNCHANGED <<vault, ckpt, idx>>
      BY <1>1, <1>3 DEF ProxyFails, Persist, RecordStage, Checkpoints
  <2>2. ~Over(mc, idx) /\ ckpt.st = mc.st /\ idx \in Accounts
      BY <2>1 DEF VInv, HandOpen, Saved, Busy, Going, InHand, TypeInv, HandOK
  <2>3. \A a \in Accounts : mc'.st[a] = IF a = idx THEN "queued" ELSE mc.st[a]
      BY <1>1, <2>1 DEF Checkpoints
  <2>4. \A a \in Accounts : Verdict(mc, a)'
      BY <2>1, <2>3 DEF VInv, InMemory, Verdict, Unknown, Verified, Busy
  <2>5. \A a \in Accounts : Over(ckpt, a) => mc'.st[a] = mc.st[a]
      BY <2>2, <2>3 DEF Over
  <2> QED
      BY <1>0, <2>1, <2>4, <2>5, Snapshot DEF HandOpen, Queue, InHand, Onward, Busy, Going
<1>4. CASE Launch
  <2>1. rs'.stage = "launching"
      BY <1>1, <1>4 DEF Launch, Transition, RunStates
  <2>2. mc'.st = RecordStage(mc, idx, "launching").st
      BY <1>1, <1>4, <2>1 DEF Launch, Persist, RecordStage, Checkpoints
  <2> QED
      BY <1>0, <1>4, <2>2, Staged
      DEF Launch, Persist, Busy, Going, InHand, Stages, TerminalStages
<1>5. CASE SpawnWorker
  <2>1. /\ pc = "spawn" /\ pc' = "serve" /\ UNCHANGED <<vault, ckpt, idx, mc, rs, after>>
      BY <1>5 DEF SpawnWorker, diskVars
  <2>2. OnDisk' /\ DoneInOrder' /\ InMemory' /\ Ahead' /\ Saved'
      BY <2>1 DEF VInv, OnDisk, DoneInOrder, InMemory, Ahead, Saved, Verdict, Unknown,
         Verified, Over, Busy
  <2>3. HandOpen' /\ Queue' /\ Onward'
      BY <2>1 DEF VInv, HandOpen, Queue, Settled, Over, Busy, Going, InHand, Onward
  <2> QED
      BY <1>0, <2>2, <2>3 DEF VInv
<1> QED
    BY <1>2, <1>3, <1>4, <1>5

(* session.finish(), and what run_batch makes of the outcome.                *)
LEMMA FinishVerdict ==
    ASSUME TypeInv, VInv, Finish
    PROVE  VInv'
<1>0. OpenStages'
    BY Dropping DEF Finish
<1>1. /\ mc \in Checkpoints /\ idx \in Accounts /\ pc = "finish" /\ UNCHANGED <<ckpt, rs>>
      /\ rs.stage \in TerminalStages \cup {"queued"} /\ mc.st[idx] = rs.stage
      /\ ckpt.st = mc.st
    BY DEF Finish, TypeInv, TaskType, HandOK, Going, InHand, VInv, HandOpen, Saved, Busy
<1>2. \A a \in Accounts : a # idx => Settled(mc, a)
    BY <1>1 DEF VInv, Queue, Busy, Going
<1>3. CASE rs.stage = "queued"
  <2>1. pc' = "launch" /\ UNCHANGED <<vault, after, mc, idx>>
      BY <1>3 DEF Finish
  <2>2. OnDisk' /\ DoneInOrder' /\ InMemory' /\ Ahead' /\ Saved'
      BY <1>1, <2>1 DEF VInv, OnDisk, DoneInOrder, InMemory, Ahead, Saved, Verdict, Unknown,
         Verified, Over, Busy
  <2>3. HandOpen' /\ Queue' /\ Onward'
      BY <1>1, <1>3, <2>1 DEF VInv, HandOpen, Queue, Settled, Over, Busy, Going, InHand, Onward,
         TerminalStages
  <2> QED
      BY <1>0, <2>2, <2>3 DEF VInv
<1>4. CASE rs.stage \in {"success", "failed"} /\ ~mc.pause
  <2>1. pc' = "next" /\ idx' = idx + 1 /\ UNCHANGED <<vault, after, mc>>
      BY <1>4 DEF Finish
  <2>2. OnDisk' /\ InMemory' /\ Ahead' /\ Saved'
      BY <1>1, <2>1 DEF VInv, OnDisk, InMemory, Ahead, Saved, Verdict, Unknown,
         Verified, Over, Busy
  <2>3. \A a \in Accounts : a < idx + 1 => a < idx \/ a = idx
      BY <1>1 DEF Accounts
  <2>4. DoneInOrder'
      BY <1>1, <1>4, <2>1, <2>3 DEF VInv, DoneInOrder, TerminalStages
  <2>5. \A a \in Accounts : Settled(mc, a)
      BY <1>1, <1>2, <1>4 DEF Settled, Over, TerminalStages
  <2>6. HandOpen' /\ Queue' /\ Onward'
      BY <1>1, <2>1, <2>5 DEF VInv, HandOpen, Queue, Settled, Over, Busy, Going, InHand, Onward
  <2> QED
      BY <1>0, <2>2, <2>4, <2>6 DEF VInv
<1>5. CASE rs.stage = "critical" \/ (rs.stage \in {"success", "failed"} /\ mc.pause)
  <2>1. /\ pc' = "save" /\ after' = "idle" /\ mc'.st = mc.st /\ UNCHANGED <<vault, idx>>
      BY <1>1, <1>5 DEF Finish, Persist, Checkpoints
  <2>2. \A a \in Accounts : Verdict(mc, a)'
      BY <1>1, <2>1 DEF VInv, InMemory, Verdict, Unknown, Verified, Busy
  <2> QED
      BY <1>0, <1>1, <2>1, <2>2, Snapshot DEF HandOpen, Queue, InHand, Onward, Busy, Going
<1>6. CASE rs.stage = "cancelled"
  <2>1. /\ pc' = "save" /\ after' = "idle" /\ UNCHANGED <<vault, idx>>
        /\ mc' = CancelFrom(mc, idx + 1, mc.status = "critical")
      BY <1>6 DEF Finish, Persist, CancelRemaining
  <2>2. \A a \in Accounts : Verdict(mc, a)
      BY <1>1 DEF VInv, InMemory, Busy
  <2>3. \A a \in Accounts : /\ Over(mc, a) => mc'.st[a] = mc.st[a]
                            /\ Verdict(CancelFrom(mc, idx + 1, mc.status = "critical"), a)
      BY <1>1, <2>1, <2>2, Sweeping
  <2>4. \A a \in Accounts : Verdict(mc, a)'
      BY <2>1, <2>3 DEF Verdict, Unknown, Verified
  <2>5. \A a \in Accounts : Over(ckpt, a) => mc'.st[a] = mc.st[a]
      BY <1>1, <2>3 DEF Over
  <2> QED
      BY <1>0, <1>1, <2>1, <2>4, <2>5, Snapshot
      DEF HandOpen, Queue, InHand, Onward, Busy, Going
<1> QED
    BY <1>1, <1>3, <1>4, <1>5, <1>6 DEF TerminalStages

(* The events of the select loop, but for those that end the account.        *)
LEMMA EventVerdict ==
    ASSUME TypeInv, VInv,
           \/ OnStage \/ OnTotpRequired \/ OnManualRequired \/ OnSubmitRequired
           \/ OnPasswordChanged
    PROVE  VInv'
<1>1. /\ pc = "serve" /\ evq # <<>> /\ evq' = Tail(evq) /\ UNCHANGED <<ckpt, idx>>
      /\ pc' = "save" /\ after' \in AtWork
    BY DEF OnStage, OnTotpRequired, OnManualRequired, OnSubmitRequired, OnPasswordChanged,
       Receive, Persist, ServeUnchanged, AtWork
<1>2. /\ evq \in Seq(Events) /\ mc \in Checkpoints /\ rs \in RunStates
      /\ Busy /\ Going = "serve" /\ Going' \in InHand \ {"finish"} /\ idx \in Accounts
    BY <1>1 DEF TypeInv, PipeType, TaskType, HandOK, Busy, Going, InHand, AtWork
<1>3. Head(evq) \in Range(evq) /\ Range(Tail(evq)) \subseteq Range(evq) /\ Head(evq) \in Events
    BY <1>1, <1>2, HeadTailRange, HeadTailProperties
<1>4. OpenStages'
    BY <1>1, <1>3 DEF VInv, OpenStages
<1>5. rs'.stage \in Stages \ TerminalStages
  <2>1. CASE OnStage
      BY <1>2, <1>3, <2>1 DEF OnStage, Receive, VInv, OpenStages, Events, RunStates
  <2>2. CASE \/ OnTotpRequired \/ OnManualRequired \/ OnSubmitRequired \/ OnPasswordChanged
      BY <1>2, <2>2 DEF OnTotpRequired, OnManualRequired, OnSubmitRequired,
         OnPasswordChanged, Transition, RunStates, Stages, TerminalStages
  <2> QED
      BY <2>1, <2>2
<1>6. mc'.st = RecordStage(mc, idx, rs'.stage).st
    BY <1>2 DEF OnStage, OnTotpRequired, OnManualRequired, OnSubmitRequired,
       OnPasswordChanged, Persist, RecordStage, Checkpoints
<1>7. \A a \in Accounts : a # idx => vault'[a].pstate = vault[a].pstate
    BY <1>2 DEF OnStage, OnTotpRequired, OnManualRequired, OnSubmitRequired,
       OnPasswordChanged, Persist, TypeInv, DiskType
<1> QED
    BY <1>1, <1>2, <1>4, <1>5, <1>6, <1>7, Staged DEF InHand

(* A verified event: the success is recorded with the state of the password. *)
LEMMA SuccessVerdict ==
    ASSUME TypeInv, VInv, OnVerified
    PROVE  VInv'
<1>1. /\ pc = "serve" /\ evq # <<>> /\ evq' = Tail(evq) /\ UNCHANGED <<ckpt, idx>>
      /\ pc' = "save" /\ after' = "finish"
    BY DEF OnVerified, Receive, Persist, ServeUnchanged
<1>2. /\ evq \in Seq(Events) /\ mc \in Checkpoints /\ rs \in RunStates
      /\ Busy /\ Going = "serve" /\ Going' = "finish" /\ idx \in Accounts
    BY <1>1 DEF TypeInv, PipeType, TaskType, HandOK, Busy, Going, InHand
<1>3. Range(Tail(evq)) \subseteq Range(evq)
    BY <1>1, <1>2, HeadTailRange
<1>4. OpenStages'
    BY <1>1, <1>3 DEF VInv, OpenStages
<1>5. rs'.stage = "success" /\ mc'.st = RecordStage(mc, idx, rs'.stage).st
    BY <1>2 DEF OnVerified, Transition, RunStates, Persist, RecordStage, Checkpoints
<1>6. vault'[idx].pstate = Verified
    BY <1>2 DEF OnVerified, Persist, TypeInv, DiskType, VaultRecords, VerifiedRecord,
       LoginVerifiedRecord, Verified
<1>7. \A a \in Accounts : a # idx => vault'[a].pstate = vault[a].pstate
    BY <1>2 DEF OnVerified, Persist, TypeInv, DiskType
<1> QED
    BY <1>1, <1>2, <1>4, <1>5, <1>6, <1>7, Concluded DEF InHand, TerminalStages

(* The events and controls that end the account in hand.                     *)
LEMMA EndingVerdict ==
    ASSUME TypeInv, VInv,
           \/ OnFailed \/ OnEndOfStream \/ OnBadLine \/ OnMarkFailed \/ OnCancel
           \/ LaunchFails
    PROVE  VInv'
<1>1. pc \in {"spawn", "serve"} /\ UNCHANGED <<ckpt, idx>>
    BY DEF OnFailed, OnEndOfStream, OnBadLine, OnMarkFailed, OnCancel, LaunchFails, Receive,
       Take, ServeUnchanged, ControlUnchanged
<1>2. OpenStages'
  <2>1. evq' = evq \/ (evq # <<>> /\ evq' = Tail(evq))
      BY DEF OnFailed, OnEndOfStream, OnBadLine, OnMarkFailed, OnCancel, LaunchFails, Receive,
         ControlUnchanged, pipeVars
  <2>2. Range(evq') \subseteq Range(evq)
      BY <2>1, HeadTailRange DEF TypeInv, PipeType
  <2> QED
      BY <2>2 DEF VInv, OpenStages
<1>3. PICK code : \/ Failure(code)
                  \/ \E s \in JobStatuses : EndAccount(code, s)
                  \/ LaunchFails /\ code = "launch_failed"
    BY DEF OnFailed, OnEndOfStream, OnBadLine, OnMarkFailed, OnCancel, JobStatuses
<1> QED
    BY <1>1, <1>2, <1>3, EndVerdict

(* Sends and the other controls of the select loop.                          *)
LEMMA ControlVerdict ==
    ASSUME TypeInv, VInv,
           \/ SendTotp \/ SendSubmit \/ OnRejectedEvent \/ OnContinueToDeadWorker
           \/ OnPause \/ OnContinue \/ OnIgnoredControl
    PROVE  VInv'
<1>0. mc \in Checkpoints /\ rs \in RunStates
    BY DEF TypeInv, TaskType
<1>1. CASE Raise
  <2>1. OpenStages' /\ UNCHANGED <<vault, ckpt, after>> /\ pc' = "error"
      BY <1>1, Dropping DEF Raise, diskVars
  <2> QED
      BY <2>1, Released DEF VInv, OnDisk, Verdict, Unknown, Verified, Onward
<1>2. CASE (SendTotp \/ SendSubmit) /\ ~Raise
  <2>1. /\ pc \in {"send_totp", "send_submit"} /\ pc' = "serve"
        /\ UNCHANGED <<vault, ckpt, idx, mc, rs, after, evq>>
      BY <1>2 DEF SendTotp, SendSubmit, Send, diskVars, taskVars
  <2>2. OnDisk' /\ DoneInOrder' /\ InMemory' /\ Ahead' /\ Saved' /\ OpenStages'
      BY <2>1 DEF VInv, OnDisk, DoneInOrder, InMemory, Ahead, Saved, Verdict, Unknown,
         Verified, Over, Busy, OpenStages
  <2>3. HandOpen' /\ Queue' /\ Onward'
      BY <2>1 DEF VInv, HandOpen, Queue, Settled, Over, Busy, Going, InHand, Onward
  <2> QED
      BY <2>2, <2>3 DEF VInv
<1>3. CASE OnPause
  <2>1. /\ pc = "serve" /\ pc' = "save" /\ after' = "serve" /\ mc'.st = mc.st
        /\ UNCHANGED <<vault, ckpt, idx, evq>>
      BY <1>0, <1>3 DEF OnPause, Take, Persist, ControlUnchanged, Checkpoints
  <2>2. \A a \in Accounts : Verdict(mc, a)'
      BY <2>1 DEF VInv, InMemory, Verdict, Unknown, Verified, Busy
  <2>3. HandOpen' /\ Queue' /\ Onward' /\ OpenStages'
      BY <2>1 DEF VInv, HandOpen, Queue, Settled, Over, Busy, Going, InHand, Onward, OpenStages
  <2> QED
      BY <2>1, <2>2, <2>3, Snapshot DEF Busy
<1>4. CASE OnContinue
  <2>1. /\ pc = "serve" /\ pc' = "save" /\ after' = "serve" /\ UNCHANGED <<vault, ckpt, idx, evq>>
        /\ rs'.stage = "logging_in"
      BY <1>0, <1>4 DEF OnContinue, Take, Persist, ControlUnchanged, Transition, RunStates
  <2>2. mc'.st = RecordStage(mc, idx, "logging_in").st
      BY <1>0, <1>4, <2>1 DEF OnContinue, Persist, RecordStage, Checkpoints
  <2>3. OpenStages' /\ "logging_in" \in Stages \ TerminalStages
      BY <2>1 DEF VInv, OpenStages, Stages, TerminalStages
  <2> QED
      BY <2>1, <2>2, <2>3, Staged DEF Busy, Going, InHand
<1>5. CASE OnIgnoredControl
  <2>1. UNCHANGED <<vault, ckpt, mc, pc, after, idx, rs, evq>>
      BY <1>5 DEF OnIgnoredControl, ControlUnchanged
  <2>2. UNCHANGED Looked /\ OpenStages'
      BY <2>1 DEF Looked, VInv, OpenStages
  <2> QED
      BY <2>2, Aside
<1> QED
    BY <1>1, <1>2, <1>3, <1>4, <1>5 DEF OnRejectedEvent, OnContinueToDeadWorker

(* mark_job_run_error, and marking that fails.                               *)
LEMMA ErrorVerdict ==
    ASSUME TypeInv, VInv, MarkJobRunError \/ MarkingFails
    PROVE  VInv'
<1>1. OpenStages' /\ Onward' /\ UNCHANGED vault /\ pc' = "idle"
    BY DEF MarkJobRunError, MarkingFails, VInv, OpenStages, Onward, pipeVars, diskVars
<1>2. ckpt' \in {ckpt, Blamed(ckpt)}
    BY DEF MarkJobRunError, MarkingFails, diskVars
<1>3. OnDisk'
    BY <1>1, <1>2, Blaming DEF VInv, OnDisk, Verdict, Unknown, Verified
<1> QED
    BY <1>1, <1>3, Released

(* What fails or dies besides: a save, the worker, the application.          *)
LEMMA FaultVerdict ==
    ASSUME TypeInv, VInv, SaveFails \/ VaultSaveFails \/ WorkerDies \/ Crash
    PROVE  VInv'
<1>1. CASE SaveFails \/ VaultSaveFails \/ Crash
  <2>1. OpenStages'
      BY <1>1, Dropping, EmptyRange DEF SaveFails, VaultSaveFails, Crash, OpenStages
  <2>2. Onward' /\ UNCHANGED vault /\ pc' \in {"idle", "error"}
      BY <1>1 DEF SaveFails, VaultSaveFails, Crash, VInv, Onward, diskVars
  <2>3. ckpt' = ckpt \/ (Busy /\ ckpt' = mc)
      BY <1>1 DEF SaveFails, VaultSaveFails, Crash, diskVars, Busy
  <2>4. OnDisk'
      BY <2>2, <2>3 DEF VInv, OnDisk, InMemory, Verdict, Unknown, Verified
  <2> QED
      BY <2>1, <2>2, <2>4, Released
<1>2. CASE WorkerDies
  <2>1. UNCHANGED <<vault, ckpt, mc, pc, after, idx, rs, evq>>
      BY <1>2 DEF WorkerDies, diskVars, taskVars, pipeVars
  <2>2. UNCHANGED Looked /\ OpenStages'
      BY <2>1 DEF Looked, VInv, OpenStages
  <2> QED
      BY <2>2, Aside
<1> QED
    BY <1>1, <1>2

(* The provider's answers and the operator's commands.                       *)
LEMMA OutsideVerdict ==
    ASSUME TypeInv, VInv,
           ProviderAnswers \/ OperatorControl \/ OperatorCancelsInactive \/ ResumeJob
    PROVE  VInv'
<1>0. OpenStages' /\ Onward' /\ UNCHANGED vault /\ ckpt \in Checkpoints
    BY DEF ProviderAnswers, OperatorControl, OperatorCancelsInactive, ResumeJob, VInv,
           OpenStages, Onward, diskVars, pipeVars, TypeInv, DiskType
<1>1. CASE ProviderAnswers \/ OperatorControl
  <2>1. UNCHANGED <<vault, mc, pc, after, idx, rs>> /\ ckpt'.st = ckpt.st
      BY <1>0, <1>1 DEF ProviderAnswers, OperatorControl, diskVars, taskVars, Checkpoints
  <2> QED
      BY <1>0, <2>1, Aside DEF Looked
<1>2. CASE OperatorCancelsInactive
  <2>1. ckpt' = CancelFrom(ckpt, 1, FALSE) /\ pc' = "idle"
      BY <1>2 DEF OperatorCancelsInactive, CancelInactive
  <2>2. \A a \in Accounts : Verdict(CancelFrom(ckpt, 1, FALSE), a)
      BY <1>0, Sweeping DEF VInv, OnDisk
  <2>3. OnDisk'
      BY <1>0, <2>1, <2>2 DEF OnDisk, Verdict, Unknown, Verified
  <2> QED
      BY <1>0, <2>1, <2>3, Released
<1>3. CASE ResumeJob
  <2>1. /\ pc' = "begin" /\ UNCHANGED <<after, idx, mc, rs>>
        /\ \A a \in Accounts : ckpt'.st[a] = IF Over(ckpt, a) THEN ckpt.st[a] ELSE "queued"
      BY <1>0, <1>3 DEF ResumeJob, taskVars, Over, Checkpoints
  <2>2. OnDisk'
      BY <1>0, <2>1 DEF VInv, OnDisk, Verdict, Unknown, Verified
  <2>3. DoneInOrder' /\ InMemory' /\ Ahead' /\ Saved' /\ HandOpen'
      BY <2>1 DEF DoneInOrder, InMemory, Ahead, Saved, HandOpen, Busy
  <2>4. Queue'
      BY <2>1 DEF Queue, Settled, Over, Busy
  <2> QED
      BY <1>0, <2>2, <2>3, <2>4 DEF VInv
<1> QED
    BY <1>1, <1>2, <1>3

(* The worker's reports are no verdicts.                                     *)
LEMMA Reporting ==
    ASSUME TypeInv, VInv, NEW es \in Seq(Events), NEW next, Emit(es, next),
           \A e \in Range(es) : e.kind = "stage" => e.arg \notin TerminalStages
    PROVE  OpenStages'
BY Emitting DEF VInv, OpenStages, TypeInv, PipeType

(* A line that a worker sends.                                               *)
Line(e) == e \in Events /\ (e.kind = "stage" => e.arg \notin TerminalStages)

(* The lines of runAccountFlow.                                              *)
LEMMA Lines ==
    /\ \A st \in {"logging_in", "changing_password", "verifying_new_password",
                  "submitting_totp", "waiting_manual"} : Line(StageEvent(st))
    /\ \A k \in {"totp_required", "manual_required", "password_submit_required",
                 "password_changed", "verified"} : Line(Event(k))
    /\ \A c \in Codes : Line(FailedEvent(c))
BY DEF Line, StageEvent, Event, FailedEvent, Events, Stages, TerminalStages

(* One line, and two lines, on the worker's stdout.                          *)
LEMMA Sending ==
    ASSUME TypeInv, VInv, NEW x, NEW y, NEW next, Line(x), Line(y),
           Emit(<<x>>, next) \/ Emit(<<x, y>>, next)
    PROVE  OpenStages'
<1>1. x \in Events /\ y \in Events
    BY DEF Line
<1>2. /\ <<x>> \in Seq(Events) /\ Range(<<x>>) = {x}
      /\ <<x, y>> \in Seq(Events) /\ Range(<<x, y>>) = {x, y}
    BY <1>1, OneRange, TwoRange
<1> QED
    BY <1>2, Reporting DEF Line

(* The steps of the worker.                                                  *)
LEMMA WorkerVerdict ==
    ASSUME TypeInv, IInv, VInv, Worker
    PROVE  VInv'
<1>1. UNCHANGED <<vault, ckpt, mc, pc, after, idx, rs>>
    BY DEF Worker, WorkerUnchanged, WorkerStart, WorkerSignedIn, WorkerAsksTotp,
       WorkerAsksManual, WorkerAsksSubmit, WorkerSubmits, WorkerSeesChange, WorkerLogsOut,
       WorkerVerifies, WorkerFails, WorkerReceives, diskVars, taskVars
<1>2. OpenStages'
  <2>1. CASE WorkerStart \/ WorkerLogsOut \/ WorkerSignedIn
      BY <2>1, Sending, Lines DEF WorkerStart, WorkerLogsOut, WorkerSignedIn
  <2>2. CASE WorkerAsksTotp \/ WorkerAsksManual
      BY <2>2, Sending, Lines DEF WorkerAsksTotp, WorkerAsksManual
  <2>3. CASE WorkerAsksSubmit \/ WorkerSeesChange \/ WorkerVerifies
      BY <2>3, Sending, Lines DEF WorkerAsksSubmit, WorkerSeesChange, WorkerVerifies
  <2>4. CASE WorkerFails
      BY <2>4, Sending, Lines DEF WorkerFails, WorkerCode, Codes
  <2>5. CASE WorkerReceives
    <3>1. evq' = evq \/ \E c \in Codes : Emit(<<FailedEvent(c)>>, "out")
        BY <2>5 DEF WorkerReceives, Codes
    <3> QED
        BY <3>1, Sending, Lines DEF VInv, OpenStages
  <2>6. CASE WorkerSubmits
      BY <2>6 DEF WorkerSubmits, VInv, OpenStages
  <2> QED
      BY <2>1, <2>2, <2>3, <2>4, <2>5, <2>6 DEF Worker
<1> QED
    BY <1>1, <1>2, Aside DEF Looked

-----------------------------------------------------------------------------
(* The invariant holds at first.                                             *)
LEMMA VerdictInit == Init => VInv
<1> SUFFICES ASSUME Init PROVE VInv
    OBVIOUS
<1>1. OnDisk /\ DoneInOrder /\ InMemory /\ Ahead /\ Saved /\ HandOpen /\ Queue
    BY DEF Init, OnDisk, Verdict, DoneInOrder, InMemory, Ahead, Saved, HandOpen, Queue,
       Settled, Busy, TerminalStages
<1>2. OpenStages /\ Onward
    BY EmptyRange DEF Init, OpenStages, Onward
<1> QED
    BY <1>1, <1>2 DEF VInv

(* Every step keeps it.                                                      *)
LEMMA VerdictStep == TypeInv /\ IInv /\ VInv /\ [Next]_vars => VInv'
<1> SUFFICES ASSUME TypeInv, IInv, VInv, [Next]_vars PROVE VInv'
    OBVIOUS
<1>1. CASE UNCHANGED vars
    BY <1>1, Aside DEF vars, diskVars, taskVars, pipeVars, Looked, VInv, OpenStages
<1>2. CASE Coordinator
    BY <1>2, BatchVerdict, AttemptVerdict, FinishVerdict, EventVerdict, SuccessVerdict,
       EndingVerdict, ControlVerdict, ErrorVerdict DEF Coordinator
<1>3. CASE Worker
    BY <1>3, WorkerVerdict
<1>4. CASE Next /\ ~Coordinator /\ ~Worker
    BY <1>4, EndingVerdict, ErrorVerdict, FaultVerdict, OutsideVerdict DEF Next
<1> QED
    BY <1>1, <1>2, <1>3, <1>4

(* A verdict that is on disk stays there.                                    *)
LEMMA FinalStep ==
    ASSUME TypeInv, VInv, [Next]_vars
    PROVE  \A a \in Accounts : Over(ckpt, a) => ckpt'.st[a] = ckpt.st[a]
<1>0. ckpt \in Checkpoints
    BY DEF TypeInv, DiskType
<1>1. CASE SaveCheckpoint \/ SaveFails
    BY <1>1 DEF SaveCheckpoint, SaveFails, VInv, Ahead, Busy
<1>2. CASE MarkJobRunError
    BY <1>2, Blaming DEF MarkJobRunError, VInv
<1>3. CASE OperatorCancelsInactive
  <2>1. ckpt' = CancelFrom(ckpt, 1, FALSE)
      BY <1>3 DEF OperatorCancelsInactive, CancelInactive
  <2>2. \A a \in Accounts : Verdict(ckpt, a)
      BY DEF VInv, OnDisk
  <2>3. \A a \in Accounts :
           /\ CancelFrom(ckpt, 1, FALSE).st[a] \in
                 {ckpt.st[a], IF Unknown(a) THEN "critical" ELSE "cancelled"}
           /\ Over(ckpt, a) => CancelFrom(ckpt, 1, FALSE).st[a] = ckpt.st[a]
           /\ Verdict(CancelFrom(ckpt, 1, FALSE), a)
      BY <1>0, <2>2, Sweeping
  <2> QED
      BY <2>1, <2>3
<1>4. CASE OperatorControl \/ ResumeJob
    BY <1>0, <1>4 DEF OperatorControl, ResumeJob, Over, Checkpoints
<1>5. CASE Coordinator /\ ~SaveCheckpoint /\ ~MarkJobRunError
  <2>1. ckpt' = ckpt
      BY <1>5 DEF Coordinator, Begin, SkipAccount, CancelBetweenAccounts, TakeAccount,
         FinishBatch, ProxyAssigned, ProxyFails, Launch, LaunchFails, SpawnWorker, OnStage,
         OnTotpRequired, OnManualRequired, OnSubmitRequired, OnPasswordChanged, OnVerified,
         OnFailed, OnEndOfStream, OnRejectedEvent, SendTotp, SendSubmit, OnPause, OnContinue,
         OnContinueToDeadWorker, OnMarkFailed, OnCancel, OnIgnoredControl, Finish, Raise, Send,
         ServeUnchanged, ControlUnchanged, diskVars
  <2> QED
      BY <2>1
<1>6. CASE Worker
    BY <1>6 DEF Worker, WorkerUnchanged, WorkerStart, WorkerSignedIn, WorkerAsksTotp,
       WorkerAsksManual, WorkerAsksSubmit, WorkerSubmits, WorkerSeesChange, WorkerLogsOut,
       WorkerVerifies, WorkerFails, WorkerReceives, diskVars
<1>7. CASE \/ ProviderAnswers \/ VaultSaveFails \/ OnBadLine \/ MarkingFails \/ WorkerDies
           \/ Crash \/ UNCHANGED vars
    BY <1>7 DEF ProviderAnswers, VaultSaveFails, OnBadLine, MarkingFails, WorkerDies, Crash,
       vars, diskVars
<1> QED
    BY <1>1, <1>2, <1>3, <1>4, <1>5, <1>6, <1>7 DEF Next

(* A worker is started only by SpawnWorker, and then nothing is unknown.     *)
LEMMA StartStep ==
    ASSUME TypeInv, IInv, VInv, [Next]_vars, wpc' = "start", wpc # "start"
    PROVE  \A a \in Accounts : vault[a].pstate # "unknown" /\ ckpt.st[a] # "critical"
<1>1. CASE SpawnWorker
  <2>1. \A a \in Accounts : ~Unknown(a)
      BY <1>1 DEF SpawnWorker, IInv, OneUnknown, Going
  <2> QED
      BY <2>1 DEF Unknown, VInv, OnDisk, Verdict
<1>2. CASE Worker
  <2>1. wpc \in {"totp", "manual"} => wback # "start"
      BY DEF IInv, Place
  <2> QED
      BY <1>2, <2>1 DEF Worker, WorkerStart, WorkerSignedIn, WorkerAsksTotp,
         WorkerAsksManual, WorkerAsksSubmit, WorkerSubmits, WorkerSeesChange, WorkerLogsOut,
         WorkerVerifies, WorkerFails, WorkerReceives, Emit, Expected
<1>3. CASE Next /\ ~SpawnWorker /\ ~Worker
  <2>1. wpc' \in {wpc, "out"}
      BY <1>3 DEF Next, Coordinator, Begin, SaveCheckpoint, SkipAccount,
         CancelBetweenAccounts, TakeAccount, FinishBatch, ProxyAssigned, ProxyFails, Launch,
         LaunchFails, OnStage, OnTotpRequired, OnManualRequired, OnSubmitRequired,
         OnPasswordChanged, OnVerified, OnFailed, OnEndOfStream, OnRejectedEvent, SendTotp,
         SendSubmit, OnPause, OnContinue, OnContinueToDeadWorker, OnMarkFailed, OnCancel,
         OnIgnoredControl, Finish, MarkJobRunError, ProviderAnswers, SaveFails,
         VaultSaveFails, OnBadLine, MarkingFails, WorkerDies, Crash, OperatorControl,
         OperatorCancelsInactive, ResumeJob, Raise, Send, ServeUnchanged, ControlUnchanged,
         DropSession, workerVars
  <2> QED
      BY <2>1
<1>4. CASE UNCHANGED vars
    BY <1>4 DEF vars, workerVars
<1> QED
    BY <1>1, <1>2, <1>3, <1>4

-----------------------------------------------------------------------------
(* The invariant holds throughout.                                           *)
THEOREM Verdicts == Spec => [](TypeInv /\ IInv /\ VInv)
<1>1. Init => VInv
    BY VerdictInit
<1>2. TypeInv /\ IInv /\ VInv /\ [Next]_vars => VInv'
    BY VerdictStep
<1> QED
    BY <1>1, <1>2, Safety, PTL DEF Spec

(* Whichever of the two files a crash or a failed save left behind, what the *)
(* checkpoint says of a finished account is what the vault says of its       *)
(* password (persist_snapshot, mark_job_run_error, the cancellation sweep).  *)
THEOREM Truthful == Spec => []VerdictMatchesVault
<1>1. VInv => VerdictMatchesVault
    BY DEF VInv, OnDisk, Verdict, Verified, Unknown, VerdictMatchesVault
<1> QED
    BY <1>1, Verdicts, PTL

(* run_batch goes on to an account when every earlier one is over on disk.   *)
THEOREM InOrder == Spec => []DoneInOrder
<1>1. VInv => DoneInOrder
    BY DEF VInv
<1> QED
    BY <1>1, Verdicts, PTL

(* No crash, resume, cancellation or coordinator error changes a verdict.    *)
THEOREM Final == Spec => TerminalIsFinal
<1>1. TypeInv /\ IInv /\ VInv /\ [Next]_vars =>
          [\A a \in Accounts : ckpt.st[a] \in TerminalStages => ckpt'.st[a] = ckpt.st[a]]_vars
    BY FinalStep DEF Over
<1> QED
    BY <1>1, Verdicts, PTL DEF Spec, TerminalIsFinal

(* A critical account stops the batch: no worker starts beside an unknown    *)
(* password, in this run or after a resume.                                  *)
THEOREM Stops == Spec => CriticalStopsBatch
<1>1. TypeInv /\ IInv /\ VInv /\ [Next]_vars =>
          [wpc' = "start" /\ wpc # "start" =>
               \A a \in Accounts : vault[a].pstate # "unknown" /\ ckpt.st[a] # "critical"]_vars
    BY StartStep
<1> QED
    BY <1>1, Verdicts, PTL DEF Spec, CriticalStopsBatch

-----------------------------------------------------------------------------
(***************************************************************************)
(* Coordinator and worker never wait for each other: the inductive           *)
(* invariant behind NobodyForgotten, and its proof.                          *)
(*                                                                           *)
(* A request that the worker waits on is somewhere: in its stdout, with the  *)
(* coordinator, which saves a snapshot before it answers (Going), or the     *)
(* answer is in the worker's stdin.  CommandControl drops a command only if  *)
(* the worker waits for another one, or for none.                            *)
(***************************************************************************)

(* A request on its way, being answered, or answered.                        *)
Pending(request, handling, answer) == Reported(request) \/ handling \/ Told(answer)

AtTotp == wpc = "totp" => Pending("totp_required", Going = "send_totp", "totp_code")

AtSubmit == wpc = "authorize" =>
    Pending("password_submit_required", Going = "send_submit", "submit_password")

AtManual == wpc = "manual" => Pending("manual_required", waiting, "resume")

Heard == linked /\ Going \in AtWork => AtTotp /\ AtSubmit /\ AtManual

-----------------------------------------------------------------------------
(* No session, or one that is about to end: nothing to show.                 *)
LEMMA NotListening ==
    ASSUME ~linked' \/ Going' \notin AtWork
    PROVE  Heard'
BY DEF Heard

(* A step that loses no message and keeps the coordinator where it is.       *)
LEMMA NothingLost ==
    ASSUME Heard, linked' => linked, wpc' \in {wpc, "out"},
           Range(evq) \subseteq Range(evq'), Range(cmdq) \subseteq Range(cmdq'),
           waiting => waiting', Going' = Going
    PROVE  Heard'
BY DEF Heard, AtTotp, AtSubmit, AtManual, Pending, Reported, Told

(* What reading a queue takes out of it.                                     *)
LEMMA TakenOut ==
    ASSUME NEW S, NEW s \in Seq(S), s # <<>>
    PROVE  Range(s) = {Head(s)} \cup Range(Tail(s))
<1>1. s = <<Head(s)>> \o Tail(s) /\ Tail(s) \in Seq(S) /\ Head(s) \in S
    BY HeadTailProperties, EmptySeq
<1>2. <<Head(s)>> \in Seq(S) /\ Range(<<Head(s)>>) = {Head(s)}
    BY <1>1, OneRange
<1>3. Range(<<Head(s)>> \o Tail(s)) = Range(<<Head(s)>>) \cup Range(Tail(s))
  <2>1. \A t, u \in Seq(S) : Range(t \o u) = Range(t) \cup Range(u)
      BY RangeConcatenation
  <2> QED
      BY <1>1, <1>2, <2>1
<1> QED
    BY <1>1, <1>2, <1>3

(* The worker writes: a wait is announced before it begins.                  *)
LEMMA Announced ==
    ASSUME TypeInv, Heard, NEW es \in Seq(Events), NEW next, Emit(es, next),
           UNCHANGED <<cmdq, waiting, pc, after, linked>>,
           next = "totp" => Event("totp_required") \in Range(es),
           next = "authorize" => Event("password_submit_required") \in Range(es),
           next = "manual" => Event("manual_required") \in Range(es)
    PROVE  Heard'
<1>1. CASE linked
  <2>1. wpc' = next /\ Range(evq') = Range(evq) \cup Range(es)
      BY <1>1, Emitting
  <2> QED
      BY <2>1 DEF Heard, AtTotp, AtSubmit, AtManual, Pending, Reported
<1>2. CASE ~linked
    BY <1>2 DEF Heard
<1> QED
    BY <1>1, <1>2

(* The coordinator reads an event: a request it takes out, it handles.       *)
LEMMA Taken ==
    ASSUME TypeInv, Heard, pc = "serve", evq # <<>>, evq' = Tail(evq),
           UNCHANGED <<cmdq, wpc, linked>>, Going' \in AtWork, waiting => waiting',
           Head(evq) = Event("totp_required") => Going' = "send_totp",
           Head(evq) = Event("password_submit_required") => Going' = "send_submit",
           Head(evq) = Event("manual_required") => waiting'
    PROVE  Heard'
<1>1. Range(evq) = {Head(evq)} \cup Range(evq')
    BY TakenOut DEF TypeInv, PipeType
<1>2. Going = "serve"
    BY DEF Going
<1>3. \A k : Reported(k) => Reported(k)' \/ Head(evq) = Event(k)
    BY <1>1 DEF Reported
<1>4. linked' => AtTotp /\ AtSubmit /\ AtManual
    BY <1>2 DEF Heard, AtWork
<1>5. linked' => AtTotp'
    BY <1>2, <1>3, <1>4 DEF AtTotp, Pending, Told
<1>6. linked' => AtSubmit'
    BY <1>2, <1>3, <1>4 DEF AtSubmit, Pending, Told
<1>7. linked' => AtManual'
    BY <1>2, <1>3, <1>4 DEF AtManual, Pending, Told
<1> QED
    BY <1>5, <1>6, <1>7 DEF Heard

(* The coordinator answers: what it was handling is in the worker's stdin.   *)
LEMMA Answered ==
    ASSUME TypeInv, Heard, NEW c \in Commands, cmdq' = Append(cmdq, c),
           UNCHANGED <<evq, wpc, linked>>,
           Going' \in AtWork => Going \in AtWork,
           Going = "send_totp" => c = "totp_code" \/ Going' = Going,
           Going = "send_submit" => c = "submit_password" \/ Going' = Going,
           waiting => waiting' \/ c = "resume"
    PROVE  Heard'
<1>1. Range(cmdq') = Range(cmdq) \cup {c}
    BY AppendRange DEF TypeInv, PipeType
<1>2. \A k : Told(k)' <=> Told(k) \/ k = c
    BY <1>1 DEF Told
<1>3. \A k : Reported(k)' <=> Reported(k)
    BY DEF Reported
<1> QED
    BY <1>2, <1>3 DEF Heard, AtTotp, AtSubmit, AtManual, Pending

-----------------------------------------------------------------------------
(* Every step keeps the invariant.                                           *)

(* run_batch and process_account up to the running worker, and what ends it. *)
LEMMA BatchHeard ==
    ASSUME TypeInv, IInv, Heard,
           \/ Begin \/ SaveCheckpoint \/ SkipAccount \/ CancelBetweenAccounts
           \/ TakeAccount \/ FinishBatch \/ Finish \/ MarkJobRunError
           \/ ProxyAssigned \/ ProxyFails \/ Launch \/ LaunchFails \/ SpawnWorker
    PROVE  Heard'
<1>1. CASE SaveCheckpoint
    BY <1>1, NothingLost DEF SaveCheckpoint, Going, workerVars, pipeVars
<1>2. CASE SpawnWorker
    BY <1>2 DEF SpawnWorker, Heard, AtTotp, AtSubmit, AtManual
<1>3. CASE Finish
  <2>1. Going' \in {"launch", "idle", "next"}
      BY <1>3 DEF Finish, Persist, Going, TypeInv, HandOK, TerminalStages
  <2> QED
      BY <2>1, NotListening DEF AtWork
<1>4. CASE \/ Begin \/ SkipAccount \/ CancelBetweenAccounts \/ TakeAccount \/ FinishBatch
           \/ MarkJobRunError \/ ProxyAssigned \/ ProxyFails \/ Launch \/ LaunchFails
  <2>1. Going' \notin AtWork
      BY <1>4 DEF Begin, SkipAccount, CancelBetweenAccounts, TakeAccount, FinishBatch,
         MarkJobRunError, ProxyAssigned, ProxyFails, Launch, LaunchFails, Persist, Going, AtWork
  <2> QED
      BY <2>1, NotListening
<1> QED
    BY <1>1, <1>2, <1>3, <1>4

(* The events of the select loop.                                            *)
LEMMA EventHeard ==
    ASSUME TypeInv, IInv, Heard,
           \/ OnStage \/ OnTotpRequired \/ OnManualRequired \/ OnSubmitRequired
           \/ OnPasswordChanged
    PROVE  Heard'
<1>1. /\ pc = "serve" /\ evq # <<>> /\ evq' = Tail(evq) /\ UNCHANGED <<cmdq, wpc, linked>>
      /\ waiting => waiting'
    BY DEF OnStage, OnTotpRequired, OnManualRequired, OnSubmitRequired, OnPasswordChanged,
       Receive, ServeUnchanged, workerVars
<1>2. Going' \in AtWork
    BY DEF OnStage, OnTotpRequired, OnManualRequired, OnSubmitRequired, OnPasswordChanged,
       Persist, Going, AtWork
<1>3. /\ Head(evq).kind = "totp_required" => OnTotpRequired
      /\ Head(evq).kind = "password_submit_required" => OnSubmitRequired
      /\ Head(evq).kind = "manual_required" => OnManualRequired
    BY DEF OnStage, OnTotpRequired, OnManualRequired, OnSubmitRequired, OnPasswordChanged,
       Receive
<1>4. /\ Head(evq) = Event("totp_required") => Going' = "send_totp"
      /\ Head(evq) = Event("password_submit_required") => Going' = "send_submit"
      /\ Head(evq) = Event("manual_required") => waiting'
  <2>1. /\ Event("totp_required").kind = "totp_required"
        /\ Event("password_submit_required").kind = "password_submit_required"
        /\ Event("manual_required").kind = "manual_required"
      BY DEF Event
  <2>2. OnTotpRequired => Going' = "send_totp"
      BY DEF OnTotpRequired, Persist, Going
  <2>3. OnSubmitRequired => Going' = "send_submit"
      BY DEF OnSubmitRequired, Persist, Going
  <2>4. OnManualRequired => waiting'
      BY DEF OnManualRequired
  <2> QED
      BY <1>3, <2>1, <2>2, <2>3, <2>4
<1> QED
    BY <1>1, <1>2, <1>4, Taken

(* What ends the account in hand, or the whole run.                          *)
LEMMA EndHeard ==
    ASSUME TypeInv, IInv, Heard,
           \/ OnVerified \/ OnFailed \/ OnEndOfStream \/ OnBadLine \/ OnMarkFailed \/ OnCancel
           \/ Raise \/ SaveFails \/ VaultSaveFails \/ MarkingFails \/ Crash \/ ResumeJob
    PROVE  Heard'
<1>1. Going' \notin AtWork
    BY DEF OnVerified, OnFailed, OnEndOfStream, OnBadLine, OnMarkFailed, OnCancel, Raise,
       SaveFails, VaultSaveFails, MarkingFails, Crash, ResumeJob, Failure, Retry, EndAccount,
       Persist, Going, AtWork
<1> QED
    BY <1>1, NotListening

(* Sends, and the controls that leave the account in hand.                   *)
LEMMA SendHeard ==
    ASSUME TypeInv, IInv, Heard,
           SendTotp \/ SendSubmit \/ OnPause \/ OnContinue \/ OnIgnoredControl, ~Raise
    PROVE  Heard'
<1>1. CASE SendTotp
    BY <1>1, Answered DEF SendTotp, Send, Going, AtWork, Commands, workerVars, taskVars
<1>2. CASE SendSubmit
    BY <1>2, Answered DEF SendSubmit, Send, Going, AtWork, Commands, workerVars, taskVars
<1>3. CASE OnContinue
    BY <1>3, Answered DEF OnContinue, Take, Persist, ControlUnchanged, Going, AtWork, Commands,
       workerVars
<1>4. CASE OnPause \/ OnIgnoredControl
    BY <1>4, NothingLost DEF OnPause, OnIgnoredControl, Take, Persist, ControlUnchanged, Going,
       workerVars
<1> QED
    BY <1>1, <1>2, <1>3, <1>4

(* The provider's answers, the operator's commands, a worker that dies.      *)
LEMMA OutsideHeard ==
    ASSUME TypeInv, IInv, Heard,
           ProviderAnswers \/ OperatorControl \/ OperatorCancelsInactive \/ WorkerDies
    PROVE  Heard'
BY NothingLost DEF ProviderAnswers, OperatorControl, OperatorCancelsInactive, WorkerDies, Going,
   workerVars, pipeVars, taskVars

(* CommandControl.push.                                                      *)
LEMMA ReceiveHeard ==
    ASSUME TypeInv, IInv, Heard, WorkerReceives
    PROVE  Heard'
<1>1. /\ cmdq # <<>> /\ cmdq' = Tail(cmdq) /\ UNCHANGED <<waiting, pc, after, linked>>
      /\ Going' = Going
    BY DEF WorkerReceives, WorkerUnchanged, taskVars, Going
<1>2. \A k : Told(k) => Told(k)' \/ Head(cmdq) = k
    BY <1>1, TakenOut DEF Told, TypeInv, PipeType
<1>3. CASE wpc' \notin {"totp", "manual", "authorize"}
    BY <1>3 DEF Heard, AtTotp, AtSubmit, AtManual
<1>4. CASE wpc' \in {"totp", "manual", "authorize"}
  <2>1. wpc' = wpc /\ evq' = evq /\ ~Expected(Head(cmdq)) /\ Head(cmdq) # "cancel"
      BY <1>4 DEF WorkerReceives, Emit, Expected, IInv, Place
  <2>2. \A k : Reported(k)' <=> Reported(k)
      BY <2>1 DEF Reported
  <2>3. /\ wpc = "totp" => Head(cmdq) # "totp_code"
        /\ wpc = "authorize" => Head(cmdq) # "submit_password"
        /\ wpc = "manual" => Head(cmdq) # "resume"
      BY <2>1 DEF Expected
  <2> QED
      BY <1>1, <1>2, <2>1, <2>2, <2>3 DEF Heard, AtTotp, AtSubmit, AtManual, Pending
<1> QED
    BY <1>3, <1>4

(* The steps of the flow.                                                    *)
LEMMA WorkerHeard ==
    ASSUME TypeInv, IInv, Heard, Worker
    PROVE  Heard'
<1>1. UNCHANGED <<waiting, pc, after, linked>>
    BY DEF Worker, WorkerUnchanged, WorkerStart, WorkerSignedIn, WorkerAsksTotp,
       WorkerAsksManual, WorkerAsksSubmit, WorkerSubmits, WorkerSeesChange, WorkerLogsOut,
       WorkerVerifies, WorkerFails, WorkerReceives, taskVars
<1>2. CASE wpc' \notin {"totp", "manual", "authorize"}
    BY <1>2 DEF Heard, AtTotp, AtSubmit, AtManual
<1>3. CASE WorkerAsksTotp
  <2> DEFINE es == <<StageEvent("submitting_totp"), Event("totp_required")>>
  <2>1. StageEvent("submitting_totp") \in Events /\ Event("totp_required") \in Events
      BY Messages DEF Stages
  <2>2. es \in Seq(Events) /\ Event("totp_required") \in Range(es)
      BY <2>1, TwoRange
  <2>3. Emit(es, "totp") /\ UNCHANGED cmdq
      BY <1>3 DEF WorkerAsksTotp
  <2> HIDE DEF es
  <2> QED
      BY <1>1, <2>2, <2>3, Announced
<1>4. CASE WorkerAsksManual
  <2> DEFINE es == <<StageEvent("waiting_manual"), Event("manual_required")>>
  <2>1. StageEvent("waiting_manual") \in Events /\ Event("manual_required") \in Events
      BY Messages DEF Stages
  <2>2. es \in Seq(Events) /\ Event("manual_required") \in Range(es)
      BY <2>1, TwoRange
  <2>3. Emit(es, "manual") /\ UNCHANGED cmdq
      BY <1>4 DEF WorkerAsksManual
  <2> HIDE DEF es
  <2> QED
      BY <1>1, <2>2, <2>3, Announced
<1>5. CASE WorkerAsksSubmit
  <2> DEFINE es == <<Event("password_submit_required")>>
  <2>1. Event("password_submit_required") \in Events
      BY Messages
  <2>2. es \in Seq(Events) /\ Event("password_submit_required") \in Range(es)
      BY <2>1, OneRange
  <2>3. Emit(es, "authorize") /\ UNCHANGED cmdq
      BY <1>5 DEF WorkerAsksSubmit
  <2> HIDE DEF es
  <2> QED
      BY <1>1, <2>2, <2>3, Announced
<1>6. CASE \/ WorkerStart \/ WorkerSignedIn \/ WorkerSubmits \/ WorkerSeesChange
           \/ WorkerLogsOut \/ WorkerVerifies \/ WorkerFails
  <2>1. wpc' \notin {"totp", "manual", "authorize"}
      BY <1>6 DEF WorkerStart, WorkerSignedIn, WorkerSubmits, WorkerSeesChange, WorkerLogsOut,
         WorkerVerifies, WorkerFails, Emit
  <2> QED
      BY <1>2, <2>1
<1> QED
    BY <1>3, <1>4, <1>5, <1>6, ReceiveHeard DEF Worker

(* The invariant is inductive.                                               *)
LEMMA HeardStep == TypeInv /\ IInv /\ Heard /\ [Next]_vars => Heard'
<1> SUFFICES ASSUME TypeInv, IInv, Heard, [Next]_vars PROVE Heard'
    OBVIOUS
<1>1. CASE UNCHANGED vars
    BY <1>1, NothingLost DEF vars, taskVars, workerVars, pipeVars, Going
<1>2. CASE Coordinator
    BY <1>2, BatchHeard, EventHeard, EndHeard, SendHeard
    DEF Coordinator, OnRejectedEvent, OnContinueToDeadWorker
<1>3. CASE Worker
    BY <1>3, WorkerHeard
<1>4. CASE Next /\ ~Coordinator /\ ~Worker
    BY <1>4, EndHeard, OutsideHeard DEF Next
<1> QED
    BY <1>1, <1>2, <1>3, <1>4

-----------------------------------------------------------------------------
(* While the select loop runs, a worker that waits for a code, for the        *)
(* authorization or for Continue is on the coordinator's mind: its request    *)
(* or its answer is in a pipe, or waiting_manual is set.                      *)
THEOREM NobodyWaits == Spec => []NobodyForgotten
<1>1. Init => Heard
    BY DEF Init, Heard
<1>2. TypeInv /\ IInv /\ Heard /\ [Next]_vars => Heard'
    BY HeardStep
<1>3. Heard => NobodyForgotten
    BY DEF Heard, AtTotp, AtSubmit, AtManual, Pending, Reported, Told, Going, AtWork,
       NobodyForgotten
<1> QED
    BY <1>1, <1>2, <1>3, Safety, PTL DEF Spec
=============================================================================
