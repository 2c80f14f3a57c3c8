---------------------------- MODULE AccountState ----------------------------
(***************************************************************************)
(* The per-account state machine of the Account Keeper coordinator          *)
(* (src-tauri/src/account_keeper.rs): the stages an account goes through,   *)
(* what the vault knows about its password, and the two guarded functions   *)
(* that move both, AccountRunState::transition and apply_worker_event.      *)
(*                                                                          *)
(* A run state is [stage, pstate]; a vault record is [current, pending,     *)
(* pstate].  A password is the generation that minted it, a positive number *)
(* (generation 1 is the imported one); NoPassword is Rust's None.           *)
(***************************************************************************)
EXTENDS Naturals

PasswordStates == {"original", "changed", "unknown"}

TerminalStages == {"success", "failed", "critical", "cancelled"}

SecurityStages == {"changing_totp", "verifying_new_totp", "changing_email",
                   "waiting_email_verification", "verifying_new_email"}

Stages == {"queued", "launching", "logging_in", "submitting_totp",
           "changing_password", "verifying_new_password", "waiting_manual"}
            \cup SecurityStages \cup TerminalStages

RunStates == [stage : Stages, pstate : PasswordStates]

NoPassword == 0

Passwords == Nat \ {NoPassword}

VaultRecords == [current : Passwords, pending : Nat, pstate : PasswordStates]

IsVerificationStage(stage) ==
    stage \in {"verifying_new_password", "submitting_totp", "waiting_manual"}

IsLoginVerifiableStage(stage) ==
    stage \in {"logging_in", "submitting_totp", "waiting_manual"}

IsSecurityVerifiableStage(stage) ==
    stage \in SecurityStages \cup {"waiting_manual"}

(* The bail! guards of transition(). *)
CanTransition(rs, ev) ==
    /\ rs.stage \notin TerminalStages
    /\ ev = "Verified" => IsVerificationStage(rs.stage) /\ rs.pstate = "unknown"
    /\ ev = "LoginVerified" => IsLoginVerifiableStage(rs.stage)
    /\ ev = "SecurityVerified" => IsSecurityVerifiableStage(rs.stage)

(* What transition() assigns when its guard lets the event through. *)
(* Mutant: a failure is a known failure whatever the password state.        *)
UnlessUnknown_Known(rs, stage) == stage

UnlessUnknown(rs, stage) == IF rs.pstate = "unknown" THEN "critical" ELSE stage

Transition(rs, ev) ==
    CASE ev = "LaunchStarted" -> [rs EXCEPT !.stage = "launching"]
      [] ev = "TotpRequested" -> [rs EXCEPT !.stage = "submitting_totp"]
      [] ev \in {"PasswordAccepted", "PasswordChanged"} ->
            [stage |-> "verifying_new_password", pstate |-> "unknown"]
      [] ev = "ManualRequired" -> [rs EXCEPT !.stage = "waiting_manual"]
      [] ev = "Resumed" -> [rs EXCEPT !.stage = "logging_in"]
      [] ev = "Verified" -> [stage |-> "success", pstate |-> "changed"]
      [] ev \in {"LoginVerified", "SecurityVerified"} -> [rs EXCEPT !.stage = "success"]
      [] ev = "CredentialStateUnknown" -> [stage |-> "critical", pstate |-> "unknown"]
      [] ev = "Failed" -> [rs EXCEPT !.stage = UnlessUnknown(rs, "failed")]
      [] ev = "Cancelled" -> [rs EXCEPT !.stage = UnlessUnknown(rs, "cancelled")]

-----------------------------------------------------------------------------
(* apply_worker_event and apply_login_verified: the guard, then the run     *)
(* state and the vault record the event leaves behind.  Every event that is *)
(* not named below leaves the vault record alone.                           *)

AcceptsSubmitRequired(rs, v) ==
    /\ rs.pstate # "unknown" /\ v.pstate # "unknown" /\ v.pending = NoPassword
    /\ CanTransition(rs, "PasswordAccepted")

(* Mutant: the state is marked but the attempt is not recorded.             *)
AuthorizedRecord_NoAttempt(v, attempt) == [v EXCEPT !.pstate = "unknown"]

AuthorizedRecord(v, attempt) == [v EXCEPT !.pending = attempt, !.pstate = "unknown"]

AcceptsChanged(rs, v) ==
    /\ rs.pstate = "unknown" /\ v.pstate = "unknown" /\ v.pending # NoPassword
    /\ CanTransition(rs, "PasswordChanged")

AcceptsVerified(rs, v) ==
    /\ v.pstate = "unknown" /\ v.pending # NoPassword
    /\ CanTransition(rs, "Verified")

VerifiedRecord(v) ==
    [current |-> v.pending, pending |-> NoPassword, pstate |-> "changed"]

(* Mutant: a verified login is recorded as a rotation.                      *)
LoginVerifiedRecord_Changed(v) == [v EXCEPT !.pending = NoPassword, !.pstate = "changed"]

LoginVerifiedRecord(v) == [v EXCEPT !.pending = NoPassword, !.pstate = "original"]

(* The transition a Failed{code} event makes. *)
FailureEvent(rs, code) ==
    CASE code = "credential_state_unknown" -> "CredentialStateUnknown"
      [] code = "verification_failed" /\ rs.pstate = "unknown" -> "CredentialStateUnknown"
      [] code = "cancelled" -> "Cancelled"
      [] OTHER -> "Failed"

AfterFailure(rs, code) == Transition(rs, FailureEvent(rs, code))

FailedRecord(v, rs) == [v EXCEPT !.pstate = rs.pstate]
=============================================================================
