-------------------------- MODULE VaultDeskProofs ---------------------------
(***************************************************************************)
(* Theorems about VaultDesk, for any number of accounts, callers, batches   *)
(* and commands.                                                            *)
(*                                                                           *)
(* Nothing locks vault.bin.  What makes its whole-file saves safe is that    *)
(* whoever keeps a copy of it is alone with it (Alone), so that the copy     *)
(* agrees with the file on everything a save could overwrite (BatchCopies,   *)
(* CallCopies); the rest is what each save says of the account in hand.      *)
(***************************************************************************)
EXTENDS VaultDesk, FiniteSetTheorems, TLAPS

(* The variables' types.                                                     *)
BatchRecords ==
    [at : {"off", "spawned", "next", "authorized", "opened", "disabling", "enrolling"},
     job : Jobs \cup {NoJob}, acct : SUBSET Accounts, mem : Vaults, ck : JobFiles]

CallRecords ==
    [at : {"idle", "resolve", "recover", "delete", "connect", "export"},
     acct : SUBSET Accounts, job : Jobs \cup {NoJob}, mem : Vaults, ck : JobFiles,
     left : SUBSET Accounts]

Typed ==
    /\ vault \in Vaults /\ file \in [Jobs -> JobFiles]
    /\ batch \in [Processes -> BatchRecords] /\ call \in [Callers -> CallRecords]
    /\ real \in [Accounts -> 1 .. MaxMinted] /\ minted \in [Accounts -> 1 .. MaxMinted]
    /\ totp \in [Accounts -> [asked : 0 .. MaxMinted, shown : 1 .. MaxMinted]]
    /\ issued \in [Accounts -> Nat] /\ spent \in [Accounts -> SUBSET Nat]
    /\ imported \subseteq Accounts /\ dropped \subseteq Accounts
    /\ work \in WorkloadRecords
    /\ \A p \in Processes : batch[p].at # "off" => batch[p].job \in Jobs
    /\ \A c \in Callers : call[c].at \in {"resolve", "recover"} => call[c].job \in Jobs

(* Commands that keep a copy of the vault do not overlap with anything, and  *)
(* of the two processes one at most starts batches beside other commands.    *)
Solo(w) == ~w.overlap

Careful(w) ==
    w.overlap =>
        /\ w.allowed \cap {"resolve", "recover", "delete", "connect", "export"} = {}
        /\ {"start", "resume"} \cap w.allowed = {} \/ "agent" \notin w.allowed

Hands == {"authorized", "opened", "disabling", "enrolling"}
Lives == Hands \cup {"next"}

Live(p) == batch[p].at \in Lives

(* One batch at most is under way, or one command that keeps a copy.         *)
Alone ==
    /\ Careful(work)
    /\ \A p, q \in Processes : batch[p].at # "off" /\ batch[q].at # "off" => p = q
    /\ \A c \in Callers : call[c].at # "idle" =>
           Solo(work) /\ \A p \in Processes : batch[p].at = "off"
    /\ \A c, d \in Callers : call[c].at # "idle" /\ call[d].at # "idle" => c = d
    /\ \/ Solo(work)
       \/ /\ batch["agent"].at # "off" => "agent" \in work.allowed
          /\ batch["app"].at # "off" => {"start", "resume"} \cap work.allowed # {}

(* The copies agree with the vault on what they may write over it.           *)
Kept == imported \ dropped

Same(r, s) ==
    r.pstate = s.pstate /\ r.current = s.current /\ r.pending = s.pending /\ r.secret = s.secret

BatchCopies ==
    \A p \in Processes : Live(p) =>
        /\ batch[p].mem.change = vault.change
        /\ \A a \in Kept : Same(batch[p].mem.rec[a], vault.rec[a])
        /\ Solo(work) => /\ batch[p].mem = vault /\ batch[p].ck = file[batch[p].job]

CallCopies ==
    \A c \in Callers : call[c].at # "idle" =>
        /\ call[c].mem.change = vault.change /\ call[c].mem.rec = vault.rec
        /\ call[c].left \subseteq call[c].acct
        /\ \A a \in Accounts : \/ call[c].mem.token[a] = vault.token[a]
                               \/ call[c].at = "export" /\ a \in call[c].acct \ call[c].left
        /\ call[c].at = "resolve" => call[c].ck = file[call[c].job]
        /\ call[c].at \in {"resolve", "recover"} =>
               \A a \in call[c].acct : vault.rec[a].pstate = "unknown"

(* What the vault may say of an account whose password and secret the        *)
(* provider has as given.                                                    *)
Held(r, change, password, asked) ==
    /\ \/ r.pstate \in {"original", "changed"} /\ password = r.current
       \/ r.pstate = "unknown" /\ password \in {r.current, r.pending}
    /\ asked \in {None, r.secret, change}
    /\ r.last = "success" => password = r.current /\ asked \in {None, r.secret}

HeldIn(v, kept, password, t) ==
    \A a \in kept : Held(v.rec[a], v.change[a], password[a], t[a].asked)

HeldBy(v) == HeldIn(v, Kept, real, totp)

(* No account that a batch has still to finish is a success already.         *)
OpenOnes ==
    \A p \in Processes :
        /\ Live(p) => \A a \in Open(batch[p].ck) :
               batch[p].mem.rec[a].last # "success" /\ vault.rec[a].last # "success"
        /\ batch[p].at = "spawned" =>
               \A a \in Open(file[batch[p].job]) : vault.rec[a].last # "success"

(* What a worker at a place has of the account in its hands, whose password  *)
(* and secret the provider has as given.                                     *)
Holds(at, r, change, state, password, generated, t) ==
    /\ at \in Hands => state = "changing"
    /\ at = "authorized" =>
          /\ r.pstate = "unknown" /\ r.pending = generated
          /\ password \in {r.current, r.pending} /\ t.asked \in {None, r.secret}
    /\ at \in {"opened", "disabling", "enrolling"} => password = r.current
    /\ at = "enrolling" => change = t.shown

InHand ==
    \A p \in Processes : Live(p) => \A a \in batch[p].acct :
        Holds(batch[p].at, batch[p].mem.rec[a], batch[p].mem.change[a], batch[p].ck.acct[a],
              real[a], minted[a], totp[a])

HeldOnes == HeldBy(vault) /\ \A p \in Processes : Live(p) => HeldBy(batch[p].mem)

CredInv == Typed /\ Alone /\ BatchCopies /\ CallCopies /\ OpenOnes /\ InHand /\ HeldOnes

(* No job file is written before its job.                                    *)
Fresh ==
    /\ \A j \in Jobs : j > MaxJobs - work.jobs => file[j] = NoFile
    /\ \A p \in Processes : batch[p].at # "off" => batch[p].job <= MaxJobs - work.jobs

(* An account that a batch has not begun is of a known password.             *)
QueuedKnown ==
    \A p \in Processes :
        /\ Live(p) => \A a \in Accounts :
             batch[p].ck.acct[a] = "queued" => vault.rec[a].pstate # "unknown"
        /\ batch[p].at = "spawned" => \A a \in Accounts :
             file[batch[p].job].acct[a] = "queued" => vault.rec[a].pstate # "unknown"
        /\ batch[p].at \in {"opened", "disabling", "enrolling"} =>
             \A a \in batch[p].acct : vault.rec[a].pstate # "unknown"

Ways == {"critical", "changing", "queued"}

WayBack ==
    \A a \in Accounts : vault.rec[a].pstate = "unknown" => \E j \in Jobs : file[j].acct[a] \in Ways

Ordered(w) == Solo(w) /\ "abandon" \notin w.allowed

BackInv == Ordered(work) => Fresh /\ QueuedKnown /\ WayBack

(* Whoever waits has newer Codex tokens than the vault, or the same.          *)
TokenInv ==
    Solo(work) =>
        /\ \A a \in Accounts : vault.rec[a] # NoRecord => a \in imported
        /\ Cardinality(imported) <= work.accounts
        /\ \A a \in Accounts : vault.token[a] <= issued[a]
        /\ \A c \in Callers : call[c].at # "idle" => \A a \in Accounts :
               vault.token[a] <= call[c].mem.token[a] /\ call[c].mem.token[a] <= issued[a]

(* An export is cut off by no crash, and by no refusal of a refresh after     *)
(* another was granted.                                                      *)
Refreshing(w) ==
    "export" \in w.allowed => w.crashes = 0 /\ ("refuse" \notin w.allowed \/ w.accounts <= 1)

Exporting(c, a) == call[c].at = "export" /\ a \in call[c].acct \ call[c].left

SpentInv ==
    /\ Refreshing(work)
    /\ "export" \notin work.allowed =>
          /\ \A a \in Accounts : spent[a] = {}
          /\ \A c \in Callers : call[c].at # "export"
    /\ \A a \in Accounts : \A n \in spent[a] : n # None /\ n <= issued[a]
    /\ \A a \in Accounts : vault.token[a] \in spent[a] => \E c \in Callers : Exporting(c, a)
    /\ \A c \in Callers : call[c].at = "export" =>
          /\ call[c].acct \subseteq imported
          /\ \A a \in call[c].left : call[c].mem.token[a] # None
          /\ \A a \in Accounts : call[c].mem.token[a] \notin spent[a]

-----------------------------------------------------------------------------
(* The operators' results.                                                   *)

LEMMA NumbersTyped ==
    /\ MaxJobs \in Nat /\ MaxMinted \in Nat /\ MaxMinted > 0 /\ Workloads \subseteq WorkloadRecords
    /\ IsFiniteSet(Accounts) /\ NoJob \notin Jobs /\ "app" \in Processes /\ "agent" \in Processes
BY DeskAssumption DEF NoJob, Jobs, Processes

LEMMA NothingTyped ==
    /\ NoRecord \in Records /\ EmptyVault \in Vaults /\ NoFile \in JobFiles
    /\ Off \in BatchRecords /\ Idle \in CallRecords
    /\ Off.at = "off" /\ Idle.at = "idle" /\ NoFile.status = "none"
    /\ NoRecord.pstate = "none" /\ NoRecord.last = "none" /\ NoRecord.current = None
    /\ \A a \in Accounts : NoFile.acct[a] = "none"
<1>1. NoRecord \in Records
  BY NumbersTyped DEF NoRecord, Records, None
<1>2. EmptyVault \in Vaults /\ NoFile \in JobFiles
  BY <1>1, NumbersTyped DEF EmptyVault, Vaults, NoFile, JobFiles, None
<1> QED BY <1>1, <1>2 DEF NoRecord, NoFile, Off, Idle, BatchRecords, CallRecords

LEMMA VaultFields ==
    ASSUME NEW v \in Vaults
    PROVE  /\ v.rec \in [Accounts -> Records] /\ v.token \in [Accounts -> Nat]
           /\ v.change \in [Accounts -> 0 .. MaxMinted]
           /\ v = [rec |-> v.rec, token |-> v.token, change |-> v.change]
BY DEF Vaults

(* Records that a worker's event leaves.                                     *)
LEMMA VerifiedRecord ==
    ASSUME NEW r \in Records, NEW w,
           w = [r EXCEPT !.pstate = "changed", !.current = r.pending, !.pending = None,
                         !.seen = TRUE, !.last = "success"]
    PROVE  /\ w \in Records /\ w.pstate = "changed" /\ w.current = r.pending
           /\ w.secret = r.secret /\ w.last = "success" /\ w # NoRecord
<1>1. None \in 0 .. MaxMinted /\ r.pending \in 0 .. MaxMinted
  BY NumbersTyped DEF None, Records
<1>2. /\ w.pstate = "changed" /\ w.current = r.pending /\ w.pending = None /\ w.secret = r.secret
      /\ w.seen = TRUE /\ w.last = "success" /\ w.job = r.job
  BY DEF Records
<1>3. w \in Records
  BY <1>1 DEF Records
<1> QED BY <1>2, <1>3 DEF NoRecord

LEMMA StatusRecord ==
    ASSUME NEW r \in Records, NEW last \in {"failed", "critical", "security_state_unknown"},
           NEW w, w = [r EXCEPT !.last = last]
    PROVE  w \in Records /\ Same(w, r) /\ w.last = last /\ w # NoRecord
BY DEF Records, Same, NoRecord

(* A vault with another record of an account.                                *)
LEMMA RecordSet ==
    ASSUME NEW v \in Vaults, NEW a \in Accounts, NEW r \in Records,
           NEW w, w = [v EXCEPT !.rec[a] = r]
    PROVE  /\ w \in Vaults /\ w.rec[a] = r /\ \A b \in Accounts \ {a} : w.rec[b] = v.rec[b]
           /\ w.token = v.token /\ w.change = v.change
BY VaultFields DEF Vaults

LEMMA RecordsSet ==
    ASSUME NEW v \in Vaults, NEW f \in [Accounts -> Records], NEW w, w = [v EXCEPT !.rec = f]
    PROVE  w \in Vaults /\ w.rec = f /\ w.token = v.token /\ w.change = v.change
BY DEF Vaults

LEMMA AccountSet ==
    ASSUME NEW ck \in JobFiles, NEW a \in Accounts,
           NEW s \in {"queued", "changing"} \cup TerminalStates,
           NEW w, w = [ck EXCEPT !.acct[a] = s]
    PROVE  /\ w \in JobFiles /\ w.acct[a] = s /\ \A b \in Accounts \ {a} : w.acct[b] = ck.acct[b]
           /\ w.op = ck.op /\ w.status = ck.status
BY DEF JobFiles

LEMMA StatusSet ==
    ASSUME NEW ck \in JobFiles,
           NEW s \in {"queued", "running", "completed", "failed", "critical", "cancelled", "paused"},
           NEW w, w = [ck EXCEPT !.status = s]
    PROVE  w \in JobFiles /\ w.acct = ck.acct /\ w.op = ck.op /\ w.status = s
BY DEF JobFiles

LEMMA FinalTyped ==
    ASSUME NEW ck \in JobFiles
    PROVE  FinalStatus(ck) \in {"queued", "running", "completed", "failed", "critical", "cancelled", "paused"}
BY DEF FinalStatus

LEMMA MarkedTyped ==
    ASSUME NEW r \in Records, NEW s \in {"queued", "failed", "critical", "cancelled"}
    PROVE  /\ Marked(r, s) \in Records /\ Same(Marked(r, s), r) /\ Marked(r, s).last # "success"
           /\ Marked(r, s) = NoRecord <=> r = NoRecord
<1>1. CASE r = NoRecord
  BY <1>1, NothingTyped DEF Marked, Same
<1>2. CASE r # NoRecord
  <2> DEFINE m == [r EXCEPT !.last = s]
  <2>1. m \in Records /\ Same(m, r) /\ m.last = s /\ m.last # "none"
    BY DEF Records, Same
  <2>2. Marked(r, s) = m
    BY <1>2 DEF Marked
  <2> QED BY <1>2, <2>1, <2>2, NothingTyped
<1> QED BY <1>1, <1>2

(* What is held is held whatever else a record of the same password says.    *)
LEMMA HeldSame ==
    ASSUME NEW r, NEW s, Same(r, s), r.last # "success", NEW ch, NEW pw, NEW ask,
           Held(s, ch, pw, ask)
    PROVE  Held(r, ch, pw, ask)
BY DEF Held, Same

LEMMA SoundHeld ==
    HeldBy(vault) => Recoverable /\ SecretKept /\ SuccessSignsIn
BY DEF HeldBy, HeldIn, Held, Recoverable, SecretKept, SuccessSignsIn, Accepted, Kept

-----------------------------------------------------------------------------
(* A batch writes its copies.                                                *)

ProviderTyped ==
    /\ real \in [Accounts -> 1 .. MaxMinted] /\ minted \in [Accounts -> 1 .. MaxMinted]
    /\ totp \in [Accounts -> [asked : 0 .. MaxMinted, shown : 1 .. MaxMinted]]
    /\ issued \in [Accounts -> Nat] /\ spent \in [Accounts -> SUBSET Nat]

LEMMA ProviderStays == ASSUME Typed, UNCHANGED provider PROVE ProviderTyped'
BY DEF Typed, ProviderTyped, provider

LEMMA WorkStays ==
    ASSUME Typed, Alone, work' = work PROVE work' \in WorkloadRecords /\ Careful(work') /\ Solo(work') = Solo(work)
BY DEF Typed, Alone

(* The batch writes copies of their types.                                   *)
Persists(p, at, acct, mem, ck) ==
    /\ p \in Processes /\ batch[p].at # "off"
    /\ at \in Lives \cup {"off"} /\ acct \in SUBSET Accounts /\ mem \in Vaults /\ ck \in JobFiles
    /\ Persist(p, at, acct, mem, ck)

LEMMA PersistMoves ==
    ASSUME Typed, NEW p, NEW at, NEW acct, NEW mem, NEW ck, Persists(p, at, acct, mem, ck)
    PROVE  /\ batch' \in [Processes -> BatchRecords] /\ file' \in [Jobs -> JobFiles]
           /\ vault' = mem /\ batch[p].job \in Jobs /\ file'[batch[p].job] = ck
           /\ \A j \in Jobs \ {batch[p].job} : file'[j] = file[j]
           /\ \A q \in Processes \ {p} : batch'[q] = batch[q]
           /\ batch'[p].at = at
           /\ at # "off" => /\ batch'[p].job = batch[p].job /\ batch'[p].acct = acct
                            /\ batch'[p].mem = mem /\ batch'[p].ck = ck
           /\ call' = call /\ imported' = imported /\ dropped' = dropped /\ work' = work
<1> DEFINE b == [batch[p] EXCEPT !.at = at, !.acct = acct, !.mem = mem, !.ck = ck]
           d == IF at = "off" THEN Off ELSE b
           j == batch[p].job
<1> /\ p \in Processes /\ batch[p].at # "off" /\ at \in Lives \cup {"off"}
    /\ acct \in SUBSET Accounts /\ mem \in Vaults /\ ck \in JobFiles
  BY DEF Persists
<1>1. batch[p] \in BatchRecords /\ j \in Jobs
  BY DEF Typed
<1>2. /\ b \in BatchRecords /\ b.at = at /\ b.job = j /\ b.acct = acct /\ b.mem = mem
      /\ b.ck = ck
  BY <1>1 DEF BatchRecords, Lives, Hands
<1>3. /\ vault' = mem /\ file' = [file EXCEPT ![j] = ck] /\ batch' = [batch EXCEPT ![p] = d]
      /\ call' = call /\ imported' = imported /\ dropped' = dropped /\ work' = work
  BY DEF Persists, Persist, history
<1> HIDE DEF b, j
<1>4. d \in BatchRecords /\ d.at = at /\ (at # "off" => d = b)
  BY <1>2, NothingTyped
<1> HIDE DEF d
<1>5. batch' \in [Processes -> BatchRecords] /\ batch'[p] = d /\ \A q \in Processes \ {p} : batch'[q] = batch[q]
  BY <1>3, <1>4 DEF Typed
<1>6. file' \in [Jobs -> JobFiles] /\ file'[j] = ck /\ \A i \in Jobs \ {j} : file'[i] = file[i]
  BY <1>1, <1>3 DEF Typed
<1> QED BY <1>1, <1>2, <1>3, <1>4, <1>5, <1>6 DEF j

(* The batch writes these copies, which are sound.                           *)
Writes(p, at, acct, mem, ck) ==
    /\ Persists(p, at, acct, mem, ck) /\ ProviderTyped'
    /\ HeldIn(mem, Kept, real', totp')
    /\ at # "off" => \A a \in Open(ck) : mem.rec[a].last # "success"
    /\ \A a \in acct :
          Holds(at, mem.rec[a], mem.change[a], ck.acct[a], real'[a], minted'[a], totp'[a])

LEMMA WritesKeep ==
    ASSUME CredInv, NEW p, NEW at, NEW acct, NEW mem, NEW ck, Writes(p, at, acct, mem, ck)
    PROVE  CredInv'
<1>1. /\ Typed /\ Alone /\ Persists(p, at, acct, mem, ck) /\ p \in Processes
      /\ batch[p].at # "off" /\ mem \in Vaults
  BY DEF CredInv, Writes, Persists
<1>2. /\ batch' \in [Processes -> BatchRecords] /\ file' \in [Jobs -> JobFiles]
      /\ vault' = mem /\ batch[p].job \in Jobs /\ file'[batch[p].job] = ck
      /\ \A q \in Processes \ {p} : batch'[q] = batch[q]
      /\ batch'[p].at = at
      /\ at # "off" => /\ batch'[p].job = batch[p].job /\ batch'[p].acct = acct
                       /\ batch'[p].mem = mem /\ batch'[p].ck = ck
      /\ call' = call /\ imported' = imported /\ dropped' = dropped /\ work' = work
  BY <1>1, PersistMoves
<1> p \in Processes /\ batch[p].at # "off" /\ mem \in Vaults
  BY <1>1
<1>3. \A q \in Processes \ {p} : batch'[q].at = "off"
  BY <1>1, <1>2 DEF Alone
<1>4. \A c \in Callers : call'[c].at = "idle"
  BY <1>1, <1>2 DEF Alone
<1>5. Typed'
  BY <1>1, <1>2, <1>3 DEF Typed, ProviderTyped, Writes
<1>6. Alone'
  <2>1. Careful(work') /\ Solo(work') = Solo(work) /\ work' = work
    BY <1>1, <1>2, WorkStays
  <2>2. \A q \in Processes : batch'[q].at # "off" => q = p /\ batch[q].at # "off"
    BY <1>2, <1>3
  <2>3. /\ batch'["agent"].at # "off" => batch["agent"].at # "off"
        /\ batch'["app"].at # "off" => batch["app"].at # "off"
    BY <2>2 DEF Processes
  <2> QED BY <1>1, <1>4, <2>1, <2>2, <2>3 DEF Alone
<1>7. \A q \in Processes : Live(q)' => q = p /\ at # "off"
  BY <1>2, <1>3 DEF Live, Lives, Hands
<1>8. BatchCopies'
  BY <1>2, <1>7 DEF BatchCopies, Same
<1>9. CallCopies'
  BY <1>4 DEF CallCopies
<1>10. OpenOnes'
  BY <1>2, <1>3, <1>7 DEF OpenOnes, Lives, Hands, Writes
<1>11. InHand'
  BY <1>2, <1>7 DEF InHand, Writes
<1>12. HeldOnes'
  <2>1. HeldIn(mem, Kept, real', totp') /\ Kept' = Kept
    BY <1>2 DEF Writes, Kept
  <2> QED BY <1>2, <1>7, <2>1 DEF HeldOnes, HeldBy
<1> QED BY <1>5, <1>6, <1>8, <1>9, <1>10, <1>11, <1>12 DEF CredInv

(* What a live batch has.                                                    *)
LEMMA LiveBatch ==
    ASSUME CredInv, NEW p \in Processes, Live(p)
    PROVE  /\ Typed /\ batch[p].at # "off" /\ batch[p].at \in Lives
           /\ batch[p].mem \in Vaults /\ batch[p].ck \in JobFiles
           /\ HeldIn(batch[p].mem, Kept, real, totp) /\ batch[p].acct \subseteq Accounts
           /\ \A a \in Open(batch[p].ck) :
                 batch[p].mem.rec[a].last # "success" /\ vault.rec[a].last # "success"
           /\ \A a \in batch[p].acct :
                 Holds(batch[p].at, batch[p].mem.rec[a], batch[p].mem.change[a],
                       batch[p].ck.acct[a], real[a], minted[a], totp[a])
<1>1. Typed /\ OpenOnes /\ InHand /\ HeldOnes
  BY DEF CredInv
<1>2. batch[p] \in BatchRecords
  BY <1>1 DEF Typed
<1> QED BY <1>1, <1>2 DEF OpenOnes, InHand, HeldOnes, HeldBy, Live, Lives, Hands, BatchRecords

(* The batch has not begun with the account, or not changed its password.     *)
Unbegun(p, a) ==
    \/ batch[p].ck.acct[a] = "queued"
    \/ batch[p].at \in {"opened", "disabling", "enrolling"} /\ a \in batch[p].acct

(* Whom a worker can sign in has a record.                                   *)
LEMMA InHandRecord ==
    ASSUME CredInv, NEW p \in Processes, Live(p), NEW a \in Accounts,
           \/ batch[p].at \in Hands /\ a \in batch[p].acct
           \/ real[a] = batch[p].mem.rec[a].current
    PROVE  batch[p].mem.rec[a] # NoRecord
<1>1. Typed /\ real[a] # None
  BY LiveBatch, NumbersTyped DEF Typed, None
<1>2. CASE real[a] = batch[p].mem.rec[a].current
  BY <1>1, <1>2, NothingTyped
<1>3. CASE batch[p].at \in Hands /\ a \in batch[p].acct
  <2>1. Holds(batch[p].at, batch[p].mem.rec[a], batch[p].mem.change[a],
              batch[p].ck.acct[a], real[a], minted[a], totp[a])
    BY <1>3, LiveBatch
  <2>2. batch[p].mem.rec[a].pstate = "unknown" \/ real[a] = batch[p].mem.rec[a].current
    BY <1>3, <2>1 DEF Holds, Hands
  <2> QED BY <1>2, <2>2, NothingTyped
<1> QED BY <1>2, <1>3

(* The record, the pending change and the verdict of the account in hand are  *)
(* replaced.                                                                 *)
Settles(p, a, r, ch, state, at, acct, mem, ck) ==
    /\ p \in Processes /\ Live(p) /\ ProviderTyped' /\ a \in Accounts
    /\ at \in Lives \cup {"off"} /\ acct \in SUBSET {a} /\ mem \in Vaults /\ ck \in JobFiles
    /\ mem.rec[a] = r /\ mem.change[a] = ch /\ ck.acct[a] = state
    /\ \A b \in Accounts \ {a} : /\ mem.rec[b] = batch[p].mem.rec[b]
                                 /\ mem.change[b] = batch[p].mem.change[b]
                                 /\ ck.acct[b] = batch[p].ck.acct[b]
                                 /\ real'[b] = real[b] /\ totp'[b].asked = totp[b].asked
    /\ Persist(p, at, acct, mem, ck)
    /\ a \in Kept => Held(r, ch, real'[a], totp'[a].asked)
    /\ r.last # "success" \/ state \notin {"queued", "changing"}
    /\ a \in acct => Holds(at, r, ch, state, real'[a], minted'[a], totp'[a])
    /\ mem.token = batch[p].mem.token /\ UNCHANGED <<issued, spent>>
    /\ batch[p].mem.rec[a] # NoRecord /\ state # "queued"
    /\ /\ r.pstate = "unknown"
       /\ state \notin {"critical", "changing"} \/ at \in {"opened", "disabling", "enrolling"}
       => batch[p].mem.rec[a].pstate = "unknown" /\ Unbegun(p, a)

Settling(p) ==
    \E a, r, ch, state, at, acct, mem, ck : Settles(p, a, r, ch, state, at, acct, mem, ck)

LEMMA SettlesKeeps ==
    ASSUME CredInv, NEW p, NEW a, NEW r, NEW ch, NEW state, NEW at, NEW acct, NEW mem, NEW ck,
           Settles(p, a, r, ch, state, at, acct, mem, ck)
    PROVE  CredInv'
<1> p \in Processes /\ Live(p) /\ a \in Accounts
  BY DEF Settles
<1>1. /\ batch[p].at # "off" /\ HeldIn(batch[p].mem, Kept, real, totp) /\ Kept \subseteq Accounts
      /\ \A b \in Open(batch[p].ck) : batch[p].mem.rec[b].last # "success"
  BY LiveBatch DEF Kept, Typed
<1>2. HeldIn(mem, Kept, real', totp')
  <2> SUFFICES ASSUME NEW b \in Kept PROVE Held(mem.rec[b], mem.change[b], real'[b], totp'[b].asked)
    BY DEF HeldIn
  <2>1. CASE b = a
    BY <2>1 DEF Settles
  <2>2. CASE b # a
    <3>1. Held(batch[p].mem.rec[b], batch[p].mem.change[b], real[b], totp[b].asked) /\ b \in Accounts
      BY <1>1 DEF HeldIn
    <3> QED BY <2>2, <3>1 DEF Settles
  <2> QED BY <2>1, <2>2
<1>3. \A b \in Open(ck) : mem.rec[b].last # "success"
  BY <1>1 DEF Open, Settles
<1>4. \A b \in acct : Holds(at, mem.rec[b], mem.change[b], ck.acct[b], real'[b], minted'[b], totp'[b])
  BY DEF Settles
<1>5. Writes(p, at, acct, mem, ck)
  BY <1>1, <1>2, <1>3, <1>4 DEF Writes, Persists, Settles
<1> QED BY <1>5, WritesKeep

LEMMA SettlingKeeps == ASSUME CredInv, NEW p, Settling(p) PROVE CredInv'
BY SettlesKeeps DEF Settling

LEMMA BatchLoadsKeeps ==
    ASSUME CredInv, NEW p \in Processes, BatchLoads(p)
    PROVE  CredInv'
<1> DEFINE j == batch[p].job
           ck == [file[j] EXCEPT !.status = "running"]
<1>1. Typed /\ j \in Jobs /\ batch[p].at = "spawned" /\ file[j] \in JobFiles /\ vault \in Vaults
  BY DEF CredInv, Typed, BatchLoads
<1>2. ck \in JobFiles /\ ck.acct = file[j].acct
  BY <1>1 DEF JobFiles
<1>3. Persist(p, "next", {}, vault, ck) /\ UNCHANGED provider
  BY DEF BatchLoads
<1>4. \A a \in Open(ck) : vault.rec[a].last # "success"
  BY <1>1, <1>2 DEF CredInv, OpenOnes, Open
<1> HIDE DEF j, ck
<1>5. HeldIn(vault, Kept, real', totp')
  BY <1>3 DEF CredInv, HeldOnes, HeldBy, provider
<1>6. ProviderTyped'
  BY <1>1, <1>3, ProviderStays
<1>7. Writes(p, "next", {}, vault, ck)
  BY <1>1, <1>2, <1>3, <1>4, <1>5, <1>6 DEF Writes, Persists, Lives
<1> QED BY <1>7, WritesKeep

LEMMA BatchAuthorizesSettles ==
    ASSUME CredInv, NEW p \in Processes, NEW a \in Accounts, BatchAuthorizes(p, a)
    PROVE  Settling(p)
<1> DEFINE m == batch[p].mem
           ck0 == batch[p].ck
           r0 == m.rec[a]
<1>1. /\ Typed /\ m \in Vaults /\ r0 \in Records /\ ck0 \in JobFiles /\ Live(p)
      /\ HeldIn(m, Kept, real, totp)
  BY LiveBatch DEF Live, Lives, Hands, Vaults, BatchAuthorizes
<1>2. a \in Kept => Held(m.rec[a], m.change[a], real[a], totp[a].asked)
  BY <1>1 DEF HeldIn
<1> DEFINE n == minted[a] + 1
           r == Attempt(r0, n)
           mem == [m EXCEPT !.rec[a] = r]
           ck == [ck0 EXCEPT !.acct[a] = "changing"]
<1>3. n \in 1 .. MaxMinted /\ minted' = [minted EXCEPT ![a] = n]
  BY <1>1, NumbersTyped DEF Typed, BatchAuthorizes
<1>4. /\ Persist(p, "authorized", {a}, mem, ck)
      /\ UNCHANGED <<real, totp, issued, spent>>
      /\ ck0.acct[a] = "queued" /\ real[a] = r0.current /\ totp[a].asked \in {None, r0.secret}
  BY DEF BatchAuthorizes, Settled, Accepted
<1> HIDE DEF n
<1>5. r = [r0 EXCEPT !.pstate = "unknown", !.pending = n] /\ n \in 0 .. MaxMinted
  BY <1>3 DEF Attempt
<1> HIDE DEF r, m
<1>6. /\ r \in Records /\ r.pstate = "unknown" /\ r.pending = n /\ r.current = r0.current
      /\ r.secret = r0.secret /\ r.last = r0.last
  BY <1>1, <1>5 DEF Records
<1>7. /\ mem \in Vaults /\ mem.rec[a] = r /\ \A b \in Accounts \ {a} : mem.rec[b] = m.rec[b]
      /\ mem.change = m.change /\ mem.token = m.token
  BY <1>1, <1>6, RecordSet
<1>8. /\ ck \in JobFiles /\ ck.acct[a] = "changing"
      /\ \A b \in Accounts \ {a} : ck.acct[b] = ck0.acct[b]
  BY <1>1, AccountSet
<1>9. r.last # "success"
  BY <1>4, <1>6, LiveBatch, <1>1 DEF Open, m
<1> HIDE DEF mem, ck
<1>10. a \in Kept => Held(r, m.change[a], real'[a], totp'[a].asked)
  BY <1>2, <1>4, <1>6, <1>9 DEF Held
<1>11. Holds("authorized", r, m.change[a], "changing", real'[a], minted'[a], totp'[a])
  <2>1. minted'[a] = n
    BY <1>1, <1>3 DEF Typed
  <2> QED BY <1>4, <1>6, <2>1 DEF Holds, Hands
<1>12. ProviderTyped'
  BY <1>1, <1>3, <1>4 DEF Typed, ProviderTyped
<1>13. Settles(p, a, r, m.change[a], "changing", "authorized", {a}, mem, ck)
  <2>1. m.rec[a] # NoRecord
    BY <1>1, <1>4, InHandRecord DEF m
  <2> QED
    BY <1>1, <1>4, <1>6, <1>7, <1>8, <1>9, <1>10, <1>11, <1>12, <2>1 DEF Settles, Lives, Hands, m
<1> QED BY <1>13 DEF Settling

LEMMA BatchVerifiesSettles ==
    ASSUME CredInv, NEW p \in Processes, NEW a \in Accounts, BatchVerifies(p, a)
    PROVE  Settling(p)
<1> DEFINE m == batch[p].mem
           ck0 == batch[p].ck
           r0 == m.rec[a]
<1>1. /\ Typed /\ m \in Vaults /\ r0 \in Records /\ ck0 \in JobFiles /\ Live(p)
      /\ Holds("authorized", r0, m.change[a], ck0.acct[a], real[a], minted[a], totp[a])
  BY LiveBatch DEF Live, Lives, Hands, Vaults, BatchVerifies
<1> DEFINE r == [r0 EXCEPT !.pstate = "changed", !.current = r0.pending, !.pending = None,
                           !.seen = TRUE, !.last = "success"]
           mem == [m EXCEPT !.rec[a] = r]
           ck == [ck0 EXCEPT !.acct[a] = "success"]
<1>2. Persist(p, "next", {}, mem, ck) /\ UNCHANGED provider /\ real[a] = r0.pending
  BY DEF BatchVerifies, Settled
<1> HIDE DEF m
<1>3. /\ r \in Records /\ r.pstate = "changed" /\ r.current = r0.pending /\ r.secret = r0.secret
      /\ r.last = "success"
  BY <1>1, VerifiedRecord
<1> HIDE DEF r
<1>4. /\ mem \in Vaults /\ mem.rec[a] = r /\ \A b \in Accounts \ {a} : mem.rec[b] = m.rec[b]
      /\ mem.change = m.change /\ mem.token = m.token
  BY <1>1, <1>3, RecordSet
<1>5. /\ ck \in JobFiles /\ ck.acct[a] = "success"
      /\ \A b \in Accounts \ {a} : ck.acct[b] = ck0.acct[b]
  BY <1>1, AccountSet DEF TerminalStates
<1> HIDE DEF mem, ck
<1>6. Held(r, m.change[a], real'[a], totp'[a].asked)
  BY <1>1, <1>2, <1>3 DEF Held, Holds, provider
<1>7. ProviderTyped'
  BY <1>1, <1>2, ProviderStays
<1>8. Settles(p, a, r, m.change[a], "success", "next", {}, mem, ck)
  <2>1. m.rec[a] # NoRecord
    BY <1>1, InHandRecord DEF m, BatchVerifies, Hands
  <2> QED BY <1>1, <1>2, <1>3, <1>4, <1>5, <1>6, <1>7, <2>1 DEF Settles, Lives, m, provider
<1> QED BY <1>8 DEF Settling

(* The record of the account in hand gets another status only.               *)
Restates(p, a, r, state, at, mem, ck) ==
    /\ Live(p) /\ UNCHANGED provider
    /\ r \in Records /\ Same(r, batch[p].mem.rec[a]) /\ r.last # "success"
    /\ at \in {"next", "off"} /\ ck \in JobFiles
    /\ batch[p].mem.rec[a] # NoRecord /\ (state = "critical" \/ (state = "failed" /\ Unbegun(p, a)))
    /\ mem = [batch[p].mem EXCEPT !.rec[a] = r]
    /\ ck.acct = [batch[p].ck.acct EXCEPT ![a] = state]
    /\ Persist(p, at, {}, mem, ck)

LEMMA RestatesSettles ==
    ASSUME CredInv, NEW p \in Processes, NEW a \in Accounts, NEW r, NEW state, NEW at, NEW mem,
           NEW ck, Restates(p, a, r, state, at, mem, ck)
    PROVE  Settling(p)
<1> DEFINE m == batch[p].mem
<1>1. Live(p)
  BY DEF Restates
<1>2. /\ Typed /\ m \in Vaults /\ m.rec[a] \in Records /\ batch[p].ck \in JobFiles
      /\ HeldIn(m, Kept, real, totp)
  BY <1>1, LiveBatch DEF Vaults
<1>3. /\ r \in Records /\ Same(r, m.rec[a]) /\ r.last # "success" /\ at \in {"next", "off"}
      /\ ck \in JobFiles /\ Persist(p, at, {}, mem, ck) /\ mem = [m EXCEPT !.rec[a] = r]
      /\ real' = real /\ totp' = totp /\ UNCHANGED provider
  BY DEF Restates, provider
<1>a. /\ m.rec[a] # NoRecord /\ (state = "critical" \/ (state = "failed" /\ Unbegun(p, a)))
      /\ issued' = issued /\ spent' = spent
  BY DEF Restates, provider
<1>4. ck.acct[a] = state /\ \A b \in Accounts \ {a} : ck.acct[b] = batch[p].ck.acct[b]
  BY <1>2 DEF JobFiles, Restates
<1> HIDE DEF m
<1>5. /\ mem \in Vaults /\ mem.rec[a] = r /\ \A b \in Accounts \ {a} : mem.rec[b] = m.rec[b]
      /\ mem.change = m.change /\ mem.token = m.token
  BY <1>2, <1>3, RecordSet
<1>6. a \in Kept => Held(r, m.change[a], real'[a], totp'[a].asked)
  BY <1>2, <1>3 DEF Held, HeldIn, Same
<1>7. ProviderTyped'
  BY <1>2, <1>3, ProviderStays
<1>8. Settles(p, a, r, m.change[a], state, at, {}, mem, ck)
  BY <1>1, <1>2, <1>3, <1>4, <1>5, <1>6, <1>7, <1>a DEF Settles, Lives, m, Same
<1> QED BY <1>8 DEF Settling

LEMMA TotpFailsSettles ==
    ASSUME CredInv, NEW p \in Processes, NEW a \in Accounts, TotpFails(p, a) \/ BatchFails(p, a)
    PROVE  Settling(p)
<1> DEFINE r0 == batch[p].mem.rec[a]
           r == [r0 EXCEPT !.last = "failed"]
           mem == [batch[p].mem EXCEPT !.rec[a] = r]
           ck == [batch[p].ck EXCEPT !.acct[a] = "failed"]
<1>1. /\ Live(p) /\ Persist(p, "next", {}, mem, ck) /\ UNCHANGED provider
  BY DEF TotpFails, BatchFails, Settled, Live, Lives, Hands
<1>2. batch[p].ck \in JobFiles /\ r0 \in Records
  BY <1>1, LiveBatch DEF Vaults
<1>3. r \in Records /\ Same(r, r0) /\ r.last = "failed"
  BY <1>2, StatusRecord
<1>4. ck \in JobFiles /\ ck.acct = [batch[p].ck.acct EXCEPT ![a] = "failed"]
  BY <1>2 DEF JobFiles, TerminalStates
<1> HIDE DEF r, ck
<1>5. Restates(p, a, r, "failed", "next", mem, ck)
  <2>1. Unbegun(p, a)
    BY DEF TotpFails, BatchFails, Unbegun
  <2>2. r0 # NoRecord
    BY <1>1, InHandRecord DEF TotpFails, BatchFails, Hands
  <2> QED BY <1>1, <1>3, <1>4, <2>1, <2>2 DEF Restates
<1> QED BY <1>5, RestatesSettles

LEMMA BatchIsUnsureSettles ==
    ASSUME CredInv, NEW p \in Processes, NEW a \in Accounts, BatchIsUnsure(p, a)
    PROVE  Settling(p)
<1> DEFINE r0 == batch[p].mem.rec[a]
           r == [r0 EXCEPT !.last = "critical"]
           mem == [batch[p].mem EXCEPT !.rec[a] = r]
           ck == [[batch[p].ck EXCEPT !.acct[a] = "critical"] EXCEPT !.status = "critical"]
<1>1. /\ Live(p) /\ Persist(p, "off", {}, mem, ck) /\ UNCHANGED provider
  BY DEF BatchIsUnsure, Settled, Live, Lives, Hands
<1>2. batch[p].ck \in JobFiles /\ r0 \in Records
  BY <1>1, LiveBatch DEF Vaults
<1>3. r \in Records /\ Same(r, r0) /\ r.last = "critical"
  BY <1>2, StatusRecord
<1>4. ck \in JobFiles /\ ck.acct = [batch[p].ck.acct EXCEPT ![a] = "critical"]
  BY <1>2 DEF JobFiles, TerminalStates
<1> HIDE DEF r, ck
<1>5. Restates(p, a, r, "critical", "off", mem, ck)
  <2>1. r0 # NoRecord
    BY <1>1, InHandRecord DEF BatchIsUnsure, Hands
  <2> QED BY <1>1, <1>3, <1>4, <2>1 DEF Restates
<1> QED BY <1>5, RestatesSettles

(* The vault is written as the batch has it.                                 *)
LEMMA TotpOpensSettles ==
    ASSUME CredInv, NEW p \in Processes, NEW a \in Accounts, TotpOpens(p, a)
    PROVE  Settling(p)
<1> DEFINE m == batch[p].mem
           ck0 == batch[p].ck
           ck == [ck0 EXCEPT !.acct[a] = "changing"]
<1>1. Live(p) /\ ck0.acct[a] = "queued" /\ real[a] = m.rec[a].current
      /\ Persist(p, "opened", {a}, m, ck) /\ UNCHANGED provider
  BY DEF TotpOpens, Live, Lives, Hands, Accepted
<1>2. /\ Typed /\ m \in Vaults /\ ck0 \in JobFiles /\ HeldIn(m, Kept, real, totp)
      /\ m.rec[a].last # "success"
  BY <1>1, LiveBatch DEF Open
<1>3. /\ ck \in JobFiles /\ ck.acct[a] = "changing"
      /\ \A b \in Accounts \ {a} : ck.acct[b] = ck0.acct[b]
  BY <1>2, AccountSet
<1> HIDE DEF ck
<1>4. ProviderTyped'
  BY <1>1, <1>2, ProviderStays
<1>5. /\ a \in Kept => Held(m.rec[a], m.change[a], real'[a], totp'[a].asked)
      /\ Holds("opened", m.rec[a], m.change[a], "changing", real'[a], minted'[a], totp'[a])
  BY <1>1, <1>2 DEF HeldIn, Holds, Hands, provider
<1>6. Settles(p, a, m.rec[a], m.change[a], "changing", "opened", {a}, m, ck)
  <2>1. m.rec[a] # NoRecord
    BY <1>1, InHandRecord
  <2> QED BY <1>1, <1>2, <1>3, <1>4, <1>5, <2>1 DEF Settles, Lives, Hands, provider, Unbegun
<1> QED BY <1>6 DEF Settling

LEMMA TotpAuthorizesSettles ==
    ASSUME CredInv, NEW p \in Processes, NEW a \in Accounts, TotpAuthorizes(p, a)
    PROVE  Settling(p)
<1> DEFINE m == batch[p].mem
           r0 == m.rec[a]
           r == [r0 EXCEPT !.last = "security_state_unknown"]
           mem == [m EXCEPT !.rec[a] = r]
<1>1. Live(p) /\ batch[p].at = "opened" /\ a \in batch[p].acct
      /\ Persist(p, "disabling", {a}, mem, batch[p].ck) /\ UNCHANGED provider
  BY DEF TotpAuthorizes, Live, Lives, Hands
<1>2. /\ Typed /\ m \in Vaults /\ batch[p].ck \in JobFiles /\ HeldIn(m, Kept, real, totp)
      /\ r0 \in Records
      /\ Holds("opened", r0, m.change[a], batch[p].ck.acct[a], real[a], minted[a], totp[a])
  BY <1>1, LiveBatch DEF Vaults
<1> HIDE DEF m
<1>3. r \in Records /\ Same(r, r0) /\ r.last = "security_state_unknown"
  BY <1>2, StatusRecord
<1> HIDE DEF r
<1>4. /\ mem \in Vaults /\ mem.rec[a] = r /\ \A b \in Accounts \ {a} : mem.rec[b] = m.rec[b]
      /\ mem.change = m.change /\ mem.token = m.token
  BY <1>2, <1>3, RecordSet
<1> HIDE DEF mem
<1>5. ProviderTyped'
  BY <1>1, <1>2, ProviderStays
<1>6. /\ a \in Kept => Held(r, m.change[a], real'[a], totp'[a].asked)
      /\ Holds("disabling", r, m.change[a], batch[p].ck.acct[a], real'[a], minted'[a], totp'[a])
  BY <1>1, <1>2, <1>3 DEF HeldIn, Held, Same, Holds, Hands, provider
<1>7. Settles(p, a, r, m.change[a], batch[p].ck.acct[a], "disabling", {a}, mem, batch[p].ck)
  <2>1. m.rec[a] # NoRecord
    BY <1>1, InHandRecord DEF m, Hands
  <2>2. batch[p].ck.acct[a] = "changing"
    BY <1>2 DEF Holds, Hands
  <2>3. Unbegun(p, a) /\ r.pstate = m.rec[a].pstate
    BY <1>1, <1>3 DEF Unbegun, Same
  <2>4. issued' = issued /\ spent' = spent /\ real' = real /\ totp' = totp
    BY <1>1 DEF provider
  <2> QED BY <1>1, <1>2, <1>3, <1>4, <1>5, <1>6, <2>1, <2>2, <2>3, <2>4 DEF Settles, Lives, Hands, m
<1> QED BY <1>7 DEF Settling

LEMMA TotpEnrollsSettles ==
    ASSUME CredInv, NEW p \in Processes, NEW a \in Accounts, TotpEnrolls(p, a)
    PROVE  Settling(p)
<1> DEFINE m == batch[p].mem
           n == totp[a].shown + 1
           mem == [m EXCEPT !.change[a] = n]
           ck == batch[p].ck
<1>1. /\ Live(p) /\ batch[p].at \in {"opened", "disabling"} /\ a \in batch[p].acct
      /\ Persist(p, "enrolling", {a}, mem, ck) /\ UNCHANGED <<real, minted, issued, spent>>
      /\ totp[a].asked = None /\ totp[a].shown < MaxMinted
      /\ totp' = [totp EXCEPT ![a].shown = n]
  BY DEF TotpEnrolls, Enrolled, Live, Lives, Hands
<1>2. /\ Typed /\ m \in Vaults /\ ck \in JobFiles /\ HeldIn(m, Kept, real, totp)
      /\ m.rec[a] \in Records
      /\ Holds(batch[p].at, m.rec[a], m.change[a], ck.acct[a], real[a], minted[a], totp[a])
      /\ \A b \in Open(ck) : m.rec[b].last # "success"
  BY <1>1, LiveBatch DEF Vaults
<1>3. n \in 1 .. MaxMinted /\ n \in 0 .. MaxMinted
  BY <1>1, <1>2, NumbersTyped DEF Typed
<1> HIDE DEF m, n, ck
<1>4. /\ mem \in Vaults /\ mem.change[a] = n /\ mem.rec = m.rec /\ mem.token = m.token
      /\ \A b \in Accounts \ {a} : mem.change[b] = m.change[b]
  <2>1. m \in Vaults /\ n \in 0 .. MaxMinted /\ mem = [m EXCEPT !.change[a] = n]
    BY <1>2, <1>3
  <2> HIDE DEF mem
  <2> QED BY <2>1, VaultFields DEF Vaults
<1> HIDE DEF mem
<1>5. /\ totp' \in [Accounts -> [asked : 0 .. MaxMinted, shown : 1 .. MaxMinted]]
      /\ totp'[a].asked = None /\ totp'[a].shown = n
      /\ \A b \in Accounts \ {a} : totp'[b] = totp[b]
  BY <1>1, <1>2, <1>3 DEF Typed
<1>6. ProviderTyped'
  BY <1>1, <1>2, <1>5 DEF Typed, ProviderTyped
<1>7. ck.acct[a] = "changing" /\ real[a] = m.rec[a].current /\ m.rec[a].last # "success"
  BY <1>1, <1>2 DEF Holds, Hands, Open
<1>8. a \in Kept => Held(m.rec[a], n, real'[a], totp'[a].asked)
  BY <1>1, <1>2, <1>5, <1>7 DEF HeldIn, Held
<1>9. Holds("enrolling", m.rec[a], n, "changing", real'[a], minted'[a], totp'[a])
  BY <1>1, <1>5, <1>7 DEF Holds, Hands
<1>10. Settles(p, a, m.rec[a], n, "changing", "enrolling", {a}, mem, ck)
  <2>1. m.rec[a] # NoRecord
    BY <1>1, InHandRecord DEF m, Hands
  <2>2. Unbegun(p, a)
    BY <1>1 DEF Unbegun
  <2> QED
    BY <1>1, <1>2, <1>4, <1>5, <1>6, <1>7, <1>8, <1>9, <2>1, <2>2 DEF Settles, Lives, Hands, m, ck
<1> QED BY <1>10 DEF Settling

(* A record whose account has adopted the new secret.                        *)
LEMMA AdoptedVault ==
    ASSUME NEW v \in Vaults, NEW a \in Accounts, NEW w, w = Adopted(v, a)
    PROVE  /\ w \in Vaults /\ w.change[a] = None /\ w.rec[a].last = "success"
           /\ w.rec[a].pstate = v.rec[a].pstate /\ w.rec[a].current = v.rec[a].current
           /\ w.rec[a].pending = v.rec[a].pending /\ w.rec[a].secret = v.change[a]
           /\ w.token = v.token
           /\ \A b \in Accounts \ {a} : w.rec[b] = v.rec[b] /\ w.change[b] = v.change[b]
<1> DEFINE r0 == v.rec[a]
           ch == v.change[a]
           r == [r0 EXCEPT !.secret = ch, !.seen = TRUE, !.last = "success"]
           f == [v.rec EXCEPT ![a] = r]
           g == [v.change EXCEPT ![a] = None]
<1>1. r0 \in Records /\ ch \in 0 .. MaxMinted /\ None \in 0 .. MaxMinted
  BY VaultFields, NumbersTyped DEF None
<1>2. w = [rec |-> f, token |-> v.token, change |-> g]
  BY VaultFields DEF Adopted, Vaults, Records
<1> HIDE DEF r0, ch
<1>3. /\ r \in Records /\ r.pstate = r0.pstate /\ r.current = r0.current /\ r.pending = r0.pending
      /\ r.secret = ch /\ r.last = "success"
  BY <1>1 DEF Records
<1> HIDE DEF r
<1>4. /\ f \in [Accounts -> Records] /\ f[a] = r /\ \A b \in Accounts \ {a} : f[b] = v.rec[b]
  BY <1>3, VaultFields
<1>5. /\ g \in [Accounts -> 0 .. MaxMinted] /\ g[a] = None
      /\ \A b \in Accounts \ {a} : g[b] = v.change[b]
  BY <1>1, VaultFields
<1> HIDE DEF f, g
<1>6. w \in Vaults /\ w.rec = f /\ w.change = g /\ w.token = v.token
  BY <1>2, <1>4, <1>5, VaultFields DEF Vaults
<1> QED BY <1>3, <1>4, <1>5, <1>6 DEF r0, ch

LEMMA TotpVerifiesSettles ==
    ASSUME CredInv, NEW p \in Processes, NEW a \in Accounts, TotpVerifies(p, a)
    PROVE  Settling(p)
<1> DEFINE m == batch[p].mem
           ck0 == batch[p].ck
           mem == Adopted(m, a)
           ck == [ck0 EXCEPT !.acct[a] = "success"]
<1>1. /\ Live(p) /\ batch[p].at = "enrolling" /\ a \in batch[p].acct
      /\ Persist(p, "next", {}, mem, ck) /\ UNCHANGED provider
      /\ totp[a].asked = totp[a].shown
  BY DEF TotpVerifies, Live, Lives, Hands
<1>2. /\ Typed /\ m \in Vaults /\ ck0 \in JobFiles /\ HeldIn(m, Kept, real, totp)
      /\ Holds("enrolling", m.rec[a], m.change[a], ck0.acct[a], real[a], minted[a], totp[a])
  BY <1>1, LiveBatch
<1> HIDE DEF m
<1>3. /\ mem \in Vaults /\ mem.change[a] = None /\ mem.rec[a].last = "success"
      /\ mem.rec[a].pstate = m.rec[a].pstate /\ mem.rec[a].current = m.rec[a].current
      /\ mem.rec[a].pending = m.rec[a].pending /\ mem.rec[a].secret = m.change[a]
      /\ mem.token = m.token
      /\ \A b \in Accounts \ {a} : mem.rec[b] = m.rec[b] /\ mem.change[b] = m.change[b]
  BY <1>2, AdoptedVault
<1>4. /\ ck \in JobFiles /\ ck.acct[a] = "success"
      /\ \A b \in Accounts \ {a} : ck.acct[b] = ck0.acct[b]
  BY <1>2, AccountSet DEF TerminalStates
<1> HIDE DEF mem, ck
<1>5. ProviderTyped'
  BY <1>1, <1>2, ProviderStays
<1>6. real[a] = m.rec[a].current /\ m.change[a] = totp[a].asked
  BY <1>1, <1>2 DEF Holds
<1>7. a \in Kept => Held(mem.rec[a], None, real'[a], totp'[a].asked)
  BY <1>1, <1>2, <1>3, <1>6 DEF HeldIn, Held, provider
<1>8. Settles(p, a, mem.rec[a], None, "success", "next", {}, mem, ck)
  <2>1. m.rec[a] # NoRecord
    BY <1>1, InHandRecord DEF m, Hands
  <2>2. Unbegun(p, a)
    BY <1>1 DEF Unbegun
  <2> QED BY <1>1, <1>2, <1>3, <1>4, <1>5, <1>7, <2>1, <2>2 DEF Settles, Lives, m, provider
<1> QED BY <1>8 DEF Settling

LEMMA BatchErrsKeeps ==
    ASSUME CredInv, NEW p \in Processes, NEW a \in Accounts, BatchErrs(p, a)
    PROVE  CredInv'
<1> DEFINE j == batch[p].job
           ck0 == file[j]
           state == IF vault.rec[a].pstate = "unknown" THEN "critical" ELSE "failed"
           r == Marked(vault.rec[a], state)
           mem == [vault EXCEPT !.rec[a] = r]
           ck == [ck0 EXCEPT !.status = state, !.acct[a] = state]
<1>1. /\ batch[p].at # "off" /\ Persist(p, "off", {}, mem, ck) /\ UNCHANGED provider
  BY DEF BatchErrs
<1>2. /\ Typed /\ HeldIn(vault, Kept, real, totp) /\ vault \in Vaults /\ ck0 \in JobFiles
      /\ vault.rec[a] \in Records /\ Kept \subseteq Accounts
  BY <1>1 DEF CredInv, Typed, HeldOnes, HeldBy, Vaults, Kept
<1> HIDE DEF ck0
<1>3. state \in {"failed", "critical"}
  OBVIOUS
<1> HIDE DEF state
<1>4. r \in Records /\ Same(r, vault.rec[a]) /\ r.last # "success"
  BY <1>2, <1>3, MarkedTyped
<1> HIDE DEF r
<1>5. /\ mem \in Vaults /\ mem.rec[a] = r /\ mem.change = vault.change
      /\ \A b \in Accounts \ {a} : mem.rec[b] = vault.rec[b]
  BY <1>2, <1>4, RecordSet
<1>6. ck \in JobFiles
  BY <1>2, <1>3 DEF JobFiles, TerminalStates
<1> HIDE DEF mem, ck
<1>7. HeldIn(mem, Kept, real', totp')
  <2> SUFFICES ASSUME NEW b \in Kept PROVE Held(mem.rec[b], mem.change[b], real[b], totp[b].asked)
    BY <1>1 DEF HeldIn, provider
  <2>1. Held(vault.rec[b], vault.change[b], real[b], totp[b].asked)
    BY <1>2 DEF HeldIn
  <2>2. CASE b = a
    BY <1>4, <1>5, <2>1, <2>2, HeldSame
  <2>3. CASE b # a
    BY <1>2, <1>5, <2>1, <2>3
  <2> QED BY <2>2, <2>3
<1>8. ProviderTyped'
  BY <1>1, <1>2, ProviderStays
<1>9. Writes(p, "off", {}, mem, ck)
  BY <1>1, <1>5, <1>6, <1>7, <1>8 DEF Writes, Persists
<1> QED BY <1>9, WritesKeep

LEMMA BatchEndsKeeps ==
    ASSUME CredInv, NEW p \in Processes, BatchEnds(p)
    PROVE  CredInv'
<1> DEFINE m == batch[p].mem
           status == IF Open(batch[p].ck) = {} THEN FinalStatus(batch[p].ck) ELSE "paused"
           ck == [batch[p].ck EXCEPT !.status = status]
<1>1. Live(p) /\ Persist(p, "off", {}, m, ck) /\ UNCHANGED provider
  BY DEF BatchEnds, Live, Lives
<1>2. /\ Typed /\ m \in Vaults /\ batch[p].ck \in JobFiles /\ HeldIn(m, Kept, real, totp)
      /\ batch[p].at # "off"
  BY <1>1, LiveBatch
<1>3. status \in {"queued", "running", "completed", "failed", "critical", "cancelled", "paused"}
  BY <1>2, FinalTyped
<1> HIDE DEF status
<1>4. ck \in JobFiles
  BY <1>2, <1>3, StatusSet
<1> HIDE DEF ck
<1>5. ProviderTyped' /\ HeldIn(m, Kept, real', totp')
  BY <1>1, <1>2, ProviderStays DEF provider
<1>6. Writes(p, "off", {}, m, ck)
  BY <1>1, <1>2, <1>4, <1>5 DEF Writes, Persists
<1> QED BY <1>6, WritesKeep

-----------------------------------------------------------------------------
(* The provider takes what a worker has sent it.                             *)
Provides(p, a) ==
    /\ p \in Processes /\ a \in Accounts /\ batch[p].at \in Hands /\ a \in batch[p].acct
    /\ UNCHANGED <<files, batch, call, minted, issued, spent, history, work>>
    /\ ProviderTyped'
    /\ \A b \in Accounts \ {a} : real'[b] = real[b] /\ totp'[b] = totp[b]
    /\ Holds(batch[p].at, batch[p].mem.rec[a], batch[p].mem.change[a], "changing",
             real'[a], minted[a], totp'[a])
    /\ a \in Kept => Held(batch[p].mem.rec[a], batch[p].mem.change[a], real'[a], totp'[a].asked)

LEMMA ProvidesKeeps ==
    ASSUME CredInv, NEW p, NEW a, Provides(p, a)
    PROVE  CredInv'
<1> DEFINE m == batch[p].mem
<1>1. p \in Processes /\ a \in Accounts /\ Live(p) /\ batch[p].at \in Hands /\ a \in batch[p].acct
  BY DEF Provides, Live, Lives
<1>2. /\ Typed /\ Alone /\ BatchCopies /\ CallCopies /\ OpenOnes /\ InHand /\ HeldOnes
  BY DEF CredInv
<1>3. /\ HeldIn(m, Kept, real, totp) /\ m.rec[a].last # "success" /\ vault.rec[a].last # "success"
      /\ batch[p].ck.acct[a] = "changing" /\ batch[p].acct \subseteq Accounts
  BY <1>1, LiveBatch DEF Holds, Open
<1>4. /\ vault' = vault /\ file' = file /\ batch' = batch /\ call' = call /\ minted' = minted
      /\ imported' = imported /\ dropped' = dropped /\ work' = work /\ Kept' = Kept
      /\ \A b \in Accounts \ {a} : real'[b] = real[b] /\ totp'[b] = totp[b]
  BY DEF Provides, files, history, Kept
<1>5. \A q \in Processes : Live(q) => q = p
  BY <1>1, <1>2 DEF Alone, Live, Lives, Hands
<1>6. Typed' /\ Alone'
  BY <1>2, <1>4 DEF Typed, Alone, Provides, ProviderTyped
<1>7. BatchCopies' /\ CallCopies' /\ OpenOnes'
  BY <1>2, <1>4 DEF BatchCopies, CallCopies, OpenOnes, Live, Kept
<1>8. InHand'
  <2> SUFFICES ASSUME NEW b \in batch[p].acct
               PROVE  Holds(batch[p].at, m.rec[b], m.change[b], batch[p].ck.acct[b],
                            real'[b], minted[b], totp'[b])
    BY <1>4, <1>5 DEF InHand, Live
  <2>1. CASE b = a
    BY <1>3, <2>1 DEF Provides
  <2>2. CASE b # a
    BY <1>1, <1>2, <1>3, <1>4, <2>2 DEF InHand
  <2> QED BY <2>1, <2>2
<1>9. ASSUME NEW v, \A b \in Kept : Held(v.rec[b], v.change[b], real[b], totp[b].asked),
             a \in Kept => Held(v.rec[a], v.change[a], real'[a], totp'[a].asked)
      PROVE  HeldIn(v, Kept, real', totp')
  <2> SUFFICES ASSUME NEW b \in Kept PROVE Held(v.rec[b], v.change[b], real'[b], totp'[b].asked)
    BY DEF HeldIn
  <2>1. b \in Accounts
    BY <1>2 DEF Typed, Kept
  <2> QED BY <1>4, <1>9, <2>1
<1>10. HeldIn(m, Kept, real', totp')
  BY <1>3, <1>9 DEF HeldIn, Provides
<1>11. a \in Kept => Held(vault.rec[a], vault.change[a], real'[a], totp'[a].asked)
  <2> SUFFICES ASSUME a \in Kept PROVE Held(vault.rec[a], vault.change[a], real'[a], totp'[a].asked)
    OBVIOUS
  <2>1. Same(vault.rec[a], m.rec[a]) /\ m.change = vault.change
    BY <1>1, <1>2 DEF BatchCopies, Same
  <2>2. Held(m.rec[a], vault.change[a], real'[a], totp'[a].asked)
    BY <2>1 DEF Provides
  <2> QED BY <1>3, <2>1, <2>2, HeldSame
<1>12. HeldIn(vault, Kept, real', totp')
  BY <1>2, <1>9, <1>11 DEF HeldOnes, HeldBy, HeldIn
<1>13. HeldOnes'
  BY <1>4, <1>5, <1>10, <1>12 DEF HeldOnes, HeldBy, Live
<1> QED BY <1>6, <1>7, <1>8, <1>13 DEF CredInv

LEMMA ProviderAcceptsKeeps ==
    ASSUME CredInv, NEW p \in Processes, NEW a \in Accounts, ProviderAccepts(p, a)
    PROVE  CredInv'
<1>1. /\ Live(p) /\ batch[p].at = "authorized" /\ a \in batch[p].acct
      /\ real' = [real EXCEPT ![a] = minted[a]] /\ totp' = totp /\ minted' = minted
      /\ UNCHANGED <<files, batch, call, minted, issued, spent, history, work>>
  BY DEF ProviderAccepts, Live, Lives, Hands
<1>2. /\ Typed /\ HeldIn(batch[p].mem, Kept, real, totp)
      /\ Holds("authorized", batch[p].mem.rec[a], batch[p].mem.change[a], batch[p].ck.acct[a],
               real[a], minted[a], totp[a])
      /\ \A b \in Open(batch[p].ck) : batch[p].mem.rec[b].last # "success"
  BY <1>1, LiveBatch
<1>3. real'[a] = minted[a] /\ \A b \in Accounts \ {a} : real'[b] = real[b]
  BY <1>1, <1>2 DEF Typed
<1>4. ProviderTyped'
  BY <1>1, <1>2 DEF Typed, ProviderTyped
<1>5. Holds("authorized", batch[p].mem.rec[a], batch[p].mem.change[a], "changing",
            real'[a], minted[a], totp'[a])
  BY <1>1, <1>2, <1>3 DEF Holds, Hands
<1>6. a \in Kept => Held(batch[p].mem.rec[a], batch[p].mem.change[a], real'[a], totp'[a].asked)
  BY <1>1, <1>2, <1>3 DEF HeldIn, Held, Holds, Hands, Open
<1>7. Provides(p, a)
  BY <1>1, <1>3, <1>4, <1>5, <1>6 DEF Provides, Hands
<1> QED BY <1>7, ProvidesKeeps

LEMMA ProviderDisablesKeeps ==
    ASSUME CredInv, NEW p \in Processes, NEW a \in Accounts,
           ProviderDisables(p, a) \/ ProviderEnrolls(p, a)
    PROVE  CredInv'
<1> DEFINE n == IF batch[p].at = "enrolling" THEN totp[a].shown ELSE None
<1>1. /\ Live(p) /\ batch[p].at \in {"disabling", "enrolling"} /\ a \in batch[p].acct
      /\ real' = real /\ minted' = minted /\ totp' = [totp EXCEPT ![a].asked = n]
      /\ UNCHANGED <<files, batch, call, minted, issued, spent, history, work>>
  BY DEF ProviderDisables, ProviderEnrolls, Live, Lives, Hands
<1>2. /\ Typed /\ HeldIn(batch[p].mem, Kept, real, totp)
      /\ Holds(batch[p].at, batch[p].mem.rec[a], batch[p].mem.change[a], batch[p].ck.acct[a],
               real[a], minted[a], totp[a])
      /\ \A b \in Open(batch[p].ck) : batch[p].mem.rec[b].last # "success"
  BY <1>1, LiveBatch
<1>3. n \in 0 .. MaxMinted
  BY <1>2, NumbersTyped DEF Typed, None
<1>4. batch[p].at = "enrolling" => n = totp[a].shown
  OBVIOUS
<1>5. batch[p].at # "enrolling" => n = None
  OBVIOUS
<1> HIDE DEF n
<1>6. /\ totp' \in [Accounts -> [asked : 0 .. MaxMinted, shown : 1 .. MaxMinted]]
      /\ totp'[a].asked = n /\ totp'[a].shown = totp[a].shown
      /\ \A b \in Accounts \ {a} : totp'[b] = totp[b]
  BY <1>1, <1>2, <1>3 DEF Typed
<1>7. ProviderTyped'
  BY <1>1, <1>2, <1>6 DEF Typed, ProviderTyped
<1>8. Holds(batch[p].at, batch[p].mem.rec[a], batch[p].mem.change[a], "changing",
            real'[a], minted[a], totp'[a])
  BY <1>1, <1>2, <1>6 DEF Holds, Hands
<1>9. a \in Kept => Held(batch[p].mem.rec[a], batch[p].mem.change[a], real'[a], totp'[a].asked)
  <2>1. batch[p].mem.rec[a].last # "success"
    BY <1>1, <1>2, LiveBatch DEF Holds, Hands, Open
  <2>2. n \in {None, batch[p].mem.change[a]}
    BY <1>1, <1>2, <1>4, <1>5 DEF Holds
  <2> QED BY <1>1, <1>2, <1>6, <2>1, <2>2 DEF HeldIn, Held
<1>10. Provides(p, a)
  BY <1>1, <1>6, <1>7, <1>8, <1>9 DEF Provides, Hands
<1> QED BY <1>10, ProvidesKeeps

-----------------------------------------------------------------------------
(* Commands.                                                                 *)

(* A command begins with nobody's copy of the vault under way, but that of a *)
(* batch beside which commands may begin.                                    *)
LEMMA AskedAlone ==
    ASSUME CredInv, NEW command, Asked(command)
    PROVE  /\ \A c \in Callers : call[c].at = "idle"
           /\ Solo(work) => \A p \in Processes : batch[p].at = "off"
           /\ command \in {"resolve", "recover", "delete", "connect", "export"} => Solo(work)
           /\ command \in work.allowed
           /\ work' \in WorkloadRecords /\ Careful(work') /\ Solo(work') = Solo(work)
           /\ work'.allowed = work.allowed /\ work'.overlap = work.overlap
           /\ work'.jobs = work.jobs /\ work'.accounts = work.accounts
           /\ work'.crashes = work.crashes
<1>1. Typed /\ Alone
  BY DEF CredInv
<1>2. /\ command \in work.allowed /\ (work.overlap \/ Quiet) /\ work.commands > 0
      /\ work' = [work EXCEPT !.commands = @ - 1] /\ work \in WorkloadRecords
  BY <1>1 DEF Asked, Typed
<1>3. /\ work' \in WorkloadRecords /\ work'.allowed = work.allowed /\ work'.overlap = work.overlap
      /\ work'.jobs = work.jobs /\ work'.accounts = work.accounts /\ work'.crashes = work.crashes
  BY <1>2 DEF WorkloadRecords
<1>4. \A c \in Callers : call[c].at = "idle"
  BY <1>1, <1>2 DEF Alone, Quiet, Solo
<1>5. Solo(work) => \A p \in Processes : batch[p].at = "off"
  BY <1>2 DEF Quiet, Solo
<1>6. command \in {"resolve", "recover", "delete", "connect", "export"} => Solo(work)
  BY <1>1, <1>2 DEF Alone, Careful, Solo
<1>7. Careful(work') /\ Solo(work') = Solo(work)
  BY <1>1, <1>3 DEF Alone, Careful, Solo
<1> QED BY <1>2, <1>3, <1>4, <1>5, <1>6, <1>7

(* A command that loads and saves at once: it changes the password or the    *)
(* secret of no account that is kept.                                        *)
Rewrites(command) ==
    /\ Asked(command) /\ ProviderTyped' /\ real' = real /\ minted' = minted /\ totp' = totp
    /\ batch' = batch /\ call' = call
    /\ vault' \in Vaults /\ file' \in [Jobs -> JobFiles] /\ vault'.change = vault.change
    /\ imported' \subseteq Accounts /\ dropped' \subseteq Accounts /\ Kept' \subseteq Kept
    /\ \A a \in Kept' : Same(vault'.rec[a], vault.rec[a])
    /\ \A a \in Accounts : vault'.rec[a].last = "success" => vault.rec[a].last = "success"
    /\ \A j \in Jobs : Open(file'[j]) \subseteq Open(file[j])

LEMMA RewritesKeeps ==
    ASSUME CredInv, NEW command, Rewrites(command)
    PROVE  CredInv'
<1>1. /\ Typed /\ Alone /\ BatchCopies /\ CallCopies /\ OpenOnes /\ InHand /\ HeldOnes
  BY DEF CredInv
<1>2. Asked(command)
  BY DEF Rewrites
<1>3. /\ \A c \in Callers : call[c].at = "idle"
      /\ Solo(work) => \A p \in Processes : batch[p].at = "off"
      /\ work' \in WorkloadRecords /\ Careful(work') /\ Solo(work') = Solo(work)
      /\ work'.allowed = work.allowed
  BY <1>2, AskedAlone
<1>4. Typed'
  BY <1>1, <1>3 DEF Typed, Rewrites, ProviderTyped
<1>5. Alone'
  BY <1>1, <1>3 DEF Alone, Rewrites
<1>6. BatchCopies'
  <2> SUFFICES ASSUME NEW p \in Processes, Live(p)
               PROVE  /\ batch[p].mem.change = vault'.change
                      /\ \A a \in Kept' : Same(batch[p].mem.rec[a], vault'.rec[a])
                      /\ ~Solo(work')
    BY DEF BatchCopies, Live, Rewrites
  <2>1. ~Solo(work)
    BY <1>3 DEF Live, Lives, Hands
  <2>2. /\ batch[p].mem.change = vault.change
        /\ \A a \in Kept : Same(batch[p].mem.rec[a], vault.rec[a])
    BY <1>1 DEF BatchCopies
  <2> QED BY <1>3, <2>1, <2>2 DEF Rewrites, Same
<1>7. CallCopies'
  BY <1>3 DEF CallCopies, Rewrites
<1>8. OpenOnes'
  <2>1. ASSUME NEW p \in Processes, Live(p), NEW a \in Open(batch[p].ck)
        PROVE  batch[p].mem.rec[a].last # "success" /\ vault'.rec[a].last # "success"
    BY <1>1, <2>1 DEF OpenOnes, Rewrites, Open
  <2>2. ASSUME NEW p \in Processes, batch[p].at = "spawned", NEW a \in Open(file'[batch[p].job])
        PROVE  vault'.rec[a].last # "success"
    BY <1>1, <2>2 DEF OpenOnes, Rewrites, Typed, Open
  <2> QED BY <2>1, <2>2 DEF OpenOnes, Rewrites, Live
<1>9. InHand'
  BY <1>1 DEF InHand, Rewrites, Live
<1>10. HeldIn(vault', Kept', real', totp')
  <2> SUFFICES ASSUME NEW a \in Kept' PROVE Held(vault'.rec[a], vault'.change[a], real[a], totp[a].asked)
    BY DEF HeldIn, Rewrites
  <2>1. /\ a \in Kept /\ a \in Accounts /\ Same(vault'.rec[a], vault.rec[a])
        /\ vault'.change = vault.change
        /\ vault'.rec[a].last = "success" => vault.rec[a].last = "success"
    BY <1>1 DEF Rewrites, Kept, Typed
  <2>2. Held(vault.rec[a], vault.change[a], real[a], totp[a].asked)
    BY <1>1, <2>1 DEF HeldOnes, HeldBy, HeldIn
  <2> QED BY <2>1, <2>2 DEF Held, Same
<1>11. ASSUME NEW p \in Processes, Live(p) PROVE HeldIn(batch[p].mem, Kept', real', totp')
  BY <1>1, <1>11 DEF HeldOnes, HeldBy, HeldIn, Rewrites
<1>12. HeldOnes'
  BY <1>10, <1>11 DEF HeldOnes, HeldBy, Rewrites, Live
<1> QED BY <1>4, <1>5, <1>6, <1>7, <1>8, <1>9, <1>12 DEF CredInv

LEMMA CancelKeeps ==
    ASSUME CredInv, NEW j \in Jobs, CancelInactive(j)
    PROVE  CredInv'
<1> DEFINE ck == file[j]
           acct == [a \in Accounts |-> IF a \in Open(ck) THEN CancelledAs(vault, a) ELSE ck.acct[a]]
           f == [a \in Accounts |-> IF a \in Open(ck) THEN Marked(vault.rec[a], acct[a]) ELSE vault.rec[a]]
           status == IF \E a \in Accounts : acct[a] = "critical" THEN "critical" ELSE "cancelled"
           k == [ck EXCEPT !.status = status, !.acct = acct]
<1>1. /\ Typed /\ ck \in JobFiles /\ vault \in Vaults /\ vault.rec \in [Accounts -> Records]
  BY DEF CredInv, Typed, Vaults
<1>2. /\ Asked("cancel") /\ vault' = [vault EXCEPT !.rec = f] /\ file' = [file EXCEPT ![j] = k]
      /\ UNCHANGED <<batch, call, provider, history>>
  BY DEF CancelInactive
<1> HIDE DEF ck
<1>3. /\ \A a \in Open(ck) : acct[a] \in {"critical", "cancelled"}
      /\ \A a \in Accounts \ Open(ck) : acct[a] = ck.acct[a]
      /\ DOMAIN acct = Accounts
  BY DEF CancelledAs, Open
<1>4. acct \in [Accounts -> {"none", "queued", "changing"} \cup TerminalStates]
  <2> SUFFICES ASSUME NEW a \in Accounts
               PROVE  acct[a] \in {"none", "queued", "changing"} \cup TerminalStates
    OBVIOUS
  <2>1. ck.acct[a] \in {"none", "queued", "changing"} \cup TerminalStates
    BY <1>1 DEF JobFiles
  <2> QED BY <1>3, <2>1 DEF TerminalStates
<1>5. status \in {"critical", "cancelled"}
  OBVIOUS
<1> HIDE DEF acct, status
<1>6. k \in JobFiles /\ Open(k) = {}
  <2>1. k \in JobFiles /\ k.acct = acct
    BY <1>1, <1>4, <1>5 DEF JobFiles
  <2> QED BY <1>3, <2>1 DEF Open
<1> HIDE DEF k
<1>7. \A a \in Accounts : /\ f[a] \in Records /\ Same(f[a], vault.rec[a])
                          /\ f[a].last = "success" => vault.rec[a].last = "success"
  <2> SUFFICES ASSUME NEW a \in Accounts
               PROVE  /\ f[a] \in Records /\ Same(f[a], vault.rec[a])
                      /\ f[a].last = "success" => vault.rec[a].last = "success"
    OBVIOUS
  <2>1. CASE a \in Open(ck)
    <3>1. /\ Marked(vault.rec[a], acct[a]) \in Records /\ Same(Marked(vault.rec[a], acct[a]), vault.rec[a])
          /\ Marked(vault.rec[a], acct[a]).last # "success"
      BY <1>1, <1>3, <2>1, MarkedTyped
    <3> QED BY <2>1, <3>1
  <2>2. CASE a \notin Open(ck)
    BY <1>1, <2>2 DEF Same
  <2> QED BY <2>1, <2>2
<1>8. f \in [Accounts -> Records]
  BY <1>7
<1> HIDE DEF f
<1>9. vault' \in Vaults /\ vault'.rec = f /\ vault'.change = vault.change
  BY <1>1, <1>2, <1>8 DEF Vaults
<1>10. /\ file' \in [Jobs -> JobFiles] /\ \A i \in Jobs : Open(file'[i]) \subseteq Open(file[i])
  BY <1>1, <1>2, <1>6 DEF Typed
<1>11. ProviderTyped' /\ Kept' = Kept /\ imported' \subseteq Accounts /\ dropped' \subseteq Accounts
  BY <1>1, <1>2, ProviderStays DEF Kept, history, Typed
<1>12. Rewrites("cancel")
  BY <1>1, <1>2, <1>7, <1>9, <1>10, <1>11 DEF Rewrites, provider, Kept, Typed
<1> QED BY <1>12, RewritesKeeps

LEMMA AbandonKeeps ==
    ASSUME CredInv, NEW j \in Jobs, Abandon(j)
    PROVE  CredInv'
<1>1. /\ Typed /\ Asked("abandon") /\ file' = [file EXCEPT ![j] = NoFile]
      /\ UNCHANGED <<vault, batch, call, provider, history>>
  BY DEF CredInv, Abandon
<1>2. /\ file' \in [Jobs -> JobFiles] /\ \A i \in Jobs : Open(file'[i]) \subseteq Open(file[i])
  BY <1>1, NothingTyped DEF Typed, Open
<1>3. ProviderTyped' /\ Kept' = Kept
  BY <1>1, ProviderStays DEF Kept, history
<1>4. Rewrites("abandon")
  BY <1>1, <1>2, <1>3 DEF Rewrites, provider, Typed, Same, history
<1> QED BY <1>4, RewritesKeeps

LEMMA CleanKeeps ==
    ASSUME CredInv, NEW j \in Jobs, Clean(j)
    PROVE  CredInv'
<1> DEFINE gone == Forgotten(vault, file[j])
           f == [a \in Accounts |-> IF a \in gone THEN NoRecord ELSE vault.rec[a]]
<1>1. /\ Typed /\ Asked("clean") /\ vault' = [vault EXCEPT !.rec = f]
      /\ file' = [file EXCEPT ![j] = NoFile] /\ dropped' = dropped \cup gone
      /\ UNCHANGED <<batch, call, provider, imported>>
  BY DEF CredInv, Clean
<1>2. vault \in Vaults /\ vault.rec \in [Accounts -> Records] /\ gone \subseteq Accounts
  BY <1>1 DEF Typed, Vaults, Forgotten, Members
<1> HIDE DEF gone
<1>3. /\ f \in [Accounts -> Records] /\ \A a \in Accounts \ gone : f[a] = vault.rec[a]
      /\ \A a \in gone : f[a].last = "none"
  BY <1>2, NothingTyped
<1> HIDE DEF f
<1>4. vault' \in Vaults /\ vault'.rec = f /\ vault'.change = vault.change
  BY <1>1, <1>2, <1>3 DEF Vaults
<1>5. /\ file' \in [Jobs -> JobFiles] /\ \A i \in Jobs : Open(file'[i]) \subseteq Open(file[i])
  BY <1>1, NothingTyped DEF Typed, Open
<1>6. /\ ProviderTyped' /\ imported' \subseteq Accounts /\ dropped' \subseteq Accounts
      /\ Kept' \subseteq Kept /\ Kept' \subseteq Accounts \ gone
  BY <1>1, <1>2, ProviderStays DEF Kept, Typed
<1>7. Rewrites("clean")
  BY <1>1, <1>3, <1>4, <1>5, <1>6 DEF Rewrites, provider, Same
<1> QED BY <1>7, RewritesKeeps

LEMMA SessionKeeps ==
    ASSUME CredInv, NEW a \in Accounts, SessionConnects(a)
    PROVE  CredInv'
<1> DEFINE n == issued[a] + 1
<1>1. /\ Typed /\ Asked("session") /\ vault' = [vault EXCEPT !.token[a] = n]
      /\ issued' = [issued EXCEPT ![a] = n]
      /\ UNCHANGED <<file, batch, call, real, minted, totp, spent, history>>
  BY DEF CredInv, SessionConnects
<1>2. n \in Nat
  BY <1>1 DEF Typed
<1> HIDE DEF n
<1>3. vault' \in Vaults /\ vault'.rec = vault.rec /\ vault'.change = vault.change
  BY <1>1, <1>2, VaultFields DEF Typed, Vaults
<1>4. ProviderTyped' /\ Kept' = Kept
  BY <1>1, <1>2 DEF Typed, ProviderTyped, Kept, history
<1>5. Rewrites("session")
  BY <1>1, <1>3, <1>4 DEF Rewrites, Typed, Same, history
<1> QED BY <1>5, RewritesKeeps

-----------------------------------------------------------------------------
(* Commands that keep a copy, and what ends one.                             *)

(* The command takes its copies, alone.                                      *)
Copying == {"resolve", "recover", "delete", "connect", "export"}

Takes(c, at, S, j, left) ==
    /\ at \in Copying /\ Asked(at) /\ Loads(c, at, S, j, left)
    /\ S \subseteq Accounts /\ left \subseteq S /\ j \in Jobs \cup {NoJob}
    /\ at \in {"resolve", "recover"} => j \in Jobs /\ \A a \in S : vault.rec[a].pstate = "unknown"
    /\ at = "export" => \A a \in S : vault.rec[a] # NoRecord /\ vault.token[a] # None

LEMMA TakesMoves ==
    ASSUME CredInv, NEW c \in Callers, NEW at, NEW S, NEW j, NEW left, Takes(c, at, S, j, left)
    PROVE  /\ UNCHANGED <<files, batch, provider, history>>
           /\ call' \in [Callers -> CallRecords]
           /\ call'[c].at = at /\ call'[c].acct = S /\ call'[c].job = j /\ call'[c].mem = vault
           /\ call'[c].left = left /\ (at = "resolve" => call'[c].ck = file[j])
           /\ \A d \in Callers \ {c} : call'[d] = call[d] /\ call[d].at = "idle"
           /\ Solo(work) /\ \A p \in Processes : batch[p].at = "off"
           /\ at \in work.allowed
           /\ work' \in WorkloadRecords /\ Careful(work') /\ Solo(work')
           /\ work'.allowed = work.allowed /\ work'.accounts = work.accounts
           /\ work'.crashes = work.crashes /\ work'.overlap = work.overlap /\ work'.jobs = work.jobs
<1> DEFINE k == IF j = NoJob THEN NoFile ELSE file[j]
           r == [at |-> at, acct |-> S, job |-> j, mem |-> vault, ck |-> k, left |-> left]
<1>1. Typed /\ at \in Copying /\ Asked(at)
  BY DEF CredInv, Takes
<1>2. /\ \A d \in Callers : call[d].at = "idle"
      /\ Solo(work) => \A p \in Processes : batch[p].at = "off"
      /\ Solo(work) /\ at \in work.allowed
      /\ work' \in WorkloadRecords /\ Careful(work') /\ Solo(work') = Solo(work)
      /\ work'.allowed = work.allowed /\ work'.overlap = work.overlap /\ work'.jobs = work.jobs
  BY <1>1, AskedAlone DEF Copying
<1>3. work'.accounts = work.accounts /\ work'.crashes = work.crashes
  BY <1>1 DEF Asked, Typed, WorkloadRecords
<1>4. k \in JobFiles /\ (j \in Jobs => k = file[j])
  BY <1>1, NumbersTyped, NothingTyped DEF Typed, Takes
<1>5. call' = [call EXCEPT ![c] = r] /\ UNCHANGED <<files, batch, provider, history>>
  BY DEF Takes, Loads
<1> HIDE DEF k
<1>6. /\ r \in CallRecords /\ r.at = at /\ r.acct = S /\ r.job = j /\ r.mem = vault /\ r.left = left
      /\ (j \in Jobs => r.ck = file[j])
  BY <1>1, <1>4 DEF CallRecords, Copying, Takes, Typed
<1> HIDE DEF r
<1>7. /\ call' \in [Callers -> CallRecords] /\ call'[c] = r
      /\ \A d \in Callers \ {c} : call'[d] = call[d]
  BY <1>1, <1>5, <1>6 DEF Typed
<1>8. at = "resolve" => j \in Jobs
  BY DEF Takes
<1> QED BY <1>2, <1>3, <1>5, <1>6, <1>7, <1>8

LEMMA TakesKeeps ==
    ASSUME CredInv, NEW c \in Callers, NEW at, NEW S, NEW j, NEW left, Takes(c, at, S, j, left)
    PROVE  CredInv'
<1>1. /\ UNCHANGED <<files, batch, provider, history>>
      /\ call' \in [Callers -> CallRecords]
      /\ call'[c].at = at /\ call'[c].acct = S /\ call'[c].job = j /\ call'[c].mem = vault
      /\ call'[c].left = left /\ (at = "resolve" => call'[c].ck = file[j])
      /\ \A d \in Callers \ {c} : call'[d] = call[d] /\ call[d].at = "idle"
      /\ Solo(work) /\ \A p \in Processes : batch[p].at = "off"
      /\ work' \in WorkloadRecords /\ Careful(work') /\ Solo(work')
  BY TakesMoves
<1>2. /\ Typed /\ HeldOnes /\ at \in Copying /\ left \subseteq S
      /\ at \in {"resolve", "recover"} => j \in Jobs /\ \A a \in S : vault.rec[a].pstate = "unknown"
  BY DEF CredInv, Takes
<1>3. /\ vault' = vault /\ file' = file /\ batch' = batch /\ real' = real /\ totp' = totp
      /\ minted' = minted /\ issued' = issued /\ spent' = spent /\ imported' = imported
      /\ dropped' = dropped /\ Kept' = Kept
  BY <1>1 DEF files, provider, history, Kept
<1>4. Typed'
  BY <1>1, <1>2, <1>3 DEF Typed, Copying
<1>5. Alone'
  BY <1>1, <1>2, <1>3 DEF Alone, Copying
<1>6. \A p \in Processes : ~Live(p)'
  BY <1>1, <1>3 DEF Live, Lives, Hands
<1>7. CallCopies'
  BY <1>1, <1>2, <1>3 DEF CallCopies, Copying
<1>8. OpenOnes' /\ BatchCopies' /\ InHand'
  BY <1>1, <1>3, <1>6 DEF OpenOnes, BatchCopies, InHand
<1>9. HeldOnes'
  BY <1>2, <1>3, <1>6 DEF HeldOnes, HeldBy
<1> QED BY <1>4, <1>5, <1>7, <1>8, <1>9 DEF CredInv

(* The command ends: it writes its copy, or nothing.                         *)
Gives(c) ==
    /\ call[c].at # "idle" /\ call' = [call EXCEPT ![c] = Idle] /\ batch' = batch /\ work' = work
    /\ ProviderTyped' /\ vault' \in Vaults /\ file' \in [Jobs -> JobFiles]
    /\ imported' \subseteq Accounts /\ dropped' \subseteq Accounts
    /\ HeldIn(vault', Kept', real', totp')

LEMMA GivesKeeps ==
    ASSUME CredInv, NEW c \in Callers, Gives(c)
    PROVE  CredInv'
<1>1. Typed /\ Alone
  BY DEF CredInv
<1>2. /\ call' \in [Callers -> CallRecords] /\ \A d \in Callers : call'[d].at = "idle"
      /\ \A p \in Processes : batch[p].at = "off"
  BY <1>1, NothingTyped DEF Gives, Typed, Alone
<1>3. Typed'
  BY <1>1, <1>2 DEF Typed, Gives, ProviderTyped
<1>4. Alone'
  BY <1>1, <1>2 DEF Alone, Gives
<1>5. \A p \in Processes : ~Live(p)' /\ batch'[p].at = "off"
  BY <1>2 DEF Gives, Live, Lives, Hands
<1>6. CallCopies' /\ OpenOnes' /\ BatchCopies' /\ InHand'
  BY <1>2, <1>5 DEF CallCopies, OpenOnes, BatchCopies, InHand
<1>7. HeldOnes'
  BY <1>5 DEF HeldOnes, HeldBy, Gives
<1> QED BY <1>3, <1>4, <1>6, <1>7 DEF CredInv

(* What a command that is under way has.                                     *)
LEMMA CallTyped ==
    ASSUME CredInv, NEW c \in Callers, call[c].at # "idle"
    PROVE  /\ Typed /\ call[c].mem \in Vaults /\ call[c].ck \in JobFiles /\ call[c].acct \subseteq Accounts
           /\ call[c].left \subseteq Accounts
           /\ call[c].mem.rec = vault.rec /\ call[c].mem.change = vault.change
           /\ call[c].mem.rec \in [Accounts -> Records]
           /\ HeldIn(call[c].mem, Kept, real, totp) /\ Kept \subseteq Accounts
           /\ call[c].at \in {"resolve", "recover"} => call[c].job \in Jobs
<1>1. Typed /\ CallCopies /\ HeldOnes
  BY DEF CredInv
<1>2. call[c] \in CallRecords
  BY <1>1 DEF Typed
<1>3. call[c].mem.rec = vault.rec /\ call[c].mem.change = vault.change
  BY <1>1 DEF CallCopies
<1>4. HeldIn(call[c].mem, Kept, real, totp)
  BY <1>1, <1>3 DEF HeldOnes, HeldBy, HeldIn
<1> QED BY <1>1, <1>2, <1>3, <1>4 DEF CallRecords, Typed, Kept, Vaults

LEMMA ResolveSavesKeeps ==
    ASSUME CredInv, NEW c \in Callers, NEW a \in Accounts, ResolveSaves(c, a)
    PROVE  CredInv'
<1> DEFINE m == call[c].mem
           r0 == m.rec[a]
           r == [r0 EXCEPT !.pstate = "changed", !.current = r0.pending, !.pending = None,
                           !.seen = TRUE, !.last = "success"]
           j == call[c].job
           k == IF call[c].at = "resolve" THEN call[c].ck ELSE file[j]
           after == [k EXCEPT !.acct[a] = "success"]
<1>1. /\ call[c].at \in {"resolve", "recover"} /\ Accepted(r0, r0.pending, a)
      /\ vault' = [m EXCEPT !.rec[a] = r] /\ call' = [call EXCEPT ![c] = Idle]
      /\ file' = [file EXCEPT ![j] = [after EXCEPT !.status = FinalStatus(after)]]
      /\ UNCHANGED <<batch, provider, history, work>>
  BY DEF ResolveSaves, SignsIn, Resolved, ResolvedFile
<1>2. /\ Typed /\ m \in Vaults /\ r0 \in Records /\ j \in Jobs /\ k \in JobFiles
      /\ HeldIn(m, Kept, real, totp) /\ Kept \subseteq Accounts
  BY <1>1, CallTyped DEF Typed
<1> HIDE DEF m, k, j
<1>3. /\ r \in Records /\ r.pstate = "changed" /\ r.current = r0.pending /\ r.secret = r0.secret
      /\ r.last = "success"
  BY <1>2, VerifiedRecord
<1>4. real[a] = r0.pending /\ totp[a].asked \in {None, r0.secret}
  BY <1>1 DEF Accepted
<1> HIDE DEF r
<1>5. /\ vault' \in Vaults /\ vault'.rec[a] = r /\ \A b \in Accounts \ {a} : vault'.rec[b] = m.rec[b]
      /\ vault'.change = m.change
  BY <1>1, <1>2, <1>3, RecordSet
<1>6. after \in JobFiles
  BY <1>2, AccountSet DEF TerminalStates
<1> HIDE DEF after
<1>7. [after EXCEPT !.status = FinalStatus(after)] \in JobFiles
  BY <1>6, FinalTyped, StatusSet
<1>8. file' \in [Jobs -> JobFiles]
  BY <1>1, <1>2, <1>7 DEF Typed
<1>9. HeldIn(vault', Kept', real', totp')
  <2> SUFFICES ASSUME NEW b \in Kept PROVE Held(vault'.rec[b], vault'.change[b], real[b], totp[b].asked)
    BY <1>1 DEF HeldIn, provider, history, Kept
  <2>1. CASE b = a
    BY <1>3, <1>4, <1>5, <2>1 DEF Held
  <2>2. CASE b # a
    BY <1>2, <1>5, <2>2 DEF HeldIn
  <2> QED BY <2>1, <2>2
<1>10. Gives(c)
  BY <1>1, <1>2, <1>5, <1>8, <1>9, ProviderStays DEF Gives, Typed, history
<1> QED BY <1>10, GivesKeeps

LEMMA DeleteSavesKeeps ==
    ASSUME CredInv, NEW c \in Callers, NEW a \in Accounts, DeleteSaves(c, a)
    PROVE  CredInv'
<1> DEFINE m == call[c].mem
           f == [m.rec EXCEPT ![a] = NoRecord]
           g == [m.token EXCEPT ![a] = None]
<1>1. /\ call[c].at # "idle" /\ vault' = Without(m, a) /\ call' = [call EXCEPT ![c] = Idle]
      /\ dropped' = dropped \cup {a} /\ UNCHANGED <<file, batch, provider, imported, work>>
  BY DEF DeleteSaves
<1>2. /\ Typed /\ m \in Vaults /\ HeldIn(m, Kept, real, totp) /\ Kept \subseteq Accounts
  BY <1>1, CallTyped
<1> HIDE DEF m
<1>3. vault' = [rec |-> f, token |-> g, change |-> m.change]
  BY <1>1, <1>2, VaultFields DEF Without, Vaults
<1>4. /\ f \in [Accounts -> Records] /\ g \in [Accounts -> Nat]
      /\ \A b \in Accounts \ {a} : f[b] = m.rec[b]
  BY <1>2, VaultFields, NothingTyped DEF None
<1> HIDE DEF f, g
<1>5. vault' \in Vaults /\ vault'.rec = f /\ vault'.change = m.change
  BY <1>2, <1>3, <1>4 DEF Vaults
<1>6. HeldIn(vault', Kept', real', totp')
  BY <1>1, <1>2, <1>4, <1>5 DEF HeldIn, provider, Kept
<1>7. Gives(c)
  BY <1>1, <1>2, <1>5, <1>6, ProviderStays DEF Gives, Typed
<1> QED BY <1>7, GivesKeeps

LEMMA ConnectSavesKeeps ==
    ASSUME CredInv, NEW c \in Callers, NEW a \in Accounts, ConnectSaves(c, a)
    PROVE  CredInv'
<1> DEFINE m == call[c].mem
           n == issued[a] + 1
<1>1. /\ call[c].at # "idle" /\ vault' = [m EXCEPT !.token[a] = n]
      /\ issued' = [issued EXCEPT ![a] = n] /\ call' = [call EXCEPT ![c] = Idle]
      /\ UNCHANGED <<file, batch, real, minted, totp, spent, history, work>>
  BY DEF ConnectSaves
<1>2. /\ Typed /\ m \in Vaults /\ HeldIn(m, Kept, real, totp) /\ n \in Nat
  BY <1>1, CallTyped DEF Typed
<1> HIDE DEF m, n
<1>3. vault' \in Vaults /\ vault'.rec = m.rec /\ vault'.change = m.change
  BY <1>1, <1>2, VaultFields DEF Vaults
<1>4. ProviderTyped' /\ HeldIn(vault', Kept', real', totp')
  BY <1>1, <1>2, <1>3 DEF Typed, ProviderTyped, HeldIn, Kept, history
<1>5. Gives(c)
  BY <1>1, <1>2, <1>3, <1>4 DEF Gives, Typed, history
<1> QED BY <1>5, GivesKeeps

LEMMA ExportSavesKeeps ==
    ASSUME CredInv, NEW c \in Callers, ExportSaves(c) \/ GivesUp(c)
    PROVE  CredInv'
<1>1. /\ call[c].at # "idle" /\ vault' \in {vault, call[c].mem} /\ call' = [call EXCEPT ![c] = Idle]
      /\ UNCHANGED <<file, batch, provider, history, work>>
  BY DEF ExportSaves, GivesUp, Exported, files
<1>2. /\ Typed /\ call[c].mem \in Vaults /\ HeldIn(call[c].mem, Kept, real, totp)
      /\ vault \in Vaults /\ HeldIn(vault, Kept, real, totp)
  BY <1>1, CallTyped DEF CredInv, HeldOnes, HeldBy, Typed
<1>3. ProviderTyped' /\ HeldIn(vault', Kept', real', totp')
  BY <1>1, <1>2, ProviderStays DEF provider, Kept, history
<1>4. Gives(c)
  BY <1>1, <1>2, <1>3 DEF Gives, Typed, history
<1> QED BY <1>4, GivesKeeps

(* A refresh replaces one token of the command's copy.                       *)
LEMMA RefreshMoves ==
    ASSUME Typed, NEW c \in Callers, NEW a \in Accounts, ExportRefreshes(c, a)
    PROVE  /\ call' \in [Callers -> CallRecords] /\ issued[a] + 1 \in Nat
           /\ call'[c].at = "export" /\ call'[c].acct = call[c].acct
           /\ call'[c].left = call[c].left \ {a} /\ call'[c].mem.rec = call[c].mem.rec
           /\ call'[c].mem.change = call[c].mem.change
           /\ call'[c].mem.token[a] = issued[a] + 1
           /\ \A b \in Accounts \ {a} : call'[c].mem.token[b] = call[c].mem.token[b]
           /\ \A d \in Callers \ {c} : call'[d] = call[d]
<1> DEFINE n == issued[a] + 1
           k == call[c]
           m == [k.mem EXCEPT !.token[a] = n]
           left == k.left \ {a}
           r == [k EXCEPT !.left = left, !.mem = m]
<1>1. k \in CallRecords /\ n \in Nat /\ call \in [Callers -> CallRecords] /\ k.at = "export"
  BY DEF Typed, ExportRefreshes
<1>2. call' = [call EXCEPT ![c] = r]
  BY <1>1 DEF ExportRefreshes, CallRecords
<1>3. k.mem \in Vaults /\ left \subseteq Accounts
  BY <1>1 DEF CallRecords
<1> HIDE DEF n, k
<1>4. /\ m \in Vaults /\ m.token[a] = n /\ \A b \in Accounts \ {a} : m.token[b] = k.mem.token[b]
      /\ m.rec = k.mem.rec /\ m.change = k.mem.change
  BY <1>1, <1>3, VaultFields DEF Vaults
<1> HIDE DEF m, left
<1>5. r \in CallRecords /\ r.at = k.at /\ r.acct = k.acct /\ r.left = left /\ r.mem = m
  BY <1>1, <1>3, <1>4 DEF CallRecords
<1> HIDE DEF r
<1>6. /\ call' \in [Callers -> CallRecords] /\ call'[c] = r
      /\ \A d \in Callers \ {c} : call'[d] = call[d]
  BY <1>1, <1>2, <1>5
<1> QED BY <1>1, <1>4, <1>5, <1>6 DEF n, k, left

LEMMA ExportRefreshesKeeps ==
    ASSUME CredInv, NEW c \in Callers, NEW a \in Accounts, ExportRefreshes(c, a)
    PROVE  CredInv'
<1>1. /\ Typed /\ Alone /\ CallCopies /\ HeldOnes /\ call[c].at = "export" /\ a \in call[c].left
      /\ spent' = [spent EXCEPT ![a] = @ \cup {call[c].mem.token[a]}]
      /\ issued' = [issued EXCEPT ![a] = @ + 1]
      /\ vault' = vault /\ file' = file /\ batch' = batch /\ real' = real /\ minted' = minted
      /\ totp' = totp /\ imported' = imported /\ dropped' = dropped /\ work' = work
  BY DEF CredInv, ExportRefreshes, files, history
<1>2. /\ call' \in [Callers -> CallRecords] /\ issued[a] + 1 \in Nat
      /\ call'[c].at = "export" /\ call'[c].acct = call[c].acct
      /\ call'[c].left = call[c].left \ {a} /\ call'[c].mem.rec = call[c].mem.rec
      /\ call'[c].mem.change = call[c].mem.change
      /\ \A b \in Accounts \ {a} : call'[c].mem.token[b] = call[c].mem.token[b]
      /\ \A d \in Callers \ {c} : call'[d] = call[d]
  BY <1>1, RefreshMoves
<1>3. \A d \in Callers \ {c} : call'[d].at = "idle" /\ call[d].at = "idle"
  BY <1>1, <1>2 DEF Alone
<1>4. \A p \in Processes : batch[p].at = "off"
  BY <1>1 DEF Alone
<1>5. call[c].mem.token[a] \in Nat
  BY <1>1, CallTyped, VaultFields
<1>6. Typed'
  BY <1>1, <1>2, <1>3, <1>5 DEF Typed
<1>7. Alone'
  BY <1>1, <1>2, <1>3, <1>4 DEF Alone
<1>8. CallCopies'
  BY <1>1, <1>2, <1>3 DEF CallCopies
<1>9. \A p \in Processes : ~Live(p)' /\ batch'[p].at = "off"
  BY <1>1, <1>4 DEF Live, Lives, Hands
<1>10. OpenOnes' /\ BatchCopies' /\ InHand' /\ HeldOnes'
  BY <1>1, <1>9 DEF OpenOnes, BatchCopies, InHand, HeldOnes, HeldBy, Kept
<1> QED BY <1>6, <1>7, <1>8, <1>10 DEF CredInv

LEMMA LoadsKeeps ==
    ASSUME CredInv, NEW c \in Callers,
           ExportLoads(c) \/ \E a \in Accounts : \/ AgentLoads(c, a) \/ DeleteLoads(c, a)
                                                 \/ ConnectLoads(c, a)
                                                 \/ \E j \in Jobs : ResolveLoads(c, a, j)
    PROVE  \E at, S, j, left : Takes(c, at, S, j, left)
<1>1. CASE ExportLoads(c)
  <2> DEFINE ready == {a \in Accounts : IsManaged(vault.rec[a]) /\ vault.token[a] # None}
  <2>1. /\ Asked("export") /\ Loads(c, "export", ready, NoJob, ready) /\ ready \subseteq Accounts
        /\ \A a \in ready : vault.rec[a] # NoRecord /\ vault.token[a] # None
    BY <1>1, NothingTyped DEF ExportLoads, IsManaged
  <2> HIDE DEF ready
  <2>2. Takes(c, "export", ready, NoJob, ready)
    BY <2>1 DEF Takes, Copying
  <2> QED BY <2>2
<1>2. ASSUME NEW a \in Accounts, AgentLoads(c, a) PROVE \E at, S, j, left : Takes(c, at, S, j, left)
  <2>1. vault.rec[a].job \in Jobs
    BY <1>2 DEF AgentLoads, CredInv, Typed, Vaults, Records
  <2>2. Takes(c, "recover", {a}, vault.rec[a].job, {})
    BY <1>2, <2>1 DEF Takes, Copying, AgentLoads, HasAttempt
  <2> QED BY <2>2
<1>3. ASSUME NEW a \in Accounts, DeleteLoads(c, a) PROVE \E at, S, j, left : Takes(c, at, S, j, left)
  <2>1. Takes(c, "delete", {a}, NoJob, {})
    BY <1>3 DEF Takes, Copying, DeleteLoads
  <2> QED BY <2>1
<1>4. ASSUME NEW a \in Accounts, ConnectLoads(c, a) PROVE \E at, S, j, left : Takes(c, at, S, j, left)
  <2>1. Takes(c, "connect", {a}, NoJob, {})
    BY <1>4 DEF Takes, Copying, ConnectLoads
  <2> QED BY <2>1
<1>5. ASSUME NEW a \in Accounts, NEW j \in Jobs, ResolveLoads(c, a, j)
      PROVE  \E at, S, i, left : Takes(c, at, S, i, left)
  <2>1. Takes(c, "resolve", {a}, j, {})
    BY <1>5 DEF Takes, Copying, ResolveLoads, HasAttempt
  <2> QED BY <2>1
<1> QED BY <1>1, <1>2, <1>3, <1>4, <1>5

(* A process leaves its batch, and commands end without a save.              *)
LEMMA LeftKeeps ==
    ASSUME CredInv, NEW p \in Processes,
           batch' = [batch EXCEPT ![p] = Off],
           call' \in [Callers -> CallRecords],
           \A c \in Callers : call'[c] = call[c] \/ call'[c].at = "idle",
           UNCHANGED <<files, provider, history>>,
           work' \in WorkloadRecords, work'.allowed = work.allowed, work'.overlap = work.overlap
    PROVE  CredInv'
<1>1. /\ Typed /\ Alone /\ BatchCopies /\ CallCopies /\ OpenOnes /\ InHand /\ HeldOnes
  BY DEF CredInv
<1>2. /\ batch' \in [Processes -> BatchRecords] /\ batch'[p].at = "off"
      /\ \A q \in Processes : batch'[q] = batch[q] \/ batch'[q].at = "off"
  BY <1>1, NothingTyped DEF Typed
<1>3. /\ vault' = vault /\ file' = file /\ real' = real /\ minted' = minted /\ totp' = totp
      /\ issued' = issued /\ spent' = spent /\ imported' = imported /\ dropped' = dropped
      /\ Kept' = Kept
  BY DEF files, provider, history, Kept
<1>4. Typed'
  BY <1>1, <1>2, <1>3 DEF Typed
<1>5. Careful(work') /\ Solo(work') = Solo(work)
  BY <1>1 DEF Alone, Careful, Solo
<1>6. Alone'
  BY <1>1, <1>2, <1>5 DEF Alone
<1>7. \A q \in Processes : /\ Live(q)' => Live(q) /\ batch'[q] = batch[q]
                           /\ batch'[q].at = "spawned" => batch'[q] = batch[q]
  BY <1>2 DEF Live, Lives, Hands
<1>8. BatchCopies'
  BY <1>1, <1>3, <1>5, <1>7 DEF BatchCopies
<1>9. CallCopies'
  BY <1>1, <1>3 DEF CallCopies
<1>10. OpenOnes' /\ InHand' /\ HeldOnes'
  BY <1>1, <1>3, <1>7 DEF OpenOnes, InHand, HeldOnes, HeldBy
<1> QED BY <1>4, <1>6, <1>8, <1>9, <1>10 DEF CredInv

LEMMA BatchFindsNoFileKeeps ==
    ASSUME CredInv, NEW p \in Processes, BatchFindsNoFile(p)
    PROVE  CredInv'
<1>1. /\ batch' = [batch EXCEPT ![p] = Off] /\ call' = call /\ work' = work
      /\ UNCHANGED <<files, provider, history>>
  BY DEF BatchFindsNoFile
<1>2. call \in [Callers -> CallRecords] /\ work \in WorkloadRecords
  BY DEF CredInv, Typed
<1> QED BY <1>1, <1>2, LeftKeeps

LEMMA CrashKeeps ==
    ASSUME CredInv, Crash
    PROVE  CredInv'
<1>1. /\ batch' = [batch EXCEPT !["app"] = Off] /\ UNCHANGED <<files, provider, history>>
      /\ call' = [c \in Callers |-> IF call[c].at = "recover" THEN call[c] ELSE Idle]
      /\ work.crashes > 0 /\ work' = [work EXCEPT !.crashes = @ - 1]
      /\ call \in [Callers -> CallRecords] /\ work \in WorkloadRecords
  BY DEF CredInv, Typed, Crash
<1>2. /\ call' \in [Callers -> CallRecords]
      /\ \A c \in Callers : call'[c] = call[c] \/ call'[c].at = "idle"
  BY <1>1, NothingTyped
<1>3. work' \in WorkloadRecords /\ work'.allowed = work.allowed /\ work'.overlap = work.overlap
  BY <1>1 DEF WorkloadRecords
<1> QED BY <1>1, <1>2, <1>3, NumbersTyped, LeftKeeps

-----------------------------------------------------------------------------
(* A batch begins.                                                           *)

Begun(p) ==
    \/ p = "app" /\ {"start", "resume"} \cap work.allowed # {}
    \/ p = "agent" /\ "agent" \in work.allowed

LEMMA BegunAlone ==
    ASSUME Typed, Alone, NEW p \in Processes, Begun(p), batch[p].at = "off", work.overlap \/ Quiet
    PROVE  /\ \A q \in Processes : batch[q].at = "off"
           /\ \A c \in Callers : call[c].at = "idle"
<1>1. \A c \in Callers : call[c].at = "idle"
  BY DEF Alone, Quiet, Solo
<1>2. CASE Quiet
  BY <1>2, <1>1 DEF Quiet
<1>3. CASE work.overlap
  <2>1. CASE p = "app"
    BY <1>3, <2>1 DEF Alone, Careful, Solo, Begun, Processes
  <2>2. CASE p = "agent"
    BY <1>3, <2>2 DEF Alone, Careful, Solo, Begun, Processes
  <2> QED BY <2>1, <2>2 DEF Processes
<1> QED BY <1>1, <1>2, <1>3

(* The process has claimed its ACTIVE_BATCH and has written job j.           *)
Begins(p, j) ==
    /\ Begun(p) /\ j \in Jobs
    /\ \A q \in Processes : batch[q].at = "off"
    /\ \A c \in Callers : call[c].at = "idle"
    /\ batch' = [batch EXCEPT ![p] = [Off EXCEPT !.at = "spawned", !.job = j]]
    /\ UNCHANGED <<call, provider>>
    /\ work' \in WorkloadRecords /\ work'.allowed = work.allowed /\ work'.overlap = work.overlap
    /\ vault' \in Vaults /\ file' \in [Jobs -> JobFiles]
    /\ imported' \subseteq Accounts /\ dropped' \subseteq Accounts
    /\ HeldIn(vault', Kept', real, totp)
    /\ \A a \in Open(file'[j]) : vault'.rec[a].last # "success"

LEMMA BeginsMoves ==
    ASSUME Typed, NEW p \in Processes, NEW j \in Jobs,
           batch' = [batch EXCEPT ![p] = [Off EXCEPT !.at = "spawned", !.job = j]]
    PROVE  /\ batch' \in [Processes -> BatchRecords] /\ batch'[p].at = "spawned"
           /\ batch'[p].job = j /\ \A q \in Processes \ {p} : batch'[q] = batch[q]
<1> DEFINE r == [Off EXCEPT !.at = "spawned", !.job = j]
<1>1. r \in BatchRecords /\ r.at = "spawned" /\ r.job = j
  BY NothingTyped DEF BatchRecords
<1> HIDE DEF r
<1>2. batch' = [batch EXCEPT ![p] = r]
  BY DEF r
<1> QED BY <1>1, <1>2 DEF Typed

LEMMA BeginsKeeps ==
    ASSUME CredInv, NEW p \in Processes, NEW j, Begins(p, j)
    PROVE  CredInv'
<1>1. Typed /\ Alone /\ j \in Jobs
  BY DEF CredInv, Begins
<1>2. batch' = [batch EXCEPT ![p] = [Off EXCEPT !.at = "spawned", !.job = j]]
  BY DEF Begins
<1>3. /\ batch' \in [Processes -> BatchRecords] /\ batch'[p].at = "spawned"
      /\ batch'[p].job = j /\ \A q \in Processes \ {p} : batch'[q] = batch[q]
  BY <1>1, <1>2, BeginsMoves
<1>4. \A q \in Processes \ {p} : batch'[q].at = "off"
  BY <1>3 DEF Begins
<1>5. call' = call /\ real' = real /\ totp' = totp /\ ProviderTyped'
  BY <1>1, ProviderStays DEF Begins, provider
<1>6. \A c \in Callers : call'[c].at = "idle"
  BY <1>5 DEF Begins
<1>7. Typed'
  BY <1>1, <1>3, <1>4, <1>5 DEF Typed, ProviderTyped, Begins
<1>8. Alone'
  <2>1. Careful(work')
    BY <1>1 DEF Alone, Careful, Begins
  <2>2. /\ batch'["agent"].at # "off" => "agent" \in work'.allowed
        /\ batch'["app"].at # "off" => {"start", "resume"} \cap work'.allowed # {}
    BY <1>4 DEF Begins, Begun, Processes
  <2> QED BY <1>4, <1>6, <2>1, <2>2 DEF Alone
<1>9. \A q \in Processes : ~Live(q)' /\ (batch'[q].at = "spawned" => q = p)
  BY <1>3, <1>4 DEF Live, Lives, Hands
<1>10. BatchCopies' /\ CallCopies' /\ InHand'
  BY <1>6, <1>9 DEF BatchCopies, CallCopies, InHand
<1>11. OpenOnes'
  BY <1>3, <1>9 DEF OpenOnes, Begins
<1>12. HeldOnes'
  BY <1>5, <1>9 DEF HeldOnes, HeldBy, Begins
<1> QED BY <1>7, <1>8, <1>10, <1>11, <1>12 DEF CredInv

(* merge_imports_and_checkpoint.                                             *)
Imports(w, S, j) ==
    /\ w \in Vaults /\ w.token = vault.token
    /\ \A a \in Accounts \ S : w.rec[a] = vault.rec[a] /\ w.change[a] = vault.change[a]
    /\ \A a \in S : /\ w.rec[a].pstate = "original" /\ w.rec[a].current = real[a]
                    /\ w.rec[a].secret = totp[a].asked /\ w.rec[a].last = "queued"
                    /\ w.rec[a].job = j /\ w.change[a] = None

LEMMA MergedVault ==
    ASSUME Typed, NEW S \in SUBSET Accounts, NEW j \in Jobs
    PROVE  Imports(Merged(vault, S, j), S, j)
<1> DEFINE R(a) == [vault.rec[a] EXCEPT !.pstate = "original", !.current = real[a],
                                        !.secret = totp[a].asked, !.last = "queued", !.job = j]
           f == [a \in Accounts |-> IF a \notin S THEN vault.rec[a] ELSE R(a)]
           g == [a \in Accounts |-> IF a \in S THEN None ELSE vault.change[a]]
<1>1. /\ vault \in Vaults /\ vault.rec \in [Accounts -> Records]
      /\ vault.change \in [Accounts -> 0 .. MaxMinted] /\ None \in 0 .. MaxMinted
  BY NumbersTyped, VaultFields DEF Typed, None
<1>2. ASSUME NEW a \in Accounts
      PROVE  /\ R(a) \in Records /\ R(a).pstate = "original" /\ R(a).current = real[a]
             /\ R(a).secret = totp[a].asked /\ R(a).last = "queued" /\ R(a).job = j
  <2> DEFINE x == real[a]
             y == totp[a].asked
             r == vault.rec[a]
  <2>1. x \in 0 .. MaxMinted /\ y \in 0 .. MaxMinted /\ r \in Records
    BY <1>1, NumbersTyped DEF Typed
  <2>2. R(a) = [r EXCEPT !.pstate = "original", !.current = x, !.secret = y,
                         !.last = "queued", !.job = j]
    OBVIOUS
  <2> HIDE DEF x, y, r, R
  <2>3. /\ R(a) \in Records /\ R(a).pstate = "original" /\ R(a).current = x /\ R(a).secret = y
        /\ R(a).last = "queued" /\ R(a).job = j
    BY <2>1, <2>2 DEF Records
  <2> QED BY <2>3 DEF x, y
<1> DEFINE w == Merged(vault, S, j)
<1>3. w = [vault EXCEPT !.rec = f, !.change = g]
  BY DEF Merged
<1> HIDE DEF w
<1> HIDE DEF R
<1>4. f \in [Accounts -> Records] /\ g \in [Accounts -> 0 .. MaxMinted]
  BY <1>1, <1>2
<1>5. /\ \A a \in Accounts \ S : f[a] = vault.rec[a] /\ g[a] = vault.change[a]
      /\ \A a \in S : f[a] = R(a) /\ g[a] = None
  OBVIOUS
<1> HIDE DEF f, g
<1>6. w \in Vaults /\ w.rec = f /\ w.change = g /\ w.token = vault.token
  BY <1>1, <1>3, <1>4 DEF Vaults
<1>7. Imports(w, S, j)
  BY <1>2, <1>5, <1>6 DEF Imports
<1> QED BY <1>7 DEF w

(* A new job file has an account queued or has it not.                       *)
LEMMA NewFile ==
    ASSUME NEW S \in SUBSET Accounts, NEW op \in {"change_password", "change_totp"}, NEW ck,
           ck = [status |-> "queued", op |-> op,
                 acct |-> [a \in Accounts |-> IF a \in S THEN "queued" ELSE "none"]]
    PROVE  /\ ck \in JobFiles /\ Open(ck) = S /\ ck.status = "queued"
           /\ \A a \in Accounts : ck.acct[a] = IF a \in S THEN "queued" ELSE "none"
BY DEF JobFiles, Open

(* What prepare_new_batch leaves.                                            *)
Prepared(p, S, j, ck) ==
    /\ j \in Jobs /\ ck \in JobFiles
    /\ j = MaxJobs - work.jobs + 1 /\ Open(ck) = S /\ ck.status = "queued"
    /\ \A a \in Accounts : ck.acct[a] = IF a \in S THEN "queued" ELSE "none"
    /\ vault' = Merged(vault, S, j) /\ file' = [file EXCEPT ![j] = ck]
    /\ batch' = [batch EXCEPT ![p] = [Off EXCEPT !.at = "spawned", !.job = j]]
    /\ imported' = imported \cup S /\ dropped' = dropped \ S
    /\ UNCHANGED <<call, provider>>
    /\ \A q \in Processes : batch[q].at = "off"
    /\ \A c \in Callers : call[c].at = "idle"
    /\ work' \in WorkloadRecords /\ work'.allowed = work.allowed
    /\ work'.overlap = work.overlap /\ work'.jobs = work.jobs - 1
    /\ work'.accounts = work.accounts /\ work'.crashes = work.crashes
    /\ Cardinality(imported \cup S) <= work.accounts
    /\ Importable(vault, S)

LEMMA PrepareMoves ==
    ASSUME Typed, Alone, NEW p \in Processes, NEW S \in SUBSET Accounts,
           NEW op \in {"change_password", "change_totp"}, Begun(p), Prepare(p, S, op)
    PROVE  \E j, ck : Prepared(p, S, j, ck)
<1> DEFINE j == MaxJobs - work.jobs + 1
           ck == [status |-> "queued", op |-> op,
                  acct |-> [a \in Accounts |-> IF a \in S THEN "queued" ELSE "none"]]
<1>1. /\ work.jobs > 0 /\ (work.overlap \/ Quiet) /\ batch[p].at = "off"
      /\ vault' = Merged(vault, S, j) /\ file' = [file EXCEPT ![j] = ck]
      /\ batch' = [batch EXCEPT ![p] = [Off EXCEPT !.at = "spawned", !.job = j]]
      /\ work' = [work EXCEPT !.jobs = @ - 1]
      /\ imported' = imported \cup S /\ dropped' = dropped \ S
      /\ UNCHANGED <<call, provider>>
      /\ Cardinality(imported \cup S) <= work.accounts /\ Importable(vault, S)
  BY DEF Prepare
<1>2. work \in WorkloadRecords /\ work.jobs \in 0 .. MaxJobs
  BY DEF Typed, WorkloadRecords
<1>3. j \in Jobs
  BY <1>1, <1>2, NumbersTyped DEF Jobs
<1>4. /\ work' \in WorkloadRecords /\ work'.allowed = work.allowed
      /\ work'.overlap = work.overlap /\ work'.jobs = work.jobs - 1
      /\ work'.accounts = work.accounts /\ work'.crashes = work.crashes
  BY <1>1, <1>2, NumbersTyped DEF WorkloadRecords
<1>5. /\ \A q \in Processes : batch[q].at = "off"
      /\ \A c \in Callers : call[c].at = "idle"
  BY <1>1, BegunAlone
<1>6. /\ ck \in JobFiles /\ Open(ck) = S /\ ck.status = "queued"
      /\ \A a \in Accounts : ck.acct[a] = IF a \in S THEN "queued" ELSE "none"
  BY NewFile
<1> HIDE DEF ck, j
<1>7. Prepared(p, S, j, ck)
  BY <1>1, <1>3, <1>4, <1>5, <1>6 DEF Prepared, j
<1> QED BY <1>7

LEMMA PrepareKeeps ==
    ASSUME CredInv, NEW p \in Processes, NEW S \in SUBSET Accounts,
           NEW op \in {"change_password", "change_totp"}, Begun(p), Prepare(p, S, op)
    PROVE  CredInv'
<1>1. Typed /\ Alone /\ HeldOnes
  BY DEF CredInv
<1>2. PICK j, ck : Prepared(p, S, j, ck)
  BY <1>1, PrepareMoves
<1>a. vault' = Merged(vault, S, j) /\ j \in Jobs
  BY <1>2 DEF Prepared
<1>b. Imports(vault', S, j)
  BY <1>1, <1>a, MergedVault
<1>4. file' \in [Jobs -> JobFiles] /\ file'[j] = ck
  BY <1>1, <1>2 DEF Typed, Prepared
<1>5. HeldIn(vault', Kept', real, totp)
  <2> SUFFICES ASSUME NEW a \in Kept' PROVE Held(vault'.rec[a], vault'.change[a], real[a], totp[a].asked)
    BY DEF HeldIn
  <2>1. CASE a \in S
    BY <1>b, <2>1 DEF Held, Imports
  <2>2. CASE a \notin S
    <3>1. a \in Kept /\ a \in Accounts
      BY <1>1, <1>2, <2>2 DEF Kept, Typed, Prepared
    <3> QED BY <1>1, <1>b, <2>2, <3>1 DEF HeldOnes, HeldBy, HeldIn, Imports
  <2> QED BY <2>1, <2>2
<1>6. imported' \subseteq Accounts /\ dropped' \subseteq Accounts
  BY <1>1, <1>2 DEF Typed, Prepared
<1>7. Begins(p, j)
  BY <1>2, <1>b, <1>4, <1>5, <1>6 DEF Begins, Prepared, Imports
<1> QED BY <1>7, BeginsKeeps

(* What resume_job leaves.                                                   *)
Resumed(j, f, ck) ==
    /\ f \in [Accounts -> Records] /\ ck \in JobFiles
    /\ vault' = [vault EXCEPT !.rec = f] /\ file' = [file EXCEPT ![j] = ck]
    /\ \A a \in Accounts : Same(f[a], vault.rec[a])
    /\ \A a \in Accounts : f[a].last = "success" => vault.rec[a].last = "success"
    /\ \A a \in Open(file[j]) : ck.acct[a] = "queued" /\ f[a].last = "queued"
    /\ \A a \in Accounts \ Open(file[j]) : ck.acct[a] = file[j].acct[a] /\ f[a] = vault.rec[a]
    /\ Open(ck) = Open(file[j])

LEMMA ResumeMoves ==
    ASSUME Typed, Alone, NEW j \in Jobs, Resume(j)
    PROVE  \E f, ck : Resumed(j, f, ck)
<1> DEFINE open == Open(file[j])
           f == [a \in Accounts |-> IF a \in open THEN [vault.rec[a] EXCEPT !.last = "queued", !.job = j]
                                    ELSE vault.rec[a]]
           acct == [a \in Accounts |-> IF a \in open THEN "queued" ELSE file[j].acct[a]]
           ck == [file[j] EXCEPT !.status = "queued", !.acct = acct]
<1>1. /\ vault \in Vaults /\ vault.rec \in [Accounts -> Records] /\ file[j] \in JobFiles
      /\ file[j].acct \in [Accounts -> {"none", "queued", "changing"} \cup TerminalStates]
  BY DEF Typed, Vaults, JobFiles
<1>2. vault' = [vault EXCEPT !.rec = f] /\ file' = [file EXCEPT ![j] = ck]
  BY <1>1 DEF Resume, JobFiles, Vaults
<1>3. ASSUME NEW a \in Accounts
      PROVE  /\ f[a] \in Records /\ Same(f[a], vault.rec[a])
             /\ a \in open => f[a].last = "queued"
             /\ a \notin open => f[a] = vault.rec[a]
  <2> DEFINE r0 == vault.rec[a]
             r == [r0 EXCEPT !.last = "queued", !.job = j]
  <2>1. r0 \in Records
    BY <1>1
  <2> HIDE DEF r0
  <2>2. r \in Records /\ Same(r, r0) /\ r.last = "queued" /\ Same(r0, r0)
    BY <2>1 DEF Records, Same
  <2>3. f[a] = IF a \in open THEN r ELSE r0
    BY DEF r0
  <2> HIDE DEF r, f, open
  <2> QED BY <2>1, <2>2, <2>3 DEF r0
<1>4. f \in [Accounts -> Records]
  BY <1>3
<1>5. acct \in [Accounts -> {"none", "queued", "changing"} \cup TerminalStates]
  BY <1>1
<1>6. /\ \A a \in open : acct[a] = "queued"
      /\ \A a \in Accounts \ open : acct[a] = file[j].acct[a]
  BY DEF Open
<1> HIDE DEF acct, f
<1>7. ck \in JobFiles /\ ck.acct = acct
  BY <1>1, <1>5 DEF JobFiles
<1> HIDE DEF ck
<1>8. Open(ck) = open
  BY <1>6, <1>7 DEF Open
<1>9. \A a \in Accounts : f[a].last = "success" => vault.rec[a].last = "success"
  BY <1>3
<1>10. Resumed(j, f, ck)
  <2>1. open \subseteq Accounts
    BY DEF Open
  <2> QED BY <1>2, <1>3, <1>4, <1>6, <1>7, <1>8, <1>9, <2>1 DEF Resumed
<1> QED BY <1>10

LEMMA ResumeKeeps ==
    ASSUME CredInv, NEW j \in Jobs, Resume(j)
    PROVE  CredInv'
<1>1. Typed /\ Alone /\ HeldOnes /\ Asked("resume") /\ batch["app"].at = "off"
  BY DEF CredInv, Resume, NoneActive
<1>2. PICK f, ck : Resumed(j, f, ck)
  BY <1>1, ResumeMoves
<1>3. /\ batch' = [batch EXCEPT !["app"] = [Off EXCEPT !.at = "spawned", !.job = j]]
      /\ UNCHANGED <<call, provider, history>>
  BY DEF Resume
<1>4. vault' \in Vaults /\ vault'.rec = f /\ vault'.change = vault.change
  BY <1>1, <1>2 DEF Typed, Vaults, Resumed
<1>5. file' \in [Jobs -> JobFiles] /\ file'[j] = ck
  BY <1>1, <1>2 DEF Typed, Resumed
<1>6. /\ "resume" \in work.allowed /\ work' \in WorkloadRecords /\ work'.allowed = work.allowed
      /\ work'.overlap = work.overlap
  BY <1>1, AskedAlone
<1>7. Begun("app") /\ (work.overlap \/ Quiet)
  BY <1>1, <1>6 DEF Begun, Asked
<1>8. /\ \A q \in Processes : batch[q].at = "off"
      /\ \A c \in Callers : call[c].at = "idle"
  BY <1>1, <1>7, BegunAlone, NumbersTyped
<1>9. HeldIn(vault', Kept', real, totp)
  <2> SUFFICES ASSUME NEW a \in Kept PROVE Held(f[a], vault.change[a], real[a], totp[a].asked)
    BY <1>3, <1>4 DEF HeldIn, history, Kept
  <2>1. a \in Accounts
    BY <1>1 DEF Kept, Typed
  <2> QED BY <1>1, <1>2, <2>1 DEF HeldOnes, HeldBy, HeldIn, Held, Same, Resumed
<1>10. Begins("app", j)
  BY <1>1, <1>2, <1>3, <1>4, <1>5, <1>6, <1>7, <1>8, <1>9 DEF Begins, Typed, history, Resumed
<1> QED BY <1>10, BeginsKeeps, NumbersTyped

-----------------------------------------------------------------------------
(* Every step.                                                               *)

LEMMA CredInit == ASSUME \A w \in Workloads : Careful(w), Init PROVE CredInv
<1>1. Typed
  <2>1. 1 \in 1 .. MaxMinted /\ 1 \in 0 .. MaxMinted
    BY NumbersTyped
  <2>2. work \in WorkloadRecords
    BY NumbersTyped DEF Init
  <2> QED BY <2>1, <2>2, NothingTyped DEF Init, Typed, None
<1>2. /\ \A p \in Processes : batch[p].at = "off" /\ ~Live(p)
      /\ \A c \in Callers : call[c].at = "idle"
  BY NothingTyped DEF Init, Live, Lives, Hands
<1>3. Careful(work)
  BY DEF Init
<1>4. Alone
  BY <1>2, <1>3, NumbersTyped DEF Alone
<1>5. BatchCopies /\ CallCopies /\ OpenOnes /\ InHand
  BY <1>2 DEF BatchCopies, CallCopies, OpenOnes, InHand
<1>6. HeldOnes
  BY <1>2 DEF HeldOnes, HeldBy, HeldIn, Kept, Init
<1> QED BY <1>1, <1>4, <1>5, <1>6 DEF CredInv

LEMMA BatchStepsKeep ==
    ASSUME CredInv, NEW p \in Processes, BatchSteps(p)
    PROVE  CredInv'
<1>1. CASE BatchLoads(p)
  BY <1>1, BatchLoadsKeeps
<1>2. CASE BatchEnds(p)
  BY <1>2, BatchEndsKeeps
<1>3. CASE BatchFindsNoFile(p)
  BY <1>3, BatchFindsNoFileKeeps
<1>4. ASSUME NEW a \in Accounts, BatchAuthorizes(p, a) PROVE CredInv'
  BY <1>4, BatchAuthorizesSettles, SettlingKeeps
<1>5. ASSUME NEW a \in Accounts, ProviderAccepts(p, a) PROVE CredInv'
  BY <1>5, ProviderAcceptsKeeps
<1>6. ASSUME NEW a \in Accounts, BatchVerifies(p, a) PROVE CredInv'
  BY <1>6, BatchVerifiesSettles, SettlingKeeps
<1>7. ASSUME NEW a \in Accounts, BatchIsUnsure(p, a) PROVE CredInv'
  BY <1>7, BatchIsUnsureSettles, SettlingKeeps
<1>8. ASSUME NEW a \in Accounts, BatchFails(p, a) \/ TotpFails(p, a) PROVE CredInv'
  BY <1>8, TotpFailsSettles, SettlingKeeps
<1>9. ASSUME NEW a \in Accounts, BatchErrs(p, a) PROVE CredInv'
  BY <1>9, BatchErrsKeeps
<1>10. ASSUME NEW a \in Accounts, TotpOpens(p, a) PROVE CredInv'
  BY <1>10, TotpOpensSettles, SettlingKeeps
<1>11. ASSUME NEW a \in Accounts, TotpAuthorizes(p, a) PROVE CredInv'
  BY <1>11, TotpAuthorizesSettles, SettlingKeeps
<1>12. ASSUME NEW a \in Accounts, ProviderDisables(p, a) \/ ProviderEnrolls(p, a) PROVE CredInv'
  BY <1>12, ProviderDisablesKeeps
<1>13. ASSUME NEW a \in Accounts, TotpEnrolls(p, a) PROVE CredInv'
  BY <1>13, TotpEnrollsSettles, SettlingKeeps
<1>14. ASSUME NEW a \in Accounts, TotpVerifies(p, a) PROVE CredInv'
  BY <1>14, TotpVerifiesSettles, SettlingKeeps
<1> QED
  BY <1>1, <1>2, <1>3, <1>4, <1>5, <1>6, <1>7, <1>8, <1>9, <1>10, <1>11, <1>12, <1>13, <1>14
     DEF BatchSteps

LEMMA CallerStepsKeep ==
    ASSUME CredInv, NEW c \in Callers, CallerSteps(c)
    PROVE  CredInv'
<1>1. CASE \/ ExportLoads(c)
           \/ \E a \in Accounts : \/ AgentLoads(c, a) \/ DeleteLoads(c, a) \/ ConnectLoads(c, a)
                                  \/ \E j \in Jobs : ResolveLoads(c, a, j)
  <2>1. PICK at, S, j, left : Takes(c, at, S, j, left)
    BY <1>1, LoadsKeeps
  <2> QED BY <2>1, TakesKeeps
<1>2. CASE ExportSaves(c) \/ GivesUp(c)
  BY <1>2, ExportSavesKeeps
<1>3. ASSUME NEW a \in Accounts, ResolveSaves(c, a) PROVE CredInv'
  BY <1>3, ResolveSavesKeeps
<1>4. ASSUME NEW a \in Accounts, DeleteSaves(c, a) PROVE CredInv'
  BY <1>4, DeleteSavesKeeps
<1>5. ASSUME NEW a \in Accounts, ConnectSaves(c, a) PROVE CredInv'
  BY <1>5, ConnectSavesKeeps
<1>6. ASSUME NEW a \in Accounts, ExportRefreshes(c, a) PROVE CredInv'
  BY <1>6, ExportRefreshesKeeps
<1> QED BY <1>1, <1>2, <1>3, <1>4, <1>5, <1>6 DEF CallerSteps

LEMMA StartsAre ==
    ASSUME NEW S, Start(S) \/ AgentStarts(S)
    PROVE  \E p \in Processes : \E op \in {"change_password", "change_totp"} :
               Begun(p) /\ Prepare(p, S, op)
<1>1. Operations \subseteq {"change_password", "change_totp"}
  BY DEF Operations
<1>2. CASE Start(S)
  <2>1. Begun("app")
    BY <1>2 DEF Start, Begun
  <2> QED BY <1>1, <1>2, <2>1, NumbersTyped DEF Start
<1>3. CASE AgentStarts(S)
  <2>1. Begun("agent")
    BY <1>3 DEF AgentStarts, Begun
  <2> QED BY <1>1, <1>3, <2>1, NumbersTyped DEF AgentStarts
<1> QED BY <1>2, <1>3

LEMMA CredStutters == ASSUME CredInv, UNCHANGED vars PROVE CredInv'
<1>1. /\ vault' = vault /\ file' = file /\ batch' = batch /\ call' = call /\ real' = real
      /\ minted' = minted /\ totp' = totp /\ issued' = issued /\ spent' = spent
      /\ imported' = imported /\ dropped' = dropped /\ work' = work
  BY DEF vars, files, provider, history
<1>2. /\ Typed /\ Alone /\ BatchCopies /\ CallCopies /\ OpenOnes /\ InHand /\ HeldOnes
  BY DEF CredInv
<1>3. Typed' /\ Alone'
  BY <1>1, <1>2 DEF Typed, Alone
<1>4. BatchCopies' /\ CallCopies' /\ OpenOnes' /\ InHand' /\ HeldOnes'
  BY <1>1, <1>2 DEF BatchCopies, CallCopies, OpenOnes, InHand, HeldOnes, HeldBy, Live, Kept
<1> QED BY <1>3, <1>4 DEF CredInv

LEMMA CredSteps == ASSUME CredInv, [Next]_vars PROVE CredInv'
<1>1. ASSUME NEW p \in Processes, BatchSteps(p) PROVE CredInv'
  BY <1>1, BatchStepsKeep
<1>2. ASSUME NEW S \in SUBSET Accounts, Start(S) \/ AgentStarts(S) PROVE CredInv'
  <2>1. PICK p \in Processes, op \in {"change_password", "change_totp"} : Begun(p) /\ Prepare(p, S, op)
    BY <1>2, StartsAre
  <2> QED BY <2>1, PrepareKeeps
<1>3. ASSUME NEW j \in Jobs, Resume(j) PROVE CredInv'
  BY <1>3, ResumeKeeps
<1>4. ASSUME NEW j \in Jobs, CancelInactive(j) PROVE CredInv'
  BY <1>4, CancelKeeps
<1>5. ASSUME NEW j \in Jobs, Abandon(j) PROVE CredInv'
  BY <1>5, AbandonKeeps
<1>6. ASSUME NEW j \in Jobs, Clean(j) PROVE CredInv'
  BY <1>6, CleanKeeps
<1>7. ASSUME NEW a \in Accounts, SessionConnects(a) PROVE CredInv'
  BY <1>7, SessionKeeps
<1>8. ASSUME NEW c \in Callers, CallerSteps(c) PROVE CredInv'
  BY <1>8, CallerStepsKeep
<1>9. CASE Crash
  BY <1>9, CrashKeeps
<1>10. CASE UNCHANGED vars
  BY <1>10, CredStutters
<1> QED BY <1>1, <1>2, <1>3, <1>4, <1>5, <1>6, <1>7, <1>8, <1>9, <1>10 DEF Next

(* The invariant that the theorems follow from.                              *)
LEMMA CredInvariant ==
    ASSUME \A w \in Workloads : Careful(w)
    PROVE  Spec => []CredInv
<1>1. Init => CredInv
  BY CredInit
<1>2. CredInv /\ [Next]_vars => CredInv'
  BY CredSteps
<1> QED BY <1>1, <1>2, PTL DEF Spec

(* No save of a whole vault loses a password or a TOTP secret that the        *)
(* provider asks for, for any number of accounts, batches, commands and       *)
(* crashes (persist_snapshot, save_vault), as long as a command that keeps a  *)
(* copy does not overlap with anything and one process starts batches while   *)
(* commands overlap.                                                         *)
THEOREM CredentialsAreKept ==
    ASSUME \A w \in Workloads : Careful(w)
    PROVE  Spec => []CredentialsKept
<1>1. CredInv => CredentialsKept
  <2>1. CredInv => TypeOK
    BY DEF CredInv, Typed, TypeOK, BatchRecords, CallRecords, WorkloadRecords
  <2>2. CredInv => Recoverable /\ SecretKept
    BY SoundHeld DEF CredInv, HeldOnes
  <2> QED BY <2>1, <2>2 DEF CredentialsKept
<1> QED BY <1>1, CredInvariant, PTL

(* Under the same condition, an account that the vault calls successful signs *)
(* in with what the vault says of it (the Verified event,                    *)
(* merge_imports_and_checkpoint).                                            *)
THEOREM SuccessIsTrue ==
    ASSUME \A w \in Workloads : Careful(w)
    PROVE  Spec => []SuccessSignsIn
<1>1. CredInv => SuccessSignsIn
  BY SoundHeld DEF CredInv, HeldOnes
<1> QED BY <1>1, CredInvariant, PTL

-----------------------------------------------------------------------------
(* The way back of an unknown password.                                      *)

SameRules == work'.allowed = work.allowed /\ work'.overlap = work.overlap

LEMMA StillOrdered == ASSUME SameRules, BackInv, Ordered(work') PROVE Ordered(work) /\ Fresh /\ QueuedKnown /\ WayBack
BY DEF SameRules, Ordered, Solo, BackInv

(* A step that leaves the job files, and no password unknown that was not.    *)
LEMMA StillBack ==
    ASSUME CredInv, BackInv, SameRules, work'.jobs = work.jobs, file' = file,
           \A a \in Accounts : vault'.rec[a].pstate = "unknown" => vault.rec[a].pstate = "unknown",
           \A p \in Processes : batch'[p] = batch[p] \/ batch'[p].at = "off"
    PROVE  BackInv'
<1> SUFFICES ASSUME Ordered(work') PROVE Fresh' /\ QueuedKnown' /\ WayBack'
  BY DEF BackInv
<1>1. Ordered(work) /\ Fresh /\ QueuedKnown /\ WayBack /\ Typed
  BY StillOrdered DEF CredInv
<1>2. Fresh'
  BY <1>1 DEF Fresh
<1>3. WayBack'
  BY <1>1 DEF WayBack
<1>4. QueuedKnown'
  <2> SUFFICES ASSUME NEW p \in Processes, batch'[p].at # "off"
               PROVE  /\ Live(p)' => \A a \in Accounts :
                           batch'[p].ck.acct[a] = "queued" => vault'.rec[a].pstate # "unknown"
                      /\ batch'[p].at = "spawned" => \A a \in Accounts :
                           file'[batch'[p].job].acct[a] = "queued" => vault'.rec[a].pstate # "unknown"
                      /\ batch'[p].at \in {"opened", "disabling", "enrolling"} =>
                           \A a \in batch'[p].acct : vault'.rec[a].pstate # "unknown"
    BY DEF QueuedKnown, Live, Lives, Hands
  <2>1. batch'[p] = batch[p]
    OBVIOUS
  <2>2. batch[p].acct \subseteq Accounts
    BY <1>1 DEF Typed, BatchRecords
  <2> QED BY <1>1, <2>1, <2>2 DEF QueuedKnown, Live
<1> QED BY <1>2, <1>3, <1>4

(* A batch writes its copies: an account is unknown in them with a way back.  *)
Leaves(p, at, acct, mem, ck) ==
    /\ Persists(p, at, acct, mem, ck)
    /\ \A a \in Accounts : mem.rec[a].pstate = "unknown" =>
           \/ ck.acct[a] \in Ways
           \/ vault.rec[a].pstate = "unknown" /\ ck.acct[a] = file[batch[p].job].acct[a]
    /\ at # "off" => \A a \in Accounts :
           ck.acct[a] = "queued" => mem.rec[a].pstate # "unknown"
    /\ at \in {"opened", "disabling", "enrolling"} =>
           \A a \in acct : mem.rec[a].pstate # "unknown"

LEMMA LeavesBack ==
    ASSUME CredInv, BackInv, NEW p, NEW at, NEW acct, NEW mem, NEW ck, Leaves(p, at, acct, mem, ck)
    PROVE  BackInv'
<1>1. Typed /\ Alone /\ Persists(p, at, acct, mem, ck) /\ p \in Processes /\ batch[p].at # "off"
  BY DEF CredInv, Leaves, Persists
<1>2. /\ file' \in [Jobs -> JobFiles]
      /\ vault' = mem /\ batch[p].job \in Jobs /\ file'[batch[p].job] = ck
      /\ \A j \in Jobs \ {batch[p].job} : file'[j] = file[j]
      /\ \A q \in Processes \ {p} : batch'[q] = batch[q]
      /\ batch'[p].at = at
      /\ at # "off" => /\ batch'[p].job = batch[p].job /\ batch'[p].acct = acct
                       /\ batch'[p].mem = mem /\ batch'[p].ck = ck
      /\ work' = work
  BY <1>1, PersistMoves
<1> SUFFICES ASSUME Ordered(work') PROVE Fresh' /\ QueuedKnown' /\ WayBack'
  BY DEF BackInv
<1>3. Fresh /\ QueuedKnown /\ WayBack
  BY <1>2 DEF BackInv
<1>4. \A q \in Processes \ {p} : batch'[q].at = "off"
  BY <1>1, <1>2 DEF Alone
<1>5. Fresh'
  <2>1. batch[p].job <= MaxJobs - work.jobs
    BY <1>1, <1>3 DEF Fresh
  <2>2. work.jobs \in Nat /\ MaxJobs \in Nat /\ batch[p].job \in Nat
    BY <1>1, <1>2, NumbersTyped DEF Typed, WorkloadRecords, Jobs
  <2>3. \A j \in Jobs : j > MaxJobs - work.jobs => j # batch[p].job
    BY <2>1, <2>2 DEF Jobs
  <2>4. \A j \in Jobs : j > MaxJobs - work'.jobs => file'[j] = NoFile
    BY <1>2, <1>3, <2>3 DEF Fresh
  <2>5. \A q \in Processes : batch'[q].at # "off" => batch'[q].job <= MaxJobs - work'.jobs
    BY <1>2, <1>4, <2>1
  <2> QED BY <2>4, <2>5 DEF Fresh
<1>6. WayBack'
  <2> SUFFICES ASSUME NEW a \in Accounts, mem.rec[a].pstate = "unknown"
               PROVE  \E j \in Jobs : file'[j].acct[a] \in Ways
    BY <1>2 DEF WayBack
  <2>1. CASE ck.acct[a] \in Ways
    BY <1>2, <2>1
  <2>2. CASE vault.rec[a].pstate = "unknown" /\ ck.acct[a] = file[batch[p].job].acct[a]
    <3>1. PICK j \in Jobs : file[j].acct[a] \in Ways
      BY <1>3, <2>2 DEF WayBack
    <3> QED BY <1>2, <2>2, <3>1
  <2> QED BY <2>1, <2>2 DEF Leaves
<1>7. QueuedKnown'
  BY <1>2, <1>4 DEF QueuedKnown, Leaves, Live, Lives, Hands
<1> QED BY <1>5, <1>6, <1>7

(* A live batch, with nobody else: its copies are the vault and the file.     *)
LEMMA SoloCopies ==
    ASSUME CredInv, NEW p \in Processes, Live(p), Solo(work)
    PROVE  batch[p].mem = vault /\ batch[p].ck = file[batch[p].job]
BY DEF CredInv, BatchCopies

LEMMA SettlingBack ==
    ASSUME CredInv, BackInv, NEW p, Settling(p)
    PROVE  BackInv'
<1>1. PICK a, r, ch, state, at, acct, mem, ck : Settles(p, a, r, ch, state, at, acct, mem, ck)
  BY DEF Settling
<1>2. /\ p \in Processes /\ Live(p) /\ a \in Accounts /\ acct \subseteq {a}
      /\ mem.rec[a] = r /\ ck.acct[a] = state
      /\ \A b \in Accounts \ {a} : /\ mem.rec[b] = batch[p].mem.rec[b]
                                   /\ ck.acct[b] = batch[p].ck.acct[b]
      /\ Persists(p, at, acct, mem, ck) /\ work' = work
  BY <1>1 DEF Settles, Persists, Live, Lives, Hands, Persist
<1>3. CASE ~Ordered(work)
  BY <1>2, <1>3 DEF BackInv
<1>4. CASE Ordered(work)
  <2>1. /\ batch[p].mem = vault /\ batch[p].ck = file[batch[p].job]
        /\ QueuedKnown /\ WayBack
    BY <1>2, <1>4, SoloCopies DEF BackInv, Ordered
  <2>2. r.pstate = "unknown" => state \in {"critical", "changing"} /\ at \notin {"opened", "disabling", "enrolling"}
    BY <1>1, <1>2, <2>1 DEF Settles, QueuedKnown, Unbegun
  <2>3. state # "queued"
    BY <1>1 DEF Settles
  <2>4. \A b \in Accounts : mem.rec[b].pstate = "unknown" =>
           \/ ck.acct[b] \in Ways
           \/ vault.rec[b].pstate = "unknown" /\ ck.acct[b] = file[batch[p].job].acct[b]
    BY <1>2, <2>1, <2>2 DEF Ways
  <2>5. \A b \in Accounts : ck.acct[b] = "queued" => mem.rec[b].pstate # "unknown"
    BY <1>2, <2>1, <2>3 DEF QueuedKnown
  <2>6. Leaves(p, at, acct, mem, ck)
    BY <1>2, <2>2, <2>4, <2>5 DEF Leaves
  <2> QED BY <2>6, LeavesBack
<1> QED BY <1>3, <1>4

LEMMA BatchLoadsBack ==
    ASSUME CredInv, BackInv, NEW p \in Processes, BatchLoads(p) \/ BatchEnds(p)
    PROVE  BackInv'
<1>1. CASE ~Ordered(work)
  BY <1>1 DEF BackInv, BatchLoads, BatchEnds, Persist
<1>2. CASE Ordered(work) /\ BatchLoads(p)
  <2> DEFINE ck == [file[batch[p].job] EXCEPT !.status = "running"]
  <2>1. /\ Typed /\ batch[p].job \in Jobs /\ batch[p].at = "spawned" /\ file[batch[p].job] \in JobFiles
        /\ vault \in Vaults /\ Persist(p, "next", {}, vault, ck) /\ QueuedKnown
    BY <1>2 DEF CredInv, Typed, BatchLoads, BackInv
  <2>2. ck \in JobFiles /\ ck.acct = file[batch[p].job].acct
    BY <2>1 DEF JobFiles
  <2> HIDE DEF ck
  <2>3. \A a \in Accounts : ck.acct[a] = "queued" => vault.rec[a].pstate # "unknown"
    BY <2>1, <2>2 DEF QueuedKnown
  <2>4. Leaves(p, "next", {}, vault, ck)
    BY <2>1, <2>2, <2>3 DEF Leaves, Persists, Lives
  <2> QED BY <2>4, LeavesBack
<1>3. CASE Ordered(work) /\ BatchEnds(p)
  <2> DEFINE m == batch[p].mem
             status == IF Open(batch[p].ck) = {} THEN FinalStatus(batch[p].ck) ELSE "paused"
             ck == [batch[p].ck EXCEPT !.status = status]
  <2>1. Live(p) /\ Persist(p, "off", {}, m, ck)
    BY <1>3 DEF BatchEnds, Live, Lives
  <2>2. m \in Vaults /\ batch[p].ck \in JobFiles /\ batch[p].at # "off"
    BY <2>1, LiveBatch
  <2>3. status \in {"queued", "running", "completed", "failed", "critical", "cancelled", "paused"}
    BY <2>2, FinalTyped
  <2> HIDE DEF status
  <2>4. ck \in JobFiles /\ ck.acct = batch[p].ck.acct
    BY <2>2, <2>3, StatusSet
  <2>5. m = vault /\ batch[p].ck = file[batch[p].job]
    BY <1>3, <2>1, SoloCopies DEF Ordered
  <2> HIDE DEF ck
  <2>6. Leaves(p, "off", {}, m, ck)
    BY <2>1, <2>2, <2>4, <2>5 DEF Leaves, Persists
  <2> QED BY <2>6, LeavesBack
<1> QED BY <1>1, <1>2, <1>3

LEMMA BatchErrsBack ==
    ASSUME CredInv, BackInv, NEW p \in Processes, NEW a \in Accounts, BatchErrs(p, a)
    PROVE  BackInv'
<1> DEFINE j == batch[p].job
           ck0 == file[j]
           state == IF vault.rec[a].pstate = "unknown" THEN "critical" ELSE "failed"
           r == Marked(vault.rec[a], state)
           mem == [vault EXCEPT !.rec[a] = r]
           ck == [ck0 EXCEPT !.status = state, !.acct[a] = state]
<1>1. batch[p].at # "off" /\ Persist(p, "off", {}, mem, ck)
  BY DEF BatchErrs
<1>2. /\ vault \in Vaults /\ ck0 \in JobFiles /\ vault.rec[a] \in Records
  BY <1>1 DEF CredInv, Typed, Vaults
<1> HIDE DEF ck0
<1>3. state \in {"failed", "critical"}
  OBVIOUS
<1>a. vault.rec[a].pstate = "unknown" => state = "critical"
  OBVIOUS
<1> HIDE DEF state
<1>4. r \in Records /\ Same(r, vault.rec[a])
  BY <1>2, <1>3, MarkedTyped
<1> HIDE DEF r
<1>5. /\ mem \in Vaults /\ mem.rec[a] = r /\ \A b \in Accounts \ {a} : mem.rec[b] = vault.rec[b]
  BY <1>2, <1>4, RecordSet
<1>6. ck \in JobFiles /\ ck.acct[a] = state /\ \A b \in Accounts \ {a} : ck.acct[b] = ck0.acct[b]
  BY <1>2, <1>3 DEF JobFiles, TerminalStates
<1> HIDE DEF mem, ck
<1>7. \A b \in Accounts : mem.rec[b].pstate = "unknown" =>
           \/ ck.acct[b] \in Ways
           \/ vault.rec[b].pstate = "unknown" /\ ck.acct[b] = ck0.acct[b]
  BY <1>4, <1>5, <1>6, <1>a DEF Same, Ways
<1>8. Leaves(p, "off", {}, mem, ck)
  BY <1>1, <1>5, <1>6, <1>7 DEF Leaves, Persists, ck0
<1> QED BY <1>8, LeavesBack

(* With no batch under way, a job file is written or removed: no password     *)
(* loses its way back by it.                                                 *)
Repairs(j, k) ==
    /\ j \in Jobs /\ file' = [file EXCEPT ![j] = k] /\ (file[j] # NoFile \/ k = NoFile)
    /\ batch' = batch /\ SameRules /\ work'.jobs = work.jobs
    /\ \A p \in Processes : batch[p].at = "off"
    /\ \A a \in Accounts : vault'.rec[a].pstate = "unknown" =>
           /\ vault.rec[a].pstate = "unknown"
           /\ file[j].acct[a] \in Ways => k.acct[a] \in Ways

LEMMA RepairsBack ==
    ASSUME CredInv, BackInv, NEW j, NEW k, Ordered(work') => Repairs(j, k), SameRules
    PROVE  BackInv'
<1> SUFFICES ASSUME Ordered(work') PROVE Fresh' /\ QueuedKnown' /\ WayBack'
  BY DEF BackInv
<1>1. Ordered(work) /\ Fresh /\ QueuedKnown /\ WayBack /\ Typed /\ Repairs(j, k)
  BY StillOrdered DEF CredInv
<1>2. /\ j \in Jobs /\ file'[j] = k /\ \A i \in Jobs \ {j} : file'[i] = file[i]
  BY <1>1 DEF Repairs, Typed
<1>3. Fresh'
  BY <1>1, <1>2 DEF Fresh, Repairs
<1>4. QueuedKnown'
  BY <1>1 DEF QueuedKnown, Live, Lives, Hands, Repairs
<1>5. WayBack'
  <2> SUFFICES ASSUME NEW a \in Accounts, vault'.rec[a].pstate = "unknown"
               PROVE  \E i \in Jobs : file'[i].acct[a] \in Ways
    BY DEF WayBack
  <2>1. PICK i \in Jobs : file[i].acct[a] \in Ways
    BY <1>1 DEF WayBack, Repairs
  <2>2. CASE i = j
    BY <1>1, <1>2, <2>1, <2>2 DEF Repairs
  <2>3. CASE i # j
    BY <1>2, <2>1, <2>3
  <2> QED BY <2>2, <2>3
<1> QED BY <1>3, <1>4, <1>5

LEMMA CancelBack ==
    ASSUME CredInv, BackInv, NEW j \in Jobs, CancelInactive(j)
    PROVE  BackInv'
<1> DEFINE ck == file[j]
           acct == [a \in Accounts |-> IF a \in Open(ck) THEN CancelledAs(vault, a) ELSE ck.acct[a]]
           f == [a \in Accounts |-> IF a \in Open(ck) THEN Marked(vault.rec[a], acct[a]) ELSE vault.rec[a]]
           status == IF \E a \in Accounts : acct[a] = "critical" THEN "critical" ELSE "cancelled"
           k == [ck EXCEPT !.status = status, !.acct = acct]
<1>1. /\ Asked("cancel") /\ vault' = [vault EXCEPT !.rec = f] /\ file' = [file EXCEPT ![j] = k]
      /\ batch' = batch /\ ck # NoFile
  BY DEF CancelInactive
<1>2. /\ Typed /\ ck \in JobFiles /\ vault \in Vaults /\ vault.rec \in [Accounts -> Records]
  BY DEF CredInv, Typed, Vaults
<1>3. /\ SameRules /\ work'.jobs = work.jobs /\ Solo(work') = Solo(work)
      /\ Solo(work) => \A p \in Processes : batch[p].at = "off"
  BY <1>1, AskedAlone DEF SameRules
<1> HIDE DEF ck, status
<1>4. /\ \A a \in Open(ck) : acct[a] = CancelledAs(vault, a) /\ acct[a] \in {"critical", "cancelled"}
      /\ \A a \in Accounts \ Open(ck) : acct[a] = ck.acct[a]
  BY DEF CancelledAs, Open
<1> HIDE DEF acct
<1>5. k.acct = acct
  BY <1>2 DEF JobFiles
<1>6. \A a \in Accounts : f[a].pstate = vault.rec[a].pstate
  <2> SUFFICES ASSUME NEW a \in Accounts PROVE f[a].pstate = vault.rec[a].pstate
    OBVIOUS
  <2>1. CASE a \in Open(ck)
    <3>1. Same(Marked(vault.rec[a], acct[a]), vault.rec[a])
      BY <1>2, <1>4, <2>1, MarkedTyped
    <3> QED BY <2>1, <3>1 DEF Same
  <2>2. CASE a \notin Open(ck)
    BY <2>2
  <2> QED BY <2>1, <2>2
<1> HIDE DEF f, k
<1>7. vault'.rec = f
  BY <1>1, <1>2 DEF Vaults
<1>8. \A a \in Accounts : vault'.rec[a].pstate = "unknown" =>
           /\ vault.rec[a].pstate = "unknown"
           /\ ck.acct[a] \in Ways => k.acct[a] \in Ways
  BY <1>4, <1>5, <1>6, <1>7 DEF CancelledAs, Ways, Open
<1>9. Ordered(work') => Repairs(j, k)
  BY <1>1, <1>3, <1>8 DEF Repairs, Ordered, ck
<1> QED BY <1>3, <1>9, RepairsBack

LEMMA CleanBack ==
    ASSUME CredInv, BackInv, NEW j \in Jobs, Clean(j)
    PROVE  BackInv'
<1> DEFINE gone == Forgotten(vault, file[j])
           f == [a \in Accounts |-> IF a \in gone THEN NoRecord ELSE vault.rec[a]]
<1>1. /\ Asked("clean") /\ vault' = [vault EXCEPT !.rec = f]
      /\ file' = [file EXCEPT ![j] = NoFile] /\ batch' = batch /\ vault \in Vaults
  BY DEF Clean, CredInv, Typed
<1>2. /\ SameRules /\ work'.jobs = work.jobs /\ Solo(work') = Solo(work)
      /\ Solo(work) => \A p \in Processes : batch[p].at = "off"
  BY <1>1, AskedAlone DEF SameRules
<1>3. vault'.rec = f
  BY <1>1 DEF Vaults
<1>4. \A a \in Accounts : f[a].pstate = "unknown" =>
           /\ vault.rec[a].pstate = "unknown"
           /\ file[j].acct[a] \in Ways => NoFile.acct[a] \in Ways
  BY NothingTyped DEF Forgotten, Members, Ways
<1> HIDE DEF f
<1>5. Ordered(work') => Repairs(j, NoFile)
  BY <1>1, <1>2, <1>3, <1>4 DEF Repairs, Ordered
<1> QED BY <1>2, <1>5, RepairsBack

LEMMA ResolveSavesBack ==
    ASSUME CredInv, BackInv, NEW c \in Callers, NEW a \in Accounts, ResolveSaves(c, a)
    PROVE  BackInv'
<1> DEFINE m == call[c].mem
           r0 == m.rec[a]
           r == [r0 EXCEPT !.pstate = "changed", !.current = r0.pending, !.pending = None,
                           !.seen = TRUE, !.last = "success"]
           j == call[c].job
           k == IF call[c].at = "resolve" THEN call[c].ck ELSE file[j]
           after == [k EXCEPT !.acct[a] = "success"]
           end == [after EXCEPT !.status = FinalStatus(after)]
<1>1. /\ call[c].at \in {"resolve", "recover"} /\ k.acct[a] = "critical"
      /\ vault' = [m EXCEPT !.rec[a] = r] /\ file' = [file EXCEPT ![j] = end]
      /\ batch' = batch /\ work' = work
  BY DEF ResolveSaves, SignsIn, Resolved, ResolvedFile
<1>2. /\ m \in Vaults /\ r0 \in Records /\ j \in Jobs /\ k \in JobFiles /\ m.rec = vault.rec
      /\ k = file[j] /\ \A p \in Processes : batch[p].at = "off"
  BY <1>1, CallTyped DEF CredInv, CallCopies, Alone, Typed
<1> HIDE DEF m, k, j
<1>3. r \in Records /\ r.pstate = "changed"
  BY <1>2, VerifiedRecord
<1> HIDE DEF r
<1>4. vault'.rec[a] = r /\ \A b \in Accounts \ {a} : vault'.rec[b] = m.rec[b]
  BY <1>1, <1>2, <1>3, RecordSet
<1>5. after \in JobFiles /\ \A b \in Accounts \ {a} : after.acct[b] = k.acct[b]
  BY <1>2, AccountSet DEF TerminalStates
<1> HIDE DEF after
<1>6. end.acct = after.acct
  BY <1>5, FinalTyped, StatusSet
<1> HIDE DEF end
<1>7. \A b \in Accounts : vault'.rec[b].pstate = "unknown" =>
           /\ vault.rec[b].pstate = "unknown"
           /\ file[j].acct[b] \in Ways => end.acct[b] \in Ways
  BY <1>2, <1>3, <1>4, <1>5, <1>6
<1>8. k # NoFile
  BY <1>1, NothingTyped
<1>9. Repairs(j, end)
  BY <1>1, <1>2, <1>7, <1>8 DEF Repairs, SameRules
<1>10. SameRules
  BY <1>1 DEF SameRules
<1> QED BY <1>9, <1>10, RepairsBack

(* A batch begins: its job was no file, or is one that it may resume.         *)
Opens(p, j) ==
    /\ j \in Jobs /\ file' \in [Jobs -> JobFiles] /\ \A i \in Jobs \ {j} : file'[i] = file[i]
    /\ SameRules /\ work'.jobs \in Nat /\ work'.jobs <= work.jobs
    /\ \/ j = MaxJobs - work.jobs + 1 /\ work'.jobs = work.jobs - 1
       \/ file[j] # NoFile
    /\ batch'[p].at = "spawned" /\ batch'[p].job = j
    /\ \A q \in Processes \ {p} : batch'[q].at = "off"
    /\ \A a \in Accounts : vault'.rec[a].pstate = "unknown" =>
          /\ vault.rec[a].pstate = "unknown" /\ file'[j].acct[a] # "queued"
          /\ file[j].acct[a] \in Ways => file'[j].acct[a] \in Ways

LEMMA OpensBack ==
    ASSUME CredInv, BackInv, NEW p \in Processes, NEW j, SameRules, Ordered(work') => Opens(p, j)
    PROVE  BackInv'
<1> SUFFICES ASSUME Ordered(work') PROVE Fresh' /\ QueuedKnown' /\ WayBack'
  BY DEF BackInv
<1>1. Ordered(work) /\ Fresh /\ WayBack /\ Typed /\ Opens(p, j)
  BY StillOrdered DEF CredInv
<1>2. work.jobs \in Nat /\ work'.jobs \in Nat /\ MaxJobs \in Nat /\ Jobs \subseteq Nat /\ j \in Jobs
  BY <1>1, NumbersTyped DEF Typed, WorkloadRecords, Jobs, Opens
<1>3. \/ j = MaxJobs - work.jobs + 1 /\ j = MaxJobs - work'.jobs /\ file[j] = NoFile
      \/ j <= MaxJobs - work.jobs /\ j <= MaxJobs - work'.jobs
  <2>1. CASE j = MaxJobs - work.jobs + 1 /\ work'.jobs = work.jobs - 1
    <3>1. j > MaxJobs - work.jobs /\ j = MaxJobs - work'.jobs
      BY <1>2, <2>1
    <3> QED BY <1>1, <1>2, <2>1, <3>1 DEF Fresh
  <2>2. CASE file[j] # NoFile
    <3>1. ~(j > MaxJobs - work.jobs)
      BY <1>1, <1>2, <2>2 DEF Fresh
    <3> QED BY <1>1, <1>2, <3>1 DEF Opens
  <2> QED BY <1>1, <2>1, <2>2 DEF Opens
<1>4. j <= MaxJobs - work'.jobs
  BY <1>2, <1>3
<1>5. Fresh'
  <2>1. ASSUME NEW i \in Jobs, i > MaxJobs - work'.jobs PROVE file'[i] = NoFile
    <3>1. i # j /\ i > MaxJobs - work.jobs
      BY <1>1, <1>2, <1>4, <2>1 DEF Opens
    <3> QED BY <1>1, <3>1 DEF Opens, Fresh
  <2> QED BY <1>1, <1>4, <2>1 DEF Fresh, Opens
<1>6. WayBack'
  <2> SUFFICES ASSUME NEW a \in Accounts, vault'.rec[a].pstate = "unknown"
               PROVE  \E i \in Jobs : file'[i].acct[a] \in Ways
    BY DEF WayBack
  <2>1. PICK i \in Jobs : file[i].acct[a] \in Ways
    BY <1>1 DEF WayBack, Opens
  <2> QED BY <1>1, <2>1 DEF Opens
<1>7. QueuedKnown'
  BY <1>1 DEF QueuedKnown, Opens, Live, Lives, Hands
<1> QED BY <1>5, <1>6, <1>7

LEMMA PrepareBack ==
    ASSUME CredInv, BackInv, NEW p \in Processes, NEW S \in SUBSET Accounts,
           NEW op \in {"change_password", "change_totp"}, Begun(p), Prepare(p, S, op)
    PROVE  BackInv'
<1>1. Typed /\ Alone
  BY DEF CredInv
<1>2. PICK j, ck : Prepared(p, S, j, ck)
  BY <1>1, PrepareMoves
<1>3. /\ j \in Jobs /\ ck \in JobFiles /\ j = MaxJobs - work.jobs + 1
      /\ vault' = Merged(vault, S, j) /\ file' = [file EXCEPT ![j] = ck]
      /\ \A a \in Accounts : ck.acct[a] = IF a \in S THEN "queued" ELSE "none"
      /\ batch' = [batch EXCEPT ![p] = [Off EXCEPT !.at = "spawned", !.job = j]]
      /\ \A q \in Processes : batch[q].at = "off"
      /\ SameRules /\ work' \in WorkloadRecords /\ work'.jobs = work.jobs - 1
  BY <1>2 DEF Prepared, SameRules
<1>4. Imports(vault', S, j)
  BY <1>1, <1>3, MergedVault
<1>5. work.jobs \in Nat /\ work'.jobs \in Nat /\ work'.jobs <= work.jobs
  BY <1>1, <1>3, NumbersTyped DEF Typed, WorkloadRecords
<1>6. /\ file' \in [Jobs -> JobFiles] /\ file'[j] = ck /\ \A i \in Jobs \ {j} : file'[i] = file[i]
  BY <1>1, <1>3 DEF Typed
<1>7. /\ batch'[p].at = "spawned" /\ batch'[p].job = j
      /\ \A q \in Processes \ {p} : batch'[q].at = "off"
  BY <1>1, <1>3, BeginsMoves
<1>8. ASSUME NEW a \in Accounts, vault'.rec[a].pstate = "unknown", Fresh
      PROVE  /\ vault.rec[a].pstate = "unknown" /\ ck.acct[a] # "queued"
             /\ file[j].acct[a] \notin Ways
  <2>1. a \notin S /\ vault.rec[a].pstate = "unknown"
    BY <1>4, <1>8 DEF Imports
  <2>2. file[j] = NoFile
    BY <1>3, <1>5, <1>8, NumbersTyped DEF Fresh
  <2> QED BY <1>3, <2>1, <2>2, NothingTyped DEF Ways
<1>9. Ordered(work') => Fresh
  BY <1>3, StillOrdered
<1>10. Ordered(work') => Opens(p, j)
  BY <1>3, <1>5, <1>6, <1>7, <1>8, <1>9 DEF Opens
<1> QED BY <1>3, <1>10, OpensBack

LEMMA ResumeBack ==
    ASSUME CredInv, BackInv, NEW j \in Jobs, Resume(j)
    PROVE  BackInv'
<1>1. Typed /\ Alone /\ Asked("resume")
  BY DEF CredInv, Resume
<1>2. PICK f, ck : Resumed(j, f, ck)
  BY <1>1, ResumeMoves
<1>3. /\ batch' = [batch EXCEPT !["app"] = [Off EXCEPT !.at = "spawned", !.job = j]]
      /\ file[j].status # "none" /\ \A a \in Members(file[j]) : vault.rec[a].pstate # "unknown"
  BY DEF Resume
<1>4. /\ SameRules /\ work'.jobs = work.jobs /\ work'.jobs \in Nat /\ work'.jobs <= work.jobs
      /\ Solo(work') => \A p \in Processes : batch[p].at = "off"
  <2>1. work.jobs \in Nat
    BY <1>1, NumbersTyped DEF Typed, WorkloadRecords
  <2> QED BY <1>1, <2>1, AskedAlone DEF SameRules
<1>5. /\ batch'["app"].at = "spawned" /\ batch'["app"].job = j
      /\ \A q \in Processes \ {"app"} : batch'[q] = batch[q]
  BY <1>1, <1>3, NumbersTyped, BeginsMoves
<1>6. /\ file' \in [Jobs -> JobFiles] /\ file'[j] = ck /\ \A i \in Jobs \ {j} : file'[i] = file[i]
  BY <1>1, <1>2 DEF Typed, Resumed
<1>7. vault'.rec = f
  BY <1>1, <1>2 DEF Typed, Vaults, Resumed
<1>8. \A a \in Accounts : vault'.rec[a].pstate = "unknown" =>
          /\ vault.rec[a].pstate = "unknown" /\ ck.acct[a] # "queued"
          /\ file[j].acct[a] \in Ways => ck.acct[a] \in Ways
  <2> SUFFICES ASSUME NEW a \in Accounts, vault'.rec[a].pstate = "unknown"
               PROVE  /\ vault.rec[a].pstate = "unknown" /\ ck.acct[a] # "queued"
                      /\ file[j].acct[a] \in Ways => ck.acct[a] \in Ways
    OBVIOUS
  <2>1. vault.rec[a].pstate = "unknown"
    BY <1>2, <1>7 DEF Resumed, Same
  <2>2. file[j].acct[a] = "none"
    BY <1>3, <2>1 DEF Members
  <2>3. a \notin Open(file[j])
    BY <2>2 DEF Open
  <2>4. ck.acct[a] = "none"
    BY <1>2, <2>2, <2>3 DEF Resumed
  <2> QED BY <2>1, <2>2, <2>4 DEF Ways
<1>9. file[j] # NoFile
  BY <1>3, NothingTyped
<1>10. Ordered(work') => Opens("app", j)
  BY <1>4, <1>5, <1>6, <1>8, <1>9 DEF Opens, Ordered
<1> QED BY <1>4, <1>10, OpensBack, NumbersTyped

(* Nobody abandons a job here.                                               *)
LEMMA AbandonBack ==
    ASSUME CredInv, BackInv, NEW j \in Jobs, Abandon(j)
    PROVE  BackInv'
<1>1. "abandon" \in work.allowed /\ work'.allowed = work.allowed
  BY AskedAlone DEF Abandon
<1> QED BY <1>1 DEF BackInv, Ordered

LEMMA SessionBack ==
    ASSUME CredInv, BackInv, NEW a \in Accounts, SessionConnects(a)
    PROVE  BackInv'
<1>1. Asked("session") /\ vault \in Vaults /\ issued[a] + 1 \in Nat
  BY DEF SessionConnects, CredInv, Typed
<1>2. vault'.rec = vault.rec
  BY <1>1, VaultFields DEF SessionConnects, Vaults
<1>3. SameRules /\ work'.jobs = work.jobs /\ file' = file /\ batch' = batch
  BY <1>1, AskedAlone DEF SameRules, SessionConnects
<1> QED BY <1>2, <1>3, StillBack

LEMMA TakesBack ==
    ASSUME CredInv, BackInv, NEW c \in Callers, NEW at, NEW S, NEW j, NEW left,
           Takes(c, at, S, j, left)
    PROVE  BackInv'
<1>1. /\ UNCHANGED files /\ batch' = batch /\ SameRules /\ work'.jobs = work.jobs
  BY TakesMoves DEF SameRules
<1> QED BY <1>1, StillBack DEF files

(* A command that ends with no job file written.                             *)
LEMMA GivesBack ==
    ASSUME CredInv, BackInv, NEW c \in Callers,
           \/ ExportSaves(c) \/ GivesUp(c)
           \/ \E a \in Accounts : DeleteSaves(c, a) \/ ConnectSaves(c, a) \/ ExportRefreshes(c, a)
    PROVE  BackInv'
<1>1. /\ call[c].at # "idle" /\ file' = file /\ batch' = batch /\ work' = work
  BY DEF ExportSaves, GivesUp, DeleteSaves, ConnectSaves, ExportRefreshes, files
<1> DEFINE m == call[c].mem
<1>2. Typed /\ m \in Vaults /\ m.rec = vault.rec /\ vault \in Vaults
  BY <1>1, CallTyped DEF Typed
<1> HIDE DEF m
<1>3. \A a \in Accounts : vault'.rec[a].pstate = "unknown" => vault.rec[a].pstate = "unknown"
  <2>1. CASE ExportSaves(c) \/ GivesUp(c) \/ \E a \in Accounts : ExportRefreshes(c, a)
    BY <1>2, <2>1 DEF ExportSaves, Exported, GivesUp, ExportRefreshes, files, m
  <2>2. ASSUME NEW a \in Accounts, DeleteSaves(c, a)
        PROVE  \A b \in Accounts : vault'.rec[b].pstate = "unknown" => vault.rec[b].pstate = "unknown"
    <3>1. vault' = Without(m, a)
      BY <2>2 DEF DeleteSaves, m
    <3>2. vault'.rec = [m.rec EXCEPT ![a] = NoRecord]
      BY <1>2, <3>1 DEF Without, Vaults
    <3> QED BY <1>2, <3>2, VaultFields, NothingTyped
  <2>3. ASSUME NEW a \in Accounts, ConnectSaves(c, a) PROVE vault'.rec = vault.rec
    <3>1. vault' = [m EXCEPT !.token[a] = issued[a] + 1]
      BY <2>3 DEF ConnectSaves, m
    <3> QED BY <1>2, <3>1 DEF Vaults
  <2> QED BY <2>1, <2>2, <2>3
<1> QED BY <1>1, <1>3, StillBack DEF SameRules

LEMMA CrashBack ==
    ASSUME CredInv, BackInv, Crash \/ \E p \in Processes : BatchFindsNoFile(p)
    PROVE  BackInv'
<1>1. /\ SameRules /\ work'.jobs = work.jobs /\ file' = file /\ vault' = vault
  BY DEF CredInv, Typed, WorkloadRecords, Crash, BatchFindsNoFile, SameRules, files
<1>2. \A p \in Processes : batch'[p] = batch[p] \/ batch'[p].at = "off"
  BY NothingTyped DEF CredInv, Typed, Crash, BatchFindsNoFile
<1> QED BY <1>1, <1>2, StillBack

LEMMA BackInit == ASSUME Init PROVE BackInv
<1>1. \A p \in Processes : batch[p].at = "off" /\ ~Live(p)
  BY NothingTyped DEF Init, Live, Lives, Hands
<1>2. Fresh /\ QueuedKnown
  BY <1>1 DEF Fresh, QueuedKnown, Init
<1>3. WayBack
  BY NothingTyped DEF WayBack, Init, EmptyVault
<1> QED BY <1>2, <1>3 DEF BackInv

LEMMA BatchStepsBack ==
    ASSUME CredInv, BackInv, NEW p \in Processes, BatchSteps(p)
    PROVE  BackInv'
<1>1. CASE BatchLoads(p) \/ BatchEnds(p)
  BY <1>1, BatchLoadsBack
<1>2. CASE BatchFindsNoFile(p)
  BY <1>2, CrashBack
<1>3. ASSUME NEW a \in Accounts,
             \/ BatchAuthorizes(p, a) \/ BatchVerifies(p, a) \/ BatchIsUnsure(p, a)
             \/ BatchFails(p, a) \/ TotpOpens(p, a) \/ TotpAuthorizes(p, a)
             \/ TotpEnrolls(p, a) \/ TotpVerifies(p, a) \/ TotpFails(p, a)
      PROVE  BackInv'
  <2>1. Settling(p)
    BY <1>3, BatchAuthorizesSettles, BatchVerifiesSettles, BatchIsUnsureSettles, TotpFailsSettles,
       TotpOpensSettles, TotpAuthorizesSettles, TotpEnrollsSettles, TotpVerifiesSettles
  <2> QED BY <2>1, SettlingBack
<1>4. ASSUME NEW a \in Accounts,
             ProviderAccepts(p, a) \/ ProviderDisables(p, a) \/ ProviderEnrolls(p, a)
      PROVE  BackInv'
  BY <1>4, StillBack DEF ProviderAccepts, ProviderDisables, ProviderEnrolls, files, SameRules
<1>5. ASSUME NEW a \in Accounts, BatchErrs(p, a) PROVE BackInv'
  BY <1>5, BatchErrsBack
<1> QED BY <1>1, <1>2, <1>3, <1>4, <1>5 DEF BatchSteps

LEMMA CallerStepsBack ==
    ASSUME CredInv, BackInv, NEW c \in Callers, CallerSteps(c)
    PROVE  BackInv'
<1>1. CASE \/ ExportLoads(c)
           \/ \E a \in Accounts : \/ AgentLoads(c, a) \/ DeleteLoads(c, a) \/ ConnectLoads(c, a)
                                  \/ \E j \in Jobs : ResolveLoads(c, a, j)
  <2>1. PICK at, S, j, left : Takes(c, at, S, j, left)
    BY <1>1, LoadsKeeps
  <2> QED BY <2>1, TakesBack
<1>2. CASE \/ ExportSaves(c) \/ GivesUp(c)
           \/ \E a \in Accounts : DeleteSaves(c, a) \/ ConnectSaves(c, a) \/ ExportRefreshes(c, a)
  BY <1>2, GivesBack
<1>3. ASSUME NEW a \in Accounts, ResolveSaves(c, a) PROVE BackInv'
  BY <1>3, ResolveSavesBack
<1> QED BY <1>1, <1>2, <1>3 DEF CallerSteps

LEMMA BackSteps == ASSUME CredInv, BackInv, [Next]_vars PROVE BackInv'
<1>1. ASSUME NEW p \in Processes, BatchSteps(p) PROVE BackInv'
  BY <1>1, BatchStepsBack
<1>2. ASSUME NEW S \in SUBSET Accounts, Start(S) \/ AgentStarts(S) PROVE BackInv'
  <2>1. PICK p \in Processes, op \in {"change_password", "change_totp"} : Begun(p) /\ Prepare(p, S, op)
    BY <1>2, StartsAre
  <2> QED BY <2>1, PrepareBack
<1>3. ASSUME NEW j \in Jobs, Resume(j) PROVE BackInv'
  BY <1>3, ResumeBack
<1>4. ASSUME NEW j \in Jobs, CancelInactive(j) PROVE BackInv'
  BY <1>4, CancelBack
<1>5. ASSUME NEW j \in Jobs, Abandon(j) PROVE BackInv'
  BY <1>5, AbandonBack
<1>6. ASSUME NEW j \in Jobs, Clean(j) PROVE BackInv'
  BY <1>6, CleanBack
<1>7. ASSUME NEW a \in Accounts, SessionConnects(a) PROVE BackInv'
  BY <1>7, SessionBack
<1>8. ASSUME NEW c \in Callers, CallerSteps(c) PROVE BackInv'
  BY <1>8, CallerStepsBack
<1>9. CASE Crash
  BY <1>9, CrashBack
<1>10. CASE UNCHANGED vars
  BY <1>10, StillBack DEF vars, files, SameRules
<1> QED BY <1>1, <1>2, <1>3, <1>4, <1>5, <1>6, <1>7, <1>8, <1>9, <1>10 DEF Next

(* As long as commands and batches do not overlap and nobody abandons a job,  *)
(* an account of unknown password has a way back: some job file shows it     *)
(* critical, for Verify & Resolve, or open, for Cancel                       *)
(* (account_keeper_resolve_critical, cancel_inactive_job), for any number of *)
(* accounts, jobs, commands and crashes.                                     *)
THEOREM UnknownHasAWayBack ==
    ASSUME \A w \in Workloads : Careful(w)
    PROVE  Spec => []NoDeadEnd
<1>1. Init => BackInv
  BY BackInit
<1>2. CredInv /\ BackInv /\ [Next]_vars => BackInv'
  BY BackSteps
<1>3. BackInv => NoDeadEnd
  BY DEF BackInv, Ordered, Solo, WayBack, Ways, NoDeadEnd
<1> QED BY <1>1, <1>2, <1>3, CredInvariant, PTL DEF Spec

-----------------------------------------------------------------------------
(* Codex credentials.                                                        *)

(* No token is issued or spent; who waits goes on waiting or ends.            *)
Ends(c) ==
    call[c].at = "export" =>
        \/ work.crashes > 0
        \/ "refuse" \in work.allowed /\ call[c].left # {}
        \/ \E a \in call[c].left : call[c].mem.token[a] \in spent[a]

Calm ==
    /\ UNCHANGED <<issued, spent>> /\ SameRules /\ work'.accounts = work.accounts
    /\ work'.crashes \in Nat /\ work'.crashes <= work.crashes
    /\ \A c \in Callers : call'[c] = call[c] \/ (call'[c].at = "idle" /\ Ends(c))
    /\ imported \subseteq imported' /\ (imported' = imported \/ Cardinality(imported') <= work.accounts)

(* A token stays or leaves with its record, and no record comes but by an     *)
(* import.                                                                   *)
Plain ==
    /\ \A a \in Accounts : \/ vault'.token[a] = vault.token[a]
                           \/ vault'.token[a] = None /\ vault'.rec[a] = NoRecord
    /\ \A a \in Accounts : vault'.rec[a] # NoRecord =>
           vault.rec[a] # NoRecord \/ a \in imported' \ dropped'

CalmStep == Calm /\ (Solo(work) => Plain)

LEMMA SameVaultPlain == ASSUME vault' = vault PROVE Plain
BY DEF Plain

LEMMA SettlingCalm ==
    ASSUME CredInv, NEW p, Settling(p)
    PROVE  CalmStep
<1>1. PICK a, r, ch, state, at, acct, mem, ck : Settles(p, a, r, ch, state, at, acct, mem, ck)
  BY DEF Settling
<1>2. /\ p \in Processes /\ Live(p) /\ vault' = mem /\ mem.token = batch[p].mem.token
      /\ \A b \in Accounts \ {a} : mem.rec[b] = batch[p].mem.rec[b]
      /\ batch[p].mem.rec[a] # NoRecord /\ UNCHANGED <<issued, spent>>
      /\ call' = call /\ imported' = imported /\ work' = work
  BY <1>1 DEF Settles, Persist, history
<1>3. work.crashes \in Nat
  BY DEF CredInv, Typed, WorkloadRecords
<1>4. Calm
  BY <1>2, <1>3 DEF Calm, SameRules
<1>5. ASSUME Solo(work) PROVE Plain
  <2>1. batch[p].mem = vault
    BY <1>2, <1>5, SoloCopies
  <2> QED BY <1>2, <2>1 DEF Plain
<1> QED BY <1>4, <1>5 DEF CalmStep

LEMMA BatchStepsCalm ==
    ASSUME CredInv, NEW p \in Processes, BatchSteps(p)
    PROVE  CalmStep
<1>a. work.crashes \in Nat /\ Typed
  BY DEF CredInv, Typed, WorkloadRecords
<1>1. CASE BatchLoads(p) \/ BatchFindsNoFile(p)
  <2>1. Calm /\ vault' = vault
    BY <1>1, <1>a DEF BatchLoads, BatchFindsNoFile, Persist, Calm, SameRules, files, provider, history
  <2> QED BY <2>1, SameVaultPlain DEF CalmStep
<1>2. CASE BatchEnds(p)
  <2>1. Calm /\ vault' = batch[p].mem /\ Live(p)
    BY <1>2, <1>a DEF BatchEnds, Persist, Calm, SameRules, provider, history, Live, Lives
  <2> QED BY <2>1, SoloCopies, SameVaultPlain DEF CalmStep
<1>3. ASSUME NEW a \in Accounts,
             \/ BatchAuthorizes(p, a) \/ BatchVerifies(p, a) \/ BatchIsUnsure(p, a)
             \/ BatchFails(p, a) \/ TotpOpens(p, a) \/ TotpAuthorizes(p, a)
             \/ TotpEnrolls(p, a) \/ TotpVerifies(p, a) \/ TotpFails(p, a)
      PROVE  CalmStep
  <2>1. Settling(p)
    BY <1>3, BatchAuthorizesSettles, BatchVerifiesSettles, BatchIsUnsureSettles, TotpFailsSettles,
       TotpOpensSettles, TotpAuthorizesSettles, TotpEnrollsSettles, TotpVerifiesSettles
  <2> QED BY <2>1, SettlingCalm
<1>4. ASSUME NEW a \in Accounts,
             ProviderAccepts(p, a) \/ ProviderDisables(p, a) \/ ProviderEnrolls(p, a)
      PROVE  CalmStep
  <2>1. Calm /\ vault' = vault
    BY <1>4, <1>a DEF ProviderAccepts, ProviderDisables, ProviderEnrolls, Calm, SameRules, files, history
  <2> QED BY <2>1, SameVaultPlain DEF CalmStep
<1>5. ASSUME NEW a \in Accounts, BatchErrs(p, a) PROVE CalmStep
  <2> DEFINE state == IF vault.rec[a].pstate = "unknown" THEN "critical" ELSE "failed"
             r == Marked(vault.rec[a], state)
  <2>1. vault' = [vault EXCEPT !.rec[a] = r] /\ Calm
    BY <1>5, <1>a DEF BatchErrs, Persist, Calm, SameRules, provider, history
  <2>2. vault \in Vaults /\ vault.rec[a] \in Records /\ state \in {"critical", "failed"}
    BY <1>a DEF Typed, Vaults
  <2> HIDE DEF state
  <2>3. r \in Records /\ (r = NoRecord <=> vault.rec[a] = NoRecord)
    BY <2>2, MarkedTyped
  <2> HIDE DEF r
  <2>4. /\ vault'.rec[a] = r /\ \A b \in Accounts \ {a} : vault'.rec[b] = vault.rec[b]
        /\ vault'.token = vault.token
    BY <2>1, <2>2, <2>3, RecordSet
  <2> QED BY <2>1, <2>3, <2>4 DEF CalmStep, Plain
<1> QED BY <1>1, <1>2, <1>3, <1>4, <1>5 DEF BatchSteps

LEMMA PrepareCalm ==
    ASSUME CredInv, NEW p \in Processes, NEW S \in SUBSET Accounts,
           NEW op \in {"change_password", "change_totp"}, Begun(p), Prepare(p, S, op)
    PROVE  CalmStep
<1>1. Typed /\ Alone
  BY DEF CredInv
<1>2. PICK j, ck : Prepared(p, S, j, ck)
  BY <1>1, PrepareMoves
<1>3. /\ j \in Jobs /\ vault' = Merged(vault, S, j) /\ imported' = imported \cup S
      /\ dropped' = dropped \ S /\ call' = call /\ UNCHANGED provider
      /\ SameRules /\ work'.accounts = work.accounts /\ work'.crashes = work.crashes
      /\ Cardinality(imported') <= work.accounts
  BY <1>2 DEF Prepared, SameRules
<1>4. Imports(vault', S, j)
  BY <1>1, <1>3, MergedVault
<1>5. Calm
  BY <1>1, <1>3 DEF Calm, Typed, WorkloadRecords, provider
<1>6. Plain
  BY <1>3, <1>4 DEF Plain, Imports
<1> QED BY <1>5, <1>6 DEF CalmStep

(* A command that asks and saves at once.                                     *)
LEMMA AskedCalm ==
    ASSUME CredInv, NEW command, Asked(command), call' = call, UNCHANGED provider,
           imported' = imported
    PROVE  Calm
<1>1. /\ SameRules /\ work'.accounts = work.accounts /\ work'.crashes = work.crashes
      /\ work.crashes \in Nat
  BY AskedAlone DEF SameRules, CredInv, Typed, WorkloadRecords
<1> QED BY <1>1 DEF Calm, provider

LEMMA JobStepsCalm ==
    ASSUME CredInv, NEW j \in Jobs, Resume(j) \/ CancelInactive(j) \/ Abandon(j) \/ Clean(j)
    PROVE  CalmStep
<1>1. /\ Typed /\ Alone /\ vault \in Vaults /\ vault.rec \in [Accounts -> Records]
  BY DEF CredInv, Typed, Vaults
<1>2. \E command : Asked(command)
  BY DEF Resume, CancelInactive, Abandon, Clean
<1>3. Calm
  BY <1>2, AskedCalm DEF Resume, CancelInactive, Abandon, Clean, history
<1>4. CASE Resume(j)
  <2>1. PICK f, ck : Resumed(j, f, ck)
    BY <1>1, <1>4, ResumeMoves
  <2>2. vault'.rec = f /\ vault'.token = vault.token
    BY <1>1, <2>1, RecordsSet DEF Resumed
  <2>3. \A a \in Open(file[j]) : vault.rec[a].pstate # "none"
    BY <1>4 DEF Resume
  <2>4. \A a \in Accounts : vault.rec[a] = NoRecord => f[a] = NoRecord
    BY <2>1, <2>3, NothingTyped DEF Resumed
  <2>5. Plain
    BY <2>2, <2>4 DEF Plain
  <2> QED BY <1>3, <2>5 DEF CalmStep
<1>5. CASE CancelInactive(j)
  <2> DEFINE ck == file[j]
             acct == [a \in Accounts |-> IF a \in Open(ck) THEN CancelledAs(vault, a) ELSE ck.acct[a]]
             f == [a \in Accounts |-> IF a \in Open(ck) THEN Marked(vault.rec[a], acct[a]) ELSE vault.rec[a]]
  <2>1. vault' = [vault EXCEPT !.rec = f]
    BY <1>1, <1>5 DEF CancelInactive, Vaults
  <2>2. \A a \in Open(ck) : acct[a] \in {"critical", "cancelled"}
    BY DEF CancelledAs, Open
  <2> HIDE DEF acct
  <2>3. \A a \in Accounts : f[a] \in Records /\ (f[a] = NoRecord <=> vault.rec[a] = NoRecord)
    BY <1>1, <2>2, MarkedTyped
  <2>4. f \in [Accounts -> Records]
    BY <2>3
  <2> HIDE DEF f
  <2>5. vault'.rec = f /\ vault'.token = vault.token
    BY <1>1, <2>1, <2>4, RecordsSet
  <2>6. Plain
    BY <2>3, <2>5 DEF Plain
  <2> QED BY <1>3, <2>6 DEF CalmStep
<1>6. CASE Abandon(j)
  BY <1>3, <1>6, SameVaultPlain DEF CalmStep, Abandon
<1>7. CASE Clean(j)
  <2> DEFINE gone == Forgotten(vault, file[j])
             f == [a \in Accounts |-> IF a \in gone THEN NoRecord ELSE vault.rec[a]]
  <2>1. vault' = [vault EXCEPT !.rec = f]
    BY <1>1, <1>7 DEF Clean, Vaults
  <2>2. f \in [Accounts -> Records]
    BY <1>1, NothingTyped
  <2>3. \A a \in Accounts : f[a] # NoRecord => vault.rec[a] # NoRecord
    OBVIOUS
  <2> HIDE DEF f
  <2>4. vault'.rec = f /\ vault'.token = vault.token
    BY <1>1, <2>1, <2>2, RecordsSet
  <2>5. Plain
    BY <2>3, <2>4 DEF Plain
  <2> QED BY <1>3, <2>5 DEF CalmStep
<1> QED BY <1>4, <1>5, <1>6, <1>7

(* A command other than an export ends; or nothing is saved.                  *)
LEMMA GivesCalm ==
    ASSUME CredInv, NEW c \in Callers,
           GivesUp(c) \/ \E a \in Accounts : ResolveSaves(c, a) \/ DeleteSaves(c, a)
    PROVE  CalmStep
<1> DEFINE m == call[c].mem
<1>1. /\ call[c].at # "idle" /\ call' = [call EXCEPT ![c] = Idle] /\ Ends(c)
      /\ UNCHANGED provider /\ work' = work /\ imported' = imported
  BY DEF GivesUp, ResolveSaves, DeleteSaves, history, Ends
<1>2. /\ Typed /\ m \in Vaults /\ m.rec = vault.rec /\ m.rec \in [Accounts -> Records]
      /\ work.crashes \in Nat
  BY <1>1, CallTyped DEF Typed, WorkloadRecords
<1>3. \A d \in Callers : call'[d] = call[d] \/ (call'[d].at = "idle" /\ Ends(d))
  BY <1>1, <1>2, NothingTyped DEF Typed
<1>4. Calm
  BY <1>1, <1>2, <1>3 DEF Calm, SameRules, provider
<1>5. call[c].at # "export" => \A a \in Accounts : m.token[a] = vault.token[a]
  BY <1>1 DEF CredInv, CallCopies
<1> HIDE DEF m
<1>6. CASE GivesUp(c)
  BY <1>4, <1>6, SameVaultPlain DEF CalmStep, GivesUp, files
<1>7. ASSUME NEW a \in Accounts, ResolveSaves(c, a) PROVE CalmStep
  <2> DEFINE r0 == m.rec[a]
             r == [r0 EXCEPT !.pstate = "changed", !.current = r0.pending, !.pending = None,
                             !.seen = TRUE, !.last = "success"]
  <2>1. vault' = [m EXCEPT !.rec[a] = r] /\ call[c].at \in {"resolve", "recover"} /\ a \in call[c].acct
    BY <1>7 DEF ResolveSaves, Resolved, m
  <2>2. vault.rec[a].pstate = "unknown"
    BY <2>1 DEF CredInv, CallCopies
  <2>3. r0 \in Records
    BY <1>2
  <2> HIDE DEF r0
  <2>4. r \in Records
    BY <2>3, VerifiedRecord
  <2> HIDE DEF r
  <2>5. /\ vault'.token = m.token /\ \A b \in Accounts \ {a} : vault'.rec[b] = m.rec[b]
    BY <1>2, <2>1, <2>4, RecordSet
  <2>6. Plain
    BY <1>2, <1>5, <2>1, <2>2, <2>5, NothingTyped DEF Plain
  <2> QED BY <1>4, <2>6 DEF CalmStep
<1>8. ASSUME NEW a \in Accounts, DeleteSaves(c, a) PROVE CalmStep
  <2>1. vault' = Without(m, a) /\ call[c].at = "delete"
    BY <1>8 DEF DeleteSaves, m
  <2>2. vault'.rec = [m.rec EXCEPT ![a] = NoRecord] /\ vault'.token = [m.token EXCEPT ![a] = None]
    BY <1>2, <2>1 DEF Without, Vaults
  <2>3. m.token \in [Accounts -> Nat]
    BY <1>2, VaultFields
  <2>4. Plain
    BY <1>2, <1>5, <2>1, <2>2, <2>3 DEF Plain
  <2> QED BY <1>4, <2>4 DEF CalmStep
<1> QED BY <1>6, <1>7, <1>8

LEMMA CrashCalm ==
    ASSUME CredInv, Crash \/ UNCHANGED vars
    PROVE  CalmStep
<1>1. work \in WorkloadRecords /\ work.crashes \in Nat
  BY DEF CredInv, Typed, WorkloadRecords
<1>2. CASE Crash
  <2>1. /\ SameRules /\ work'.accounts = work.accounts /\ work'.crashes = work.crashes - 1
        /\ work.crashes > 0 /\ UNCHANGED <<files, provider, history>>
    BY <1>1, <1>2 DEF Crash, SameRules, WorkloadRecords
  <2>2. \A c \in Callers : call'[c] = call[c] \/ (call'[c].at = "idle" /\ Ends(c))
    BY <1>2, NothingTyped DEF Crash, Ends
  <2>3. Calm
    BY <1>1, <2>1, <2>2 DEF Calm, provider, history
  <2> QED BY <2>1, <2>3, SameVaultPlain DEF CalmStep, files
<1>3. CASE UNCHANGED vars
  <2>1. Calm
    BY <1>1, <1>3 DEF Calm, SameRules, vars, provider, history
  <2> QED BY <1>3, <2>1, SameVaultPlain DEF CalmStep, vars, files
<1> QED BY <1>2, <1>3

(* A new token is in the vault.                                               *)
Connects(a) ==
    /\ issued' = [issued EXCEPT ![a] = @ + 1] /\ spent' = spent /\ imported' = imported
    /\ vault'.rec = vault.rec /\ vault'.token[a] = issued[a] + 1
    /\ \A b \in Accounts \ {a} : vault'.token[b] = vault.token[b]
    /\ \A c \in Callers : call'[c].at = "idle" /\ call[c].at # "export"
    /\ SameRules /\ work'.accounts = work.accounts /\ work'.crashes = work.crashes

LEMMA SessionConnectsOne ==
    ASSUME CredInv, NEW a \in Accounts, SessionConnects(a)
    PROVE  Connects(a)
<1> DEFINE n == issued[a] + 1
<1>1. /\ Asked("session") /\ vault' = [vault EXCEPT !.token[a] = n]
      /\ UNCHANGED <<call, spent, history>> /\ issued' = [issued EXCEPT ![a] = @ + 1]
  BY DEF SessionConnects
<1>2. vault \in Vaults /\ n \in Nat
  BY DEF CredInv, Typed
<1>3. /\ SameRules /\ work'.accounts = work.accounts /\ work'.crashes = work.crashes
      /\ \A c \in Callers : call[c].at = "idle"
  BY <1>1, AskedAlone DEF SameRules
<1> HIDE DEF n
<1>4. /\ vault'.rec = vault.rec /\ vault'.token[a] = n
      /\ \A b \in Accounts \ {a} : vault'.token[b] = vault.token[b]
  BY <1>1, <1>2, VaultFields DEF Vaults
<1> QED BY <1>1, <1>3, <1>4 DEF Connects, history, n

LEMMA ConnectSavesOne ==
    ASSUME CredInv, NEW c \in Callers, NEW a \in Accounts, ConnectSaves(c, a)
    PROVE  Connects(a)
<1> DEFINE n == issued[a] + 1
           m == call[c].mem
<1>1. /\ call[c].at = "connect" /\ vault' = [m EXCEPT !.token[a] = n]
      /\ UNCHANGED <<spent, history>> /\ work' = work /\ issued' = [issued EXCEPT ![a] = @ + 1]
      /\ call' = [call EXCEPT ![c] = Idle]
  BY DEF ConnectSaves
<1>2. Typed /\ m \in Vaults /\ n \in Nat /\ m.rec = vault.rec
  BY <1>1, CallTyped DEF Typed
<1>3. \A b \in Accounts : m.token[b] = vault.token[b]
  BY <1>1 DEF CredInv, CallCopies
<1> HIDE DEF m, n
<1>4. /\ vault'.rec = m.rec /\ vault'.token[a] = n
      /\ \A b \in Accounts \ {a} : vault'.token[b] = m.token[b]
  BY <1>1, <1>2, VaultFields DEF Vaults
<1>5. \A d \in Callers : call'[d].at = "idle" /\ call[d].at # "export"
  BY <1>1, <1>2, NothingTyped DEF Typed, CredInv, Alone
<1> QED BY <1>1, <1>2, <1>3, <1>4, <1>5 DEF Connects, SameRules, history, n

(* Every step is one of these.                                                *)
Kinds ==
    \/ CalmStep
    \/ \E a \in Accounts : Connects(a)
    \/ \E c \in Callers : \/ \E at, S, j, left : Takes(c, at, S, j, left)
                          \/ \E a \in Accounts : ExportRefreshes(c, a)
                          \/ ExportSaves(c)

LEMMA StepKinds == ASSUME CredInv, [Next]_vars PROVE Kinds
<1>1. ASSUME NEW p \in Processes, BatchSteps(p) PROVE CalmStep
  BY <1>1, BatchStepsCalm
<1>2. ASSUME NEW S \in SUBSET Accounts, Start(S) \/ AgentStarts(S) PROVE CalmStep
  <2>1. PICK p \in Processes, op \in {"change_password", "change_totp"} : Begun(p) /\ Prepare(p, S, op)
    BY <1>2, StartsAre
  <2> QED BY <2>1, PrepareCalm
<1>3. ASSUME NEW j \in Jobs, Resume(j) \/ CancelInactive(j) \/ Abandon(j) \/ Clean(j) PROVE CalmStep
  BY <1>3, JobStepsCalm
<1>4. ASSUME NEW a \in Accounts, SessionConnects(a) PROVE Connects(a)
  BY <1>4, SessionConnectsOne
<1>5. ASSUME NEW c \in Callers, CallerSteps(c) PROVE Kinds
  <2>1. CASE \/ ExportLoads(c)
             \/ \E a \in Accounts : \/ AgentLoads(c, a) \/ DeleteLoads(c, a) \/ ConnectLoads(c, a)
                                    \/ \E j \in Jobs : ResolveLoads(c, a, j)
    BY <2>1, LoadsKeeps DEF Kinds
  <2>2. CASE GivesUp(c) \/ \E a \in Accounts : ResolveSaves(c, a) \/ DeleteSaves(c, a)
    BY <2>2, GivesCalm DEF Kinds
  <2>3. ASSUME NEW a \in Accounts, ConnectSaves(c, a) PROVE Connects(a)
    BY <2>3, ConnectSavesOne
  <2>4. CASE ExportSaves(c) \/ \E a \in Accounts : ExportRefreshes(c, a)
    BY <2>4 DEF Kinds
  <2> QED BY <1>5, <2>1, <2>2, <2>3, <2>4 DEF CallerSteps, Kinds
<1>6. CASE Crash \/ UNCHANGED vars
  BY <1>6, CrashCalm DEF Kinds
<1> QED BY <1>1, <1>2, <1>3, <1>4, <1>5, <1>6 DEF Next, Kinds

(* What leaves the vault does not come back, and no token is replaced by an   *)
(* older one.                                                                *)
Stays ==
    \A a \in Accounts :
        /\ vault.rec[a] = NoRecord /\ vault'.rec[a] # NoRecord => a \notin dropped'
        /\ vault'.token[a] >= vault.token[a] \/ vault'.rec[a] = NoRecord

LEMMA TokensTyped ==
    ASSUME CredInv
    PROVE  /\ \A a \in Accounts : vault.token[a] \in Nat /\ issued[a] \in Nat
           /\ \A c \in Callers, a \in Accounts : call[c].mem.token[a] \in Nat
           /\ imported \subseteq Accounts /\ work.accounts \in Nat
           /\ \A a \in Accounts : spent[a] \subseteq Nat
BY DEF CredInv, Typed, Vaults, CallRecords, WorkloadRecords

LEMMA CalmTokens ==
    ASSUME CredInv, CredInv', TokenInv, CalmStep
    PROVE  TokenInv' /\ (Solo(work) => Stays)
<1>1. /\ Solo(work') = Solo(work) /\ work'.accounts = work.accounts /\ issued' = issued
      /\ imported \subseteq imported'
      /\ imported' = imported \/ Cardinality(imported') <= work.accounts
      /\ \A c \in Callers : call'[c] = call[c] \/ call'[c].at = "idle"
  BY DEF CalmStep, Calm, SameRules, Solo
<1> SUFFICES ASSUME Solo(work)
             PROVE  TokenInv' /\ Stays
  BY <1>1 DEF TokenInv
<1>2. Plain /\ None = 0
  BY DEF CalmStep, None
<1>3. \A a \in Accounts : vault'.rec[a] # NoRecord => a \in imported'
  BY <1>1, <1>2 DEF Plain, TokenInv
<1>4. Cardinality(imported') <= work'.accounts
  BY <1>1 DEF TokenInv
<1>5. \A a \in Accounts : vault'.token[a] <= issued'[a]
  BY <1>1, <1>2, TokensTyped DEF Plain, TokenInv
<1>6. ASSUME NEW c \in Callers, call'[c].at # "idle", NEW a \in Accounts
      PROVE  vault'.token[a] <= call'[c].mem.token[a] /\ call'[c].mem.token[a] <= issued'[a]
  <2>1. call'[c] = call[c]
    BY <1>1, <1>6
  <2> QED BY <1>1, <1>2, <1>6, <2>1, TokensTyped DEF Plain, TokenInv
<1>7. TokenInv'
  BY <1>3, <1>4, <1>5, <1>6 DEF TokenInv
<1>8. Stays
  BY <1>2, TokensTyped DEF Plain, Stays
<1> QED BY <1>7, <1>8

LEMMA ConnectsTokens ==
    ASSUME CredInv, TokenInv, NEW a \in Accounts, Connects(a)
    PROVE  TokenInv' /\ (Solo(work) => Stays)
<1> SUFFICES ASSUME Solo(work)
             PROVE  TokenInv' /\ Stays
  BY DEF TokenInv, Connects, SameRules, Solo
<1>1. /\ vault'.rec = vault.rec /\ vault'.token[a] = issued[a] + 1
      /\ \A b \in Accounts \ {a} : vault'.token[b] = vault.token[b]
      /\ imported' = imported /\ work'.accounts = work.accounts
      /\ \A c \in Callers : call'[c].at = "idle"
  BY DEF Connects
<1>2. issued'[a] = issued[a] + 1 /\ \A b \in Accounts \ {a} : issued'[b] = issued[b]
  BY DEF CredInv, Typed, Connects
<1>3. \A b \in Accounts : vault.token[b] <= issued[b]
  BY DEF TokenInv
<1>4. \A b \in Accounts : vault'.token[b] <= issued'[b] /\ vault'.token[b] >= vault.token[b]
  BY <1>1, <1>2, <1>3, TokensTyped
<1> QED BY <1>1, <1>4 DEF TokenInv, Stays

LEMMA TakesTokens ==
    ASSUME CredInv, TokenInv, NEW c \in Callers, NEW at, NEW S, NEW j, NEW left,
           Takes(c, at, S, j, left)
    PROVE  TokenInv' /\ Stays
<1>1. /\ UNCHANGED <<files, batch, provider, history>>
      /\ call'[c].mem = vault /\ \A d \in Callers \ {c} : call'[d] = call[d] /\ call[d].at = "idle"
      /\ Solo(work) /\ work'.accounts = work.accounts
  BY TakesMoves
<1>2. vault' = vault /\ issued' = issued /\ imported' = imported
  BY <1>1 DEF files, provider, history
<1>3. \A b \in Accounts : vault.token[b] <= vault.token[b] /\ vault.token[b] <= issued[b]
  BY <1>1, TokensTyped DEF TokenInv
<1>4. TokenInv'
  BY <1>1, <1>2, <1>3 DEF TokenInv
<1>5. Stays
  BY <1>2, TokensTyped DEF Stays
<1> QED BY <1>4, <1>5

LEMMA RefreshTokens ==
    ASSUME CredInv, TokenInv, NEW c \in Callers, NEW a \in Accounts, ExportRefreshes(c, a)
    PROVE  TokenInv' /\ Stays
<1>1. /\ vault' = vault /\ imported' = imported /\ work' = work /\ call[c].at = "export"
      /\ issued' = [issued EXCEPT ![a] = @ + 1]
  BY DEF ExportRefreshes, files, history
<1>2. /\ call'[c].mem.token[a] = issued[a] + 1
      /\ \A b \in Accounts \ {a} : call'[c].mem.token[b] = call[c].mem.token[b]
      /\ \A d \in Callers \ {c} : call'[d] = call[d] /\ call[d].at = "idle"
      /\ Solo(work)
  BY <1>1, RefreshMoves DEF CredInv, Alone
<1>3. issued'[a] = issued[a] + 1 /\ \A b \in Accounts \ {a} : issued'[b] = issued[b]
  BY <1>1 DEF CredInv, Typed
<1>4. \A b \in Accounts : /\ vault.token[b] <= issued[b] /\ vault.token[b] <= call[c].mem.token[b]
                          /\ call[c].mem.token[b] <= issued[b]
  BY <1>1, <1>2 DEF TokenInv
<1>5. \A b \in Accounts : /\ vault.token[b] <= issued'[b] /\ vault.token[b] <= call'[c].mem.token[b]
                          /\ call'[c].mem.token[b] <= issued'[b]
  BY <1>2, <1>3, <1>4, TokensTyped
<1>6. TokenInv'
  BY <1>1, <1>2, <1>5 DEF TokenInv
<1>7. Stays
  BY <1>1, TokensTyped DEF Stays
<1> QED BY <1>6, <1>7

LEMMA ExportTokens ==
    ASSUME CredInv, TokenInv, NEW c \in Callers, ExportSaves(c)
    PROVE  TokenInv' /\ Stays
<1>1. /\ vault' = call[c].mem /\ imported' = imported /\ work' = work /\ issued' = issued
      /\ call[c].at = "export" /\ call' = [call EXCEPT ![c] = Idle]
  BY DEF ExportSaves, Exported, provider, history
<1>2. \A d \in Callers : call'[d].at = "idle"
  BY <1>1, NothingTyped DEF CredInv, Typed, Alone
<1>3. Solo(work) /\ vault'.rec = vault.rec
  BY <1>1, CallTyped DEF CredInv, Alone
<1>4. \A b \in Accounts : vault'.token[b] <= issued[b] /\ vault'.token[b] >= vault.token[b]
  BY <1>1, <1>3, TokensTyped DEF TokenInv
<1> QED BY <1>1, <1>2, <1>3, <1>4 DEF TokenInv, Stays

LEMMA TokenSteps ==
    ASSUME CredInv, TokenInv, [Next]_vars
    PROVE  TokenInv' /\ (Solo(work) => Stays)
<1>1. Kinds /\ CredInv'
  BY StepKinds, CredSteps
<1> QED BY <1>1, CalmTokens, ConnectsTokens, TakesTokens, RefreshTokens, ExportTokens DEF Kinds

LEMMA TokenInit == ASSUME Init PROVE TokenInv
<1>1. /\ \A a \in Accounts : vault.rec[a] = NoRecord /\ vault.token[a] = 0 /\ issued[a] = 0
      /\ \A c \in Callers : call[c].at = "idle"
  BY NothingTyped DEF Init, EmptyVault, None
<1>2. Cardinality(imported) = 0 /\ work.accounts \in Nat
  BY FS_EmptySet, NumbersTyped DEF Init, WorkloadRecords
<1> QED BY <1>1, <1>2 DEF TokenInv

(* As long as commands and batches do not overlap, an account that was        *)
(* removed from the vault comes back by an import only, and a Codex          *)
(* credential is replaced by a newer one or leaves with its record, for any  *)
(* number of accounts, jobs, commands and crashes                            *)
(* (account_keeper_delete_profile, persist_codex_credential,                 *)
(* persist_snapshot).                                                        *)
THEOREM RemovedStaysAway ==
    ASSUME \A w \in Workloads : Careful(w)
    PROVE  Spec => NothingReturns
<1>1. Init => TokenInv
  BY TokenInit
<1>2. CredInv /\ TokenInv /\ [Next]_vars => TokenInv'
  BY TokenSteps
<1>3. CredInv /\ TokenInv /\ [Next]_vars =>
        [~work.overlap => \A a \in Accounts :
             vault.rec[a] = NoRecord /\ vault'.rec[a] # NoRecord => a \notin dropped']_vars
  BY TokenSteps DEF Solo, Stays
<1>4. CredInv /\ TokenInv /\ [Next]_vars =>
        [~work.overlap => \A a \in Accounts :
             \/ vault'.token[a] >= vault.token[a]
             \/ vault'.rec[a] = NoRecord]_vars
  BY TokenSteps DEF Solo, Stays
<1>5. Spec => []CredInv
  BY CredInvariant
<1>6. Spec => NoResurrection
  BY <1>1, <1>2, <1>3, <1>5, PTL DEF Spec, NoResurrection
<1>7. Spec => ConnectedStays
  BY <1>1, <1>2, <1>4, <1>5, PTL DEF Spec, ConnectedStays
<1> QED BY <1>6, <1>7 DEF NothingReturns

(* The token in the vault is one the issuer accepts.                          *)
LEMMA CalmSpent ==
    ASSUME CredInv, CredInv', TokenInv, SpentInv, CalmStep
    PROVE  SpentInv'
<1>1. /\ issued' = issued /\ spent' = spent /\ SameRules /\ work'.accounts = work.accounts
      /\ work'.crashes \in Nat /\ work'.crashes <= work.crashes /\ imported \subseteq imported'
      /\ \A c \in Callers : call'[c] = call[c] \/ (call'[c].at = "idle" /\ Ends(c))
  BY DEF CalmStep, Calm
<1>2. work.crashes \in Nat
  BY DEF CredInv, Typed, WorkloadRecords
<1>3. Refreshing(work')
  BY <1>1, <1>2 DEF SpentInv, Refreshing, SameRules
<1>4. "export" \notin work'.allowed =>
          /\ \A a \in Accounts : spent'[a] = {}
          /\ \A c \in Callers : call'[c].at # "export"
  BY <1>1 DEF SpentInv, SameRules
<1>5. \A a \in Accounts : \A n \in spent'[a] : n # None /\ n <= issued'[a]
  BY <1>1 DEF SpentInv
<1>6. \A c \in Callers : call'[c].at = "export" =>
          /\ call'[c].acct \subseteq imported'
          /\ \A a \in call'[c].left : call'[c].mem.token[a] # None
          /\ \A a \in Accounts : call'[c].mem.token[a] \notin spent'[a]
  BY <1>1 DEF SpentInv
<1>7. ASSUME NEW a \in Accounts, vault'.token[a] \in spent'[a]
      PROVE  \E c \in Callers : Exporting(c, a)'
  <2>1. "export" \in work.allowed
    BY <1>1, <1>7 DEF SpentInv
  <2>2. Solo(work) /\ Plain
    BY <2>1 DEF CalmStep, CredInv, Alone, Careful, Solo
  <2>3. vault'.token[a] = vault.token[a] /\ vault.token[a] \in spent[a]
    BY <1>1, <1>7, <2>2 DEF Plain, SpentInv
  <2>4. PICK c \in Callers : Exporting(c, a)
    BY <2>3 DEF SpentInv
  <2>5. /\ call[c].at = "export" /\ call[c].left \subseteq call[c].acct /\ a \in call[c].acct \ call[c].left
        /\ call[c].acct \subseteq imported /\ call[c].left \subseteq Accounts
    BY <2>4, CallTyped DEF Exporting, CredInv, CallCopies, SpentInv
  <2>6. ~Ends(c)
    <3> SUFFICES ASSUME Ends(c) PROVE FALSE
      OBVIOUS
    <3>1. ~(work.crashes > 0) /\ \A b \in call[c].left : call[c].mem.token[b] \notin spent[b]
      BY <2>1, <2>5 DEF SpentInv, Refreshing
    <3>2. "refuse" \in work.allowed /\ call[c].left # {}
      BY <2>5, <3>1 DEF Ends
    <3>3. work.accounts <= 1 /\ work.accounts \in Nat /\ Cardinality(imported) <= work.accounts
      BY <2>1, <2>2, <3>2, TokensTyped DEF SpentInv, Refreshing, TokenInv
    <3>4. PICK b \in call[c].left : TRUE
      BY <3>2
    <3>5. a \in imported /\ b \in imported /\ a # b
      BY <2>5, <3>4
    <3>6. IsFiniteSet(imported) /\ IsFiniteSet(Accounts)
      BY NumbersTyped, TokensTyped, FS_Subset
    <3>7. Cardinality(imported) \in Nat
      BY <3>6, FS_CardinalityType
    <3>8. IsFiniteSet({a, b}) /\ Cardinality({a, b}) <= Cardinality(imported)
      <4>1. {a, b} \subseteq imported
        BY <3>5
      <4> QED BY <3>6, <4>1, FS_Subset
    <3>9. Cardinality({a, b}) = 2
      <4>1. IsFiniteSet({a}) /\ Cardinality({a}) = 1
        BY FS_Singleton
      <4>2. b \notin {a} /\ {a} \cup {b} = {a, b}
        BY <3>5
      <4> QED BY <4>1, <4>2, FS_AddElement
    <3> QED BY <3>3, <3>7, <3>8, <3>9
  <2>7. call'[c] = call[c]
    BY <1>1, <2>6
  <2> QED BY <2>4, <2>7 DEF Exporting
<1> QED BY <1>3, <1>4, <1>5, <1>6, <1>7 DEF SpentInv

(* With nobody at an export, no token of the vault is spent.                  *)
LEMMA UnspentVault ==
    ASSUME SpentInv, \A c \in Callers : call[c].at # "export"
    PROVE  \A a \in Accounts : vault.token[a] \notin spent[a]
BY DEF SpentInv, Exporting

LEMMA ConnectsSpent ==
    ASSUME CredInv, TokenInv, SpentInv, NEW a \in Accounts, Connects(a)
    PROVE  SpentInv'
<1>1. /\ vault'.token[a] = issued[a] + 1 /\ spent' = spent
      /\ \A b \in Accounts \ {a} : vault'.token[b] = vault.token[b]
      /\ \A c \in Callers : call'[c].at = "idle" /\ call[c].at # "export"
      /\ SameRules /\ work'.accounts = work.accounts /\ work'.crashes = work.crashes
  BY DEF Connects
<1>2. issued'[a] = issued[a] + 1 /\ \A b \in Accounts \ {a} : issued'[b] = issued[b]
  BY DEF CredInv, Typed, Connects
<1>3. \A b \in Accounts : vault.token[b] \notin spent[b]
  BY <1>1, UnspentVault
<1>4. \A b \in Accounts : \A n \in spent[b] : n \in Nat /\ n # None /\ n <= issued[b]
  BY TokensTyped DEF SpentInv
<1>5. \A b \in Accounts : \A n \in spent[b] : n # None /\ n <= issued'[b]
  BY <1>2, <1>4, TokensTyped
<1>6. issued[a] + 1 \notin spent[a]
  BY <1>4, TokensTyped
<1>7. \A b \in Accounts : vault'.token[b] \notin spent'[b]
  BY <1>1, <1>3, <1>6
<1>8. Refreshing(work')
  BY <1>1 DEF SpentInv, Refreshing, SameRules
<1> QED BY <1>1, <1>5, <1>7, <1>8 DEF SpentInv, SameRules

LEMMA TakesSpent ==
    ASSUME CredInv, TokenInv, SpentInv, NEW c \in Callers, NEW at, NEW S, NEW j, NEW left,
           Takes(c, at, S, j, left)
    PROVE  SpentInv'
<1>1. /\ UNCHANGED <<files, batch, provider, history>> /\ call'[c].at = at /\ call'[c].acct = S
      /\ call'[c].mem = vault /\ call'[c].left = left /\ at \in work.allowed
      /\ \A d \in Callers \ {c} : call'[d] = call[d] /\ call[d].at = "idle"
      /\ Solo(work) /\ work'.allowed = work.allowed /\ work'.accounts = work.accounts
      /\ work'.crashes = work.crashes
  BY TakesMoves
<1>2. vault' = vault /\ issued' = issued /\ spent' = spent /\ imported' = imported
  BY <1>1 DEF files, provider, history
<1>3. S \subseteq Accounts /\ left \subseteq S /\ call[c].at = "idle"
  BY DEF Takes, Loads
<1>4. \A a \in Accounts : vault.token[a] \notin spent[a]
  BY <1>1, <1>3, UnspentVault
<1>5. at = "export" => \A a \in S : vault.rec[a] # NoRecord /\ vault.token[a] # None
  BY DEF Takes
<1>6. at = "export" => S \subseteq imported
  BY <1>1, <1>3, <1>5 DEF TokenInv
<1>7. \A d \in Callers : call'[d].at = "export" => d = c /\ at = "export"
  BY <1>1
<1> QED BY <1>1, <1>2, <1>3, <1>4, <1>5, <1>6, <1>7 DEF SpentInv, Refreshing

LEMMA RefreshSpent ==
    ASSUME CredInv, TokenInv, SpentInv, NEW c \in Callers, NEW a \in Accounts, ExportRefreshes(c, a)
    PROVE  SpentInv'
<1> DEFINE old == call[c].mem.token[a]
<1>1. /\ vault' = vault /\ imported' = imported /\ work' = work /\ call[c].at = "export"
      /\ issued' = [issued EXCEPT ![a] = @ + 1] /\ a \in call[c].left
      /\ spent' = [spent EXCEPT ![a] = @ \cup {old}]
  BY DEF ExportRefreshes, files, history
<1>2. /\ call'[c].at = "export" /\ call'[c].acct = call[c].acct
      /\ call'[c].left = call[c].left \ {a} /\ call'[c].mem.token[a] = issued[a] + 1
      /\ \A b \in Accounts \ {a} : call'[c].mem.token[b] = call[c].mem.token[b]
      /\ \A d \in Callers \ {c} : call'[d] = call[d] /\ call[d].at = "idle"
      /\ Solo(work) /\ call[c].left \subseteq call[c].acct /\ call[c].acct \subseteq Accounts
  BY <1>1, RefreshMoves, CallTyped DEF CredInv, Alone, CallCopies
<1>3. issued'[a] = issued[a] + 1 /\ \A b \in Accounts \ {a} : issued'[b] = issued[b]
  BY <1>1 DEF CredInv, Typed
<1>4. spent'[a] = spent[a] \cup {old} /\ \A b \in Accounts \ {a} : spent'[b] = spent[b]
  BY <1>1 DEF CredInv, Typed
<1>5. /\ old # None /\ old \in Nat /\ old <= issued[a]
      /\ call[c].acct \subseteq imported
      /\ \A b \in call[c].left : call[c].mem.token[b] # None
      /\ \A b \in Accounts : call[c].mem.token[b] \notin spent[b]
  BY <1>1, <1>2, TokensTyped DEF SpentInv, TokenInv
<1> HIDE DEF old
<1>6. \A b \in Accounts : \A n \in spent[b] : n \in Nat /\ n # None /\ n <= issued[b]
  BY TokensTyped DEF SpentInv
<1>7. \A b \in Accounts : \A n \in spent'[b] : n # None /\ n <= issued'[b]
  BY <1>3, <1>4, <1>5, <1>6, TokensTyped
<1>8. issued[a] + 1 \notin spent'[a]
  BY <1>4, <1>5, <1>6, TokensTyped
<1>9. \A b \in Accounts : call'[c].mem.token[b] \notin spent'[b]
  BY <1>2, <1>4, <1>5, <1>8
<1>10. ASSUME NEW b \in Accounts, vault'.token[b] \in spent'[b] PROVE Exporting(c, b)'
  <2>1. CASE b = a
    BY <1>1, <1>2, <2>1 DEF Exporting
  <2>2. CASE b # a
    <3>1. PICK d \in Callers : Exporting(d, b)
      BY <1>1, <1>4, <1>10, <2>2 DEF SpentInv
    <3>2. d = c
      BY <1>2, <3>1 DEF Exporting
    <3> QED BY <1>2, <3>1, <3>2 DEF Exporting
  <2> QED BY <2>1, <2>2
<1>11. "export" \in work.allowed
  BY <1>1 DEF SpentInv
<1>12. \A d \in Callers : call'[d].at = "export" => d = c
  BY <1>2
<1>13. \A b \in call'[c].left : call'[c].mem.token[b] # None
  BY <1>2, <1>5
<1> QED BY <1>1, <1>2, <1>5, <1>7, <1>9, <1>10, <1>11, <1>12, <1>13 DEF SpentInv

LEMMA ExportSpent ==
    ASSUME CredInv, TokenInv, SpentInv, NEW c \in Callers, ExportSaves(c)
    PROVE  SpentInv'
<1>1. /\ vault' = call[c].mem /\ work' = work /\ issued' = issued /\ spent' = spent
      /\ call[c].at = "export" /\ call' = [call EXCEPT ![c] = Idle]
  BY DEF ExportSaves, Exported, provider
<1>2. \A d \in Callers : call'[d].at = "idle"
  BY <1>1, NothingTyped DEF CredInv, Typed, Alone
<1>3. \A a \in Accounts : vault'.token[a] \notin spent'[a]
  BY <1>1 DEF SpentInv
<1> QED BY <1>1, <1>2, <1>3 DEF SpentInv

LEMMA SpentSteps ==
    ASSUME CredInv, TokenInv, SpentInv, [Next]_vars
    PROVE  SpentInv'
<1>1. Kinds /\ CredInv'
  BY StepKinds, CredSteps
<1> QED BY <1>1, CalmSpent, ConnectsSpent, TakesSpent, RefreshSpent, ExportSpent DEF Kinds

LEMMA SpentInit == ASSUME \A w \in Workloads : Refreshing(w), Init PROVE SpentInv
<1>1. \A c \in Callers : call[c].at = "idle"
  BY NothingTyped DEF Init
<1>2. \A a \in Accounts : spent[a] = {}
  BY DEF Init
<1> QED BY <1>1, <1>2 DEF SpentInv, Init

(* Whenever no command is under way, the Codex credential in the vault is one *)
(* the issuer still accepts, for any number of accounts, connections and     *)
(* exports, if an export is cut off by no crash, and by no refusal once a    *)
(* refresh of another account was granted                                    *)
(* (account_keeper_codex_export_accounts, persist_codex_credential).         *)
THEOREM TokensAreUsable ==
    ASSUME \A w \in Workloads : Careful(w) /\ Refreshing(w)
    PROVE  Spec => []TokenUsable
<1>1. Init => TokenInv /\ SpentInv
  BY TokenInit, SpentInit
<1>2. CredInv /\ TokenInv /\ SpentInv /\ [Next]_vars => TokenInv' /\ SpentInv'
  BY TokenSteps, SpentSteps
<1>3. SpentInv => TokenUsable
  BY UnspentVault DEF TokenUsable, Quiet
<1>4. Spec => []CredInv
  BY CredInvariant
<1> QED BY <1>1, <1>2, <1>3, <1>4, PTL DEF Spec
=============================================================================
