# BrProxies: formal specifications

TLA+ specifications of BrProxies' core logic, checked with TLC on small
instances. Every safety property and every action property that a run checks is
also proved with TLAPS, for every value of the constants and for the workloads
its theorem names; liveness is checked only.

The program is a Tauri desktop application (Rust backend in
`src/src-tauri/src`) around anti-detect browser profiles. Its most delicate
part is **Account Keeper**, which signs in to accounts, changes their passwords
and authenticators and verifies the change, over crashes, retries, manual
challenges and a provider that cannot be rolled back; a mistake locks the
operator out of an account. Around it the application keeps profiles, proxies,
a browser runtime and a proxy service in plain files and child processes,
which the window, an HTTP API and background tasks change without a common
lock. The specifications follow both.

## Inventory

| Component | State it keeps | Operations | Correct means | Modelled |
|---|---|---|---|---|
| Account state machine (`account_keeper.rs` 31-205, 4370-4485) | `AccountRunState`, one `VaultAccount` | `transition`, `apply_worker_event`, `apply_login_verified` | an unknown password is never recorded as known | `AccountState` |
| Batch coordinator (`account_keeper.rs` 3060-4190) | checkpoint and vault in memory, retry counters, `waiting_manual`, the control channel | `run_batch`, `process_account`, `persist_snapshot`, `cancel_remaining_accounts`, `mark_job_run_error`, `resume_job` | no password lost, verdicts agree with the vault, order kept, the batch settles | `AccountKeeper` (passwords, login), `VaultDesk` (authenticators) |
| Credential worker (`automation/account-keeper-*.mjs`) | the flow's position, `credentialState`, `CommandControl` | `runAccountFlow`: login, change, confirm, log out, verify; `changeTotp` | submits only when authorized, names a failure after the submission unknown | second process of `AccountKeeper`; steps of `VaultDesk` |
| Job commands (`account_keeper.rs` 1703-3010, `account_keeper_agent.rs`) | `ACTIVE_BATCH`, job files, vault file | start, pause, cancel, continue, mark failed, resume, clean, abandon, resolve, delete; the agent's batch and recovery | commands of several jobs do not undo each other's vault writes | `VaultDesk`; the controls of a running batch in `AccountKeeper` |
| Codex OAuth (`account_keeper_codex.rs`, `account_keeper.rs` 2138-2400) | one credential per account in the vault, the operations map | connect, browser session, refresh, export | the stored credential is one the issuer still accepts; it is given away once | `VaultDesk`, `CodexBridge` |
| Bridge pairing (`bridge_pairing.rs`) | one pairing slot | begin, answer, oauth, export | an export rests on the approval of its own pairing | `CodexBridge` |
| Daemon (`account_keeper_daemon.rs`) | FIFO of `DaemonJob`, saved to disk | create, cancel, continue, resume, `tick` every 500 ms | one active job, FIFO, nothing blocks for ever | `Daemon` |
| Store (`account_keeper_store.rs`, `store.rs`, `dpapi.rs`) | `vault.bin`, `jobs/*.json` | load, save, atomic rename | a file is the old or the new one | the writes of the modules above |
| Profiles, launch, process tracker (`profile.rs`, `launch.rs`, `process.rs`) | a JSON file per profile, the tracker's map, browsers | launch, kill, edit, pin, folders, delete, prepare for the Account Keeper | one browser of a profile, its entry and its endpoint its own, the file its owners' own | `Launcher`, `LaunchPlan` |
| Proxies (`proxy.rs`) | `proxies.json`, `proxies-history.json` | save, import, delete, test | what was saved and tested is there, what was deleted is not | `ProxyStore`, `LaunchPlan` |
| Proxy pool client (`proxypool.rs`) | two child processes in two locked slots, settings | start, stop, status | one service, no stray Redis, commands return | `ProxySidecar` |
| Browser runtime (`runtime.rs`, `App.tsx`) | extracted browser, fingerprint library, `manifest.json` | install, force, gate, launch | nothing incomplete is launched or vouched for | `RuntimeInstall` |
| Proxy pool service, Android manager (Python) | Redis set; JSON store | collect, recheck; wrappers | a recheck does not resurrect a deleted proxy | no |
| Format, TOTP, mailbox, SMS client, cookies, fingerprints, API, MCP, extension, UI, SDKs | none, or requests | parse, generate, poll, forward | no core logic of their own | no |

Components interact as follows. The UI, the Automation API and the MCP server
call the Tauri commands. `start_batch` and `resume_job` claim `ACTIVE_BATCH` and
spawn one coordinator task; the other commands reach it through a bounded
channel of `JobControl`, or change the vault and the job files themselves. The
coordinator prepares a profile through the launcher, spawns one Node worker per
account and talks to it over two pipes, one JSON line per message. It persists
the vault and then the checkpoint after each event. The daemon polls the job
file of the batch it started. A launch reads the profile and the proxy list,
probes the proxy, spawns the browser and hands it to the tracker, whose task
writes the profile's file when the browser ends.

The hard behaviours are: the provider accepts a password or an authenticator at
a moment nobody observes; a crash falls between two files, or inside one that
is written in place; Cancel, Continue and worker events race in one `select!`;
an orphan worker survives its coordinator; retries restart the flow; commands
hold copies of a file across an `await`; and tasks act on an entry by a key that
belongs to somebody else by then. `PROJECT.json` lists the sharpest ones, each
at its line, under `hazards`.

## Modules

| Module | What it is |
|---|---|
| `AccountState` | Pure definitions: stages, run states, vault records, the guards and effects of every account event. |
| `Rotation` | Abstract promise: one password pair per account (current, attempted) and the provider's; five actions. |
| `AccountKeeper` | One batch: coordinator, worker, provider, operator, faults. Extends `AccountState`, instantiates `Rotation` for the refinement. |
| `AccountKeeperProofs` | Proofs about `AccountKeeper`: types, passwords, refinement, checkpoint, nobody waits. |
| `VaultDeskProofs` | Proofs about `VaultDesk`: credentials, verdicts, ways back, nothing returns, tokens. |
| `LauncherProofs`, `LaunchPlanProofs` | Proofs about one profile, and about the proxy files and a launch. |
| `DaemonProofs`, `CodexBridgeProofs`, `RuntimeInstallProofs`, `ProxySidecarProofs` | Proofs about these modules. |
| `Daemon` | The daemon's queue, its ticking task, the requests that race it, and the batches as the daemon sees them. |
| `VaultDesk` | Several batches, the agent's process and the commands on one vault: passwords, authenticator secrets, Codex credentials. |
| `CodexBridge` | Sign-ins in the user's browser and the pairing slot above them. |
| `Launcher` | One profile: its file, its tracker entry, its browsers, and who launches, stops, edits and deletes it. |
| `ProxyStore` | The proxy list and its test history, cut at every read and write. |
| `LaunchPlan` | What a launch makes of the bound proxy. Extends `ProxyStore`: both run together. |
| `RuntimeInstall` | Installation of browser, Widevine and fingerprints, the gate, the forced reinstallation. |
| `ProxySidecar` | The commands that start and stop the proxy service and its Redis. |
| `MC*` | Values of the constants for TLC: workloads, bounds, symmetry. |

`CodexBridge` and `VaultDesk` meet at the credential: the first follows who may
have it, the second what happens to the one that is stored. `Daemon` sees a
batch as `AccountKeeper` shows it from outside; `VaultDesk` sees it as a writer
of the vault. `Launcher` takes the proxy of a launch as given; `LaunchPlan`
takes the browser as given.

### How AccountKeeper corresponds to the code

* **Passwords.** A password is the number of the generation that minted it;
  1 is the imported one. `minted[a]` is the last one `process_account`
  generated for account `a`. `NoPassword` is Rust's `None`.
* **Disk.** `vault` and `ckpt` are the two files. `persist_snapshot` is two
  steps, `Persist` (the vault reaches the disk) and `SaveCheckpoint`, and a
  crash or a failed write may come between them. A write of one file is
  atomic (write a temporary file, rename).
* **Coordinator.** `pc` is the place in `run_batch` and `process_account`;
  every action is one stretch of code up to the next save, send or `select!`.
  In memory the vault always equals the file, so one variable serves both; the
  checkpoint in memory is `mc`.
* **Worker.** `wpc` is the place in `runAccountFlow`. What the page shows is a
  nondeterministic choice among the worker's actions. A pipe delivers whole
  lines in order. When the coordinator ends in error, `kill_on_drop` kills the
  worker; when the application crashes, the worker survives as an orphan and
  ends at its next write.
* **Provider.** A submitted change is in flight until the provider accepts or
  refuses it, at any later moment, or never.
* **Operator.** Pause, Cancel, Continue and Mark Failed at any moment while the
  batch is busy, for any account key; Cancel of an inactive job; Resume.
* **Faults.** Crash, failed vault write, failed checkpoint write (before or
  after the checkpoint reached the disk), failing error marking, a worker that
  dies, a line the protocol rejects.

Simplifications, each of which only merges steps that no property tells apart:
the two lines of a challenge (`stage`, then the request) are emitted in one
step; `waitForManual` registers its waiter together with its request; the pause
command reads and writes the checkpoint in one step; formatting, logging,
labels, timestamps and output files carry no state.

### How Daemon corresponds to the code

* **Queue.** `jobs` is `DaemonState.jobs` in memory, `saved` the protected file.
  `Save` is a change under the lock followed by `save_state`: a failed write
  leaves the file behind, as in the code. A job keeps its status and its batch.
* **Tick.** `tpc` is the place in `tick`, cut wherever the code gives up the
  lock or awaits: first look, read of the job file, report; or pick, start,
  record. `tjob`, `tbatch` and `tseen` are its locals.
* **Requests.** `create_job` and the useful part of `continue_job` are one step;
  `cancel_job` and `resume_job` are a read, then a step per lock (`caller`).
* **Batches.** What `AccountKeeper` models in full is here the status in the job
  file, `open` (an account is left to do), `unknown` (an account has an unknown
  password) and the pending controls. `Outcomes` allows every end that
  `run_batch` and `mark_job_run_error` can write for a batch without proxies,
  which is what the daemon starts. `active` is `ACTIVE_BATCH`.
* **Window and faults.** The desktop window starts, resumes, pauses, abandons
  and cleans batches; the application crashes, a save fails, or a batch dies
  without a trace (`BatchVanishes`).

A tick that finds no main window, and requests that are refused before they
change anything, are left out. The test and the deletion of a job file by
abandon and clean are one step.

### How VaultDesk corresponds to the code

There is no lock on `vault.bin`. Code without an await between its load and its
save is one step; a command that waits in between is a `...Loads` and a
`...Saves` step with its copies in `call`. `batch[p]` is the batch that the
`ACTIVE_BATCH` of process `p` names (the application, the agent), with the vault
(`mem`) and the checkpoint (`ck`) it keeps for its whole life and writes at every
event. Records keep the password's state, its generations, the authenticator's
secret (`secret`), what `last_status` says and the last job; `change` is
`pending_security_changes`. `real` and `totp` are the provider's side: the
password it accepts, the secret it asks for and the last one it has shown.

A `change_totp` batch goes through `TotpOpens`, `TotpAuthorizes` (recorded before
the old authenticator may be removed), `TotpEnrolls` (the new secret is recorded
before its code is sent) and `TotpVerifies`; the provider's two steps may come at
any time after their authorization, or never. `TotpFails`, `BatchIsUnsure` and
`BatchErrs` are the failures before, after, and outside the worker's events.

An import names the password and the secret that the provider asks for, which
is what a correct input file says; the code has no means to tell an older file.
`change_email`, and `recover_headless_credentials` for an account without an
attempted password, which no step of this model leaves behind, are not modelled.

### How CodexBridge corresponds to the code

`slot` is the pairing of `bridge_pairing.rs`, `op` the operations map with the
task of each sign-in, `request` the API handlers under way, cut at every await
and between the two locks. The extension draws a fresh nonce for every pairing,
so a pairing is its number. Clocks are steps: ten minutes after its begin a
pairing is old (`old`), five minutes end a sign-in, and an operation is
forgotten after fifteen, which is after its pairing. `tabs` are the pages still
open in a browser, which call back on the port they were given.

### How Launcher corresponds to the code

One profile, since everything is keyed by its id. `file` is its JSON, `entry`
the tracker's entry, `child` the browsers with the tracker's task of each,
`port` the browser that wrote `DevToolsActivePort`, `seen` the window's last
poll, `call` the commands under way with the copy of the file they hold.
`owned` is history. A launch is a load, a wait, and then spawn, track and
`touch_launched` in one step, as the code does not wait there. Dropping a sender
(an entry replaced or removed) closes its browser. The Account Keeper runs one
command at a time. Creation, cloning and import of profiles make new ids and
are not modelled.

### How ProxyStore and LaunchPlan correspond to the code

`proxies` and `history` are the two files. A save truncates the file and then
writes it, so a file being written is an empty one, which is what both loads
take an unreadable file for. The commands of the window run on the main thread;
tests and the API run on others, and threads interleave at awaits only, unless
the workload is `fine`, when they interleave between any read and write. An
import is one bulk row at a time. `kept`, `gone` and `tested` are history.

`LaunchPlan` adds one launch, step by step: `LoadsProxy`, the UDP probe, the
look-ups of time zone, language and address, with what each falls back to. A
probe ends and a look-up answers an exit, nothing usable, or an error;
`Answers` leaves out the answer of empty fields (see Known divergences).

### How RuntimeInstall and ProxySidecar correspond to the code

`RuntimeInstall`: `tree` is the extracted browser (there, whole, damaged, its
version), `stamp` the manifest's etags, `tmp` the temporary files, `job` the
installations with the archive in hand. Extraction is a part and then the whole;
the application may end in between. `gate` is what the window shows.

`ProxySidecar`: `rslot` and `slot` are `REDIS_CHILD` and `CHILD`, each with the
holder of its lock; a command holds a lock across its waits. It follows the
Windows release with complete resources and a local Redis URL.
## Runs

Where one instance would be too large, a run starts from one of several
*workloads*, records that say which commands are used and how many of each
thing may happen; a workload is picked once and for all in `Init`. All workloads
of a run check the same properties.

| Run | Instance | Shows |
|---|---|---|
| `batch` | change_password, 2 accounts, 1 challenge, 1 control, 1 fault, 1 resume | all safety properties of a batch; `AccountKeeper` implements `Rotation` |
| `live` | change_password, 1 account, 2 challenges, 1 control, 1 fault, 1 resume | the batch settles; Cancel ends it |
| `login` | login, 2 accounts, 2 controls, 1 fault, 1 resume | verdicts agree with the vault for the other operation |
| `daemon_queue` | 2 jobs, 2 batches, 2 requests; overlapping with a challenge and a fault, or in turn with an action of the window and a fault | order, one start per job, recovery only on request, one slot, completed means complete |
| `daemon_live` | 2 jobs, 2 overlapping requests, 1 challenge | the queue drains; a cancel ends its job |
| `daemon_cancel_race` | 1 job, 1 request | violation, see Findings |
| `desk_work` | up to 2 accounts, 3 batches, 4 passwords; six workloads | no password, authenticator secret or credential is lost or comes back |
| `launcher_work` | 1 profile, 1 proxy, up to 3 browsers; four workloads | one browser with its entry and endpoint; the file is its owners'; kills and preparations end |
| `bridge_budgets` | up to 3 pairings, 2 sign-ins, 2 requests at once, 2 profiles | an export rests on its own approval and sign-in |
| `runtime_work` | 3 publications, 3 restarts, 3 acts of the user; two workloads | gate, manifest and launches see a whole browser |
| `pool_work` | 2 commands, 2 ports, 3 processes of each kind, 2 attempts; three workloads | nothing stray, answers hold, commands return |
| `plan_work` | 2 proxies, 2 commands, 2 exits, history cap 2; five workloads | the files keep what was saved; a proxied profile shows its proxy only |

The workloads of `desk_work` are *Serial* (every command on one account, one
after the other, 3 batches, one crash), *Busy* (the commands that keep no copy
of the vault, at any moment of a batch of two accounts), *Window* (the window
beside the agent's process), *Tokens* (the Codex credentials of two accounts),
*Refused* (an issuer that refuses a refresh) and *Secrets* (changes of an
authenticator beside rotations, cut off by a crash, an error or a cancel). Those
of `launcher_work` are *Keeper* (the Account Keeper's preparations, retries and
deletions beside kills, bindings and imports), *Window* (launches, edits, pins,
two at a time), *Temporary* (a temporary profile that window and API launch) and
*Filed* (folders renamed and deleted beside edits and a browser). Those of
`runtime_work` are a first installation that fails and is interrupted, and a
damaged browser at a launch with a user who may empty the library. Those of
`pool_work` let commands overlap while the settings change or a process dies, or
come one after the other. Those of `plan_work` are two commands over two
proxies, one command at a time with enough tests to overflow a history twice,
ends of the application at any step, threads that interleave between a read and
its write, and a launch beside all of it.

### Bounds, and why they are enough

With two accounts there is an earlier and a later one, so that order, sweeping
and the stop at a critical account are exercised; one fault at any step followed
by one resume reaches every state in which one file is ahead of the other and
every orphan worker; one control at any step meets every place of the flow.
Retries use the code's own limits (2 and 1). `daemon_queue` has one job that
holds the slot and one behind it, and a fault that falls before, during and
after the start of each.

In `VaultDesk` three batches give a job that is old, one that is interrupted and
one that runs; four passwords let an account be rotated by each of them. In
`Launcher` three browsers give one that is orphaned by a crash, one that is
being killed and one that replaces it; two callers give every pair of commands.
In `CodexBridge` three pairings give one that was abandoned, one that is denied
and one that is answered; two sign-ins and two requests give every pair of them.
Three versions let a publication fall between two archives and between two
installations. `MaxAttempts` is 2: a Python named in
the environment and the bundled service are the ways of starting it in a release
on Windows. `MaxSnaps` is 2 where
the code keeps 50: `record_test` cuts the history only at its cap, and the
collapse looks only at the newest snapshot. Proxy ids are random in the code; `ProxyStore` gives a
new entry an id that neither a file nor a command knows any more, so that
behaviours of any length pass through a small set.

`CHECK_DEADLOCK FALSE` is set where the system really stops: a batch that has
finished and has no resume left, a workload whose commands are spent, a launch
that is closed. The daemon's tick and `ProxySidecar`, whose commands may always
be called again, are checked for deadlock.

### Properties

A run checks conjunctions; the parts, which have names and comments of their
own, are what they are about. `TypeOK` types every variable of its module.

`AccountKeeper`:

* `PasswordNeverLost`: a password called known is the provider's and nothing is
  in flight; with an unknown one, the provider's is the current or the recorded.
* `AuthorizedIsDurable`: no worker may submit before the attempt is on disk.
* `VerdictMatchesVault`: the checkpoint's verdict on an account agrees with the
  vault whichever file a crash left behind.
* `DoneInOrder`: accounts before the one in hand are terminal on disk.
* `NobodyForgotten`: coordinator and worker never wait for each other.
* `TerminalIsFinal`, `CriticalStopsBatch` (action properties): verdicts stay,
  and no worker starts while an account of the batch is unknown or critical.
* `BatchSettles`, `CancelEndsBatch` (liveness), `ImplementsRotation` (refinement).

`Daemon`:

* `Tracking`: a live job has a batch started or resumed since the application
  came up (`LiveWasClaimed`), and a batch that runs belongs to its job
  (`ActiveIsTracked`).
* `StartsByRule`: no start overtakes an earlier queued job (`FifoStarts`); only a
  resume request ends `recovery_required` (`RecoveryIsExplicit`).
* `CompletedIsComplete`, `OneSlot`, `StartedOnce`: a completed job left nothing
  undone or unknown; one job is live or needs recovery; a job is started once
  unless a crash or a failed save falls between.
* `QueueDrains`, `CancelEndsJob` (liveness).

`VaultDesk`:

* `CredentialsKept`: a known password is the provider's and an unknown one is
  the current or the attempted (`Recoverable`); the authenticator secret that the
  provider asks is in the vault (`SecretKept`).
* `NoDeadEnd`: an unknown password has a job from which it can be resolved, when
  nothing overlaps and no job is abandoned.
* `SuccessSignsIn`: an account called successful signs in with what the vault
  says.
* `TokenUsable`: the stored Codex credential has not been exchanged.
* `NothingReturns`: neither a removed record (`NoResurrection`) nor a replaced
  credential (`ConnectedStays`) comes back from an older copy.

`Launcher`:

* `BrowserKept`: a browser of this run has the tracker's entry until it ends
  (`Tracked`), closes only at its own stop (`StaysUp`) and has its own endpoint
  (`EndpointFresh`).
* `FileOwned`: every session is counted (`RuntimeCounted`), only `set_pin` pins
  (`PinOwned`), a temporary profile leaves the disk (`TemporaryLeaves`).
* `ImportsAlone`: cookies are imported while no browser runs.
* `KillWorks`, `PrepareAnswers` (liveness).

`CodexBridge`: `ExportSound` (one export per credential and per pairing, approved
by the user, of the sign-in's own callback), `SignInsApart` (one sign-in of a
profile at a time; the slot's sign-in is its pairing's), `ConsumedStays`.

`RuntimeInstall`: `InstalledWhole` (gate and manifest vouch for a whole tree,
`GateWhole` and `StampWhole`), `LaunchWhole`, `LibraryKept` (edits survive an
installation, `EditsKept`; the gate opens on a library, `GateHasLibrary`).

`ProxySidecar`: `NothingStray` (one service, no Redis outside the slot),
`AnswersHold` (`StopStops`, `StartedHasRedis`), `CallsReturn` (liveness).

`ProxyStore`, `LaunchPlan`: `FilesKept` (what was saved and tested is there, what
was deleted is not, histories have their shape), `LaunchSound` (`KeptIsProxied`,
`TaggedHidesHost`, `ExitShown`).

Several properties hold only of a restricted use, and say so in their formula:
`Orderly` (commands one after the other, and only the Account Keeper launches:
the API asks nobody whether the profile runs, and the window its last poll),
`~Edits`, `~work.overlap`, `left.alone`, `~left.fine`, `~left.restarts`,
`~left.empties`, `overlaps = 0`. What happens outside it is told under Known divergences; the
workloads outside it stay in the runs, where the other properties hold.

### Fairness

Weak fairness of `Coordinator` (a Tokio task that is polled whenever it can
proceed) and of `Worker` (each page action and read has a timeout and then
fails). Nothing is assumed of the operator, the provider or the faults. A worker
waiting for a Continue may wait for ever, and so `BatchSettles` allows it.

In `Daemon`: weak fairness of the ticking task (an endless loop with a 500 ms
sleep), of each request once it has begun, and of a batch that waits for nobody,
which is what `BatchSettles` and `CancelEndsBatch` show of `AccountKeeper`.
Nothing is assumed of new requests, of the window or of Continue.

In `Launcher`: weak fairness of the steps of a command that has begun
(`wait_profile_absent`, `set_cdp` and the launch all wait for a bounded time) and
of the tracker's tasks, which kill a browser that has not closed after five
seconds. In `ProxySidecar`: strong fairness of each command, whose two locks are
Tokio mutexes, which serve their waiters in the order of their arrival; nothing
is assumed of new commands, of the settings or of processes that die.

The other modules state no liveness: a sign-in, a pairing, a download or a probe
waits for people and networks that may never answer.

## Findings

`daemon_cancel_race`: `cancel_job` reads *queued*, the tick starts the batch, and
whichever writes last, a batch runs behind a job that was cancelled. The review
notes (`docs/superpowers/specs/2026-07-31-account-keeper-review-fixes.md:27-42`)
describe this race and the check it needs; the code does not have it.

### Known divergences

The models were first checked without the restrictions above. TLC's
counterexamples, which are behaviours of the code, are these. A document or a
comment that says otherwise is named.

Account Keeper, one batch:

* A manual challenge solved during the second sign-in ends with Continue, which
  sets the stage to `logging_in` (`account_keeper.rs:115`), where `verified` is
  rejected: the account ends critical although the new password works
  (`docs/account-keeper.md:269, 322`).

Account Keeper, authenticators:

* After a disable has been authorized, an error of the coordinator or a crash
  ends the account as failed or cancelled although it is without its old
  authenticator; the vault keeps the secret.
* An interrupted `change_totp` job cannot be resumed once its account is
  recorded as changing (`account_keeper.rs:2647`).
* Importing older input again overwrites the password of an account rotated
  since, or drops a pending change of its authenticator (1428, 1443).

Account Keeper, several commands on one vault:

* `resolve_critical` (2740) and `connect_codex` (2187) keep a copy of the vault
  through waits of minutes and save it over what a batch has recorded meanwhile;
  the agent's process (1850) and the window's do the same to each other
  (`README.md:50`, "one at a time").
* A running batch writes the copy of its start over a Codex credential that a
  browser session has stored (4083).
* Cleaning an old job forgets the attempted password of an account that a newer
  job holds as critical (2778; `docs/account-keeper.md:296-299`). Abandoning a
  critical job leaves an account no command accepts (2764; line 364). A command
  that runs beside a batch may do either to the account in the batch's hand.
* Resolving the critical account of a job whose later accounts are queued
  completes the job, and they can no longer be resumed (2740; line 382).
* An export of several accounts saves the refreshed credentials after its loop;
  an error of a later account loses the earlier refresh token (2360).

Daemon:

* A crash between the start of a batch and the save of its id leaves the job
  queued, and the next tick starts a second batch by itself
  (`account_keeper_daemon.rs:336`; `docs/account-keeper.md:77-78`). The same
  follows from a failed save.
* Cancelling a job in `recovery_required` cancels its batch and not the job,
  which holds the slot for ever (255; lines 80-81).
* Abandoning or cleaning the batch of a live job deletes the file that
  `sync_batch` reads; the job stays running and the queue stands (299).
* Two overlapping resumes of one job can make two jobs live, if the second one
  rests for as long as a whole batch runs (259).

Profiles:

* A second launch replaces the tracker's entry and ends the first browser, whose
  task then removes the newer one's entry and closes it (`process.rs:100`, 38);
  its endpoint may be attached to the newer one (127), and cookies are imported
  beside it (`lib.rs:858`). The window launches a second browser within the two
  seconds of its poll, the API at any time.
* `edit_profile` saves the copy it held through a network test: the counter, the
  folder, or a temporary profile already deleted, are what they were before
  (`profile.rs:183, 196, 204`, against its comments at 189 and 202).
* `assign_pending_profile_proxy` looks at the file and not at the running
  browser (`account_keeper.rs:4179`; `docs/account-keeper.md:251`).

Pairing:

* A sign-in outlives an abandoned pairing, and the next approved one is denied
  (`bridge_pairing.rs:160`; `extension/README.md:56`).

Runtime:

* A forced reinstallation that is cut off leaves a half tree under a manifest
  that vouches for it and a `chrome.dll` that looks clean (`lib.rs:820`).
* A user who empties the library gets none again while its etag is the published
  one (`runtime.rs:294`, against 200 and `App.tsx:6561`). Emptying it also makes
  the gate install over a whole browser, whose manifest is there already: cut off
  in that installation, half a browser passes for a whole one.
* Two launches that install at once extract each other's archives (360).

Proxies:

* A change of the Redis URL while its process lives (`proxypool.rs:374`), or a
  stop between a start's two locks (479), gives a service without Redis.
* Two threads that change `proxies.json` or the history lose one change
  (`proxy.rs:87, 706`); an end of the application inside a write empties the
  list (75); a test of a deleted proxy brings its history back (832).
* A launch that does not find its proxy, because it was deleted or the file is
  being written, starts without one (`launch.rs:100`); a failed UDP probe counts
  as the last test did (112); an empty geo answer gives UTC and en-US although
  the proxy has a country (407).

## Proofs

`AccountKeeperProofs` proves, for every value of the constants:

* `TypeCorrect`: `Spec => []TypeOK`. `TypeOK` is not inductive: `vault[idx]` and
  `mc.st[idx]` need `idx` to be an account, although `account_index` runs one
  past the last. `TypeInv` adds `HandOK`: whenever `process_account` has an
  account in hand (now, or once the snapshot in progress is saved: `Going`)
  `idx` is an account, and it returns only from a terminal stage or `queued`.
  The proof has one lemma per group of actions, on lemmas about the state
  machine, the checkpoint functions and `Persist`.

On top of it:

* `NeverLost`: `Spec => []PasswordNeverLost`, and `Durable`:
  `Spec => []AuthorizedIsDurable`. Neither is inductive. The invariant `IInv`
  follows one attempt around the system. Before it is recorded, the attempt in
  hand is newer than every password the vault holds (`Fresh`) and the worker
  that asks faces an account nobody has changed (`Untouched`), the only one that
  may become unknown (`OneUnknown`). The authorization is sent only with the
  attempt on disk (`Authorizing`), so what a worker submits is what is recorded,
  even an orphan's worker, whose pipes are closed (`Session`, `Place`). A change
  in flight meets an account that still has its old password (`Record`), so
  whatever the provider answers leaves one of the two. And a `verified` in the
  pipe means that the worker is gone and the provider holds the attempt
  (`Reports`), which is why `VerifiedRecord` may call it known. One lemma per
  group of actions, as above.

* `Implements`: `Spec => ImplementsRotation`. With `IInv`, `OnSubmitRequired` is a
  `Record` of the promise, `WorkerSubmits` a `Submit`, the provider's answers are
  `Accept` and `Refuse`, `OnVerified` is a `Confirm` (or, for a login, changes no
  password), and every other step is a stutter. `Rotation` states no fairness.

* `Truthful`, `InOrder`, `Final` and `Stops`, with `VInv`: the memory knows every
  verdict on disk (`Ahead`) and agrees with the vault (`InMemory`); the account in
  hand, the only one whose vault record changes, has no verdict until
  `process_account` has its outcome (`HandOpen`); every other one is over or still
  queued (`Queue`); and no stage a worker reports is a verdict (`OpenStages`).
  None of the four properties is inductive without it: a save may be cut off
  between vault and checkpoint.

* `NobodyWaits`, with `Heard`: a request that a worker waits on is in its stdout,
  with the coordinator, which saves a snapshot before it answers, or its answer is
  in the worker's stdin.

`VaultDeskProofs` proves every property of `VaultDesk`, about workloads that are
`Careful`: where commands overlap, none of them keeps a copy of the vault through
a wait, and one of the two processes starts batches. All workloads of `desk_work`
are; outside of it the properties are false, as the known divergences tell, since
nothing locks `vault.bin`.

* `CredentialsAreKept` and `SuccessIsTrue` rest on `CredInv`. Whoever keeps a copy
  is alone with the file (`Alone`), so its copy agrees with the file on all that a
  save could overwrite (`BatchCopies`, `CallCopies`); an account that a batch
  has still to finish is no success already (`OpenOnes`); and of each account, in
  the file and in a batch's memory, `Held` says where the password and the secret
  of the provider are, by what the record and the pending change say, and `Holds`
  what the worker's place adds for the account in its hands.
* `UnknownHasAWayBack` adds `BackInv`: an account no batch has begun is of a known
  password (`QueuedKnown`), so that the job file which a cleaning, a resolution or
  a sweep takes away was not the last way back. It concerns workloads without
  overlap and without abandoned jobs, the condition of `NoDeadEnd` itself: TLC
  finds it false beside a running batch.
* `RemovedStaysAway` and `TokensAreUsable` rest on `TokenInv` (a copy under way
  has the file's Codex tokens, or newer ones) and `SpentInv` (a token in the vault
  that has been exchanged is in the hands of an export). The second assumes
  `Refreshing`: an export is cut off by no crash, and by no refusal after a granted
  refresh, the two cases in which the code loses a token.

`LauncherProofs` proves `BrowsersAreKept`, `FileIsOwned` and `ImportsAreAlone`, for
any workload; what they restrict is in the properties. `TypeInv` counts sessions by
the browsers that are gone, `FileInv` bounds the counter in every copy of the file
under way. In `BrowserInv` a browser has the entry until its task has ended, a
launch under way finds no entry to replace, and the port file it reads is its own
browser's: what a second launch would break, and what `Orderly` grants.

`LaunchPlanProofs` proves `FilesAreKept` and `LaunchesAreSound`, for any workload.
In `StoreInv` the list on disk is what was saved and not deleted, or else the copy
that is being written is (`ListKept`, and `TestsHeld` of the histories); of
overlapping commands one is between its read and its write (`OneWorks`); and the
history of a deleted proxy is one that the deletion under way still owes
(`InTurnInv`). Every copy on its way to the file has the shape of a history
(`ShapeInv`). `PlanInv` carries the proxy, the zone and the language through the
launch. The theorems also cover the answer of empty fields (`NoExit`), which the
run leaves out: there a proxied profile has the default zone, as the known
divergences tell.

`DaemonProofs` proves every safety property of `Daemon` (`Tracks`, `Completes`,
`Slots`, `Once`, `ByRule`). `DaemonInv` follows a job across the gaps between
locks: the job in the hand of the tick (`TickHand`) and of each request
(`CallerHand`) is still what the next step takes it for; a queued job has no batch,
in memory or on disk, and a completed one a batch that is done (`QueueOK`); a batch
that was started is its job's alone (`Tracked`, `Started`); a completed batch has
nothing open or unknown (`Files`). `OneSlot` needs `Alone`, which holds
until requests overlap.

`CodexBridgeProofs` proves every property of `CodexBridge` (`Exports`, `Apart`,
`ExportedStays`). In `BridgeInv` numbers are fresh (`Numbered`), the slot's pairing
is one of those begun (`Slotted`), and a pairing has one handler (`Handling`,
`Sole`) or one sign-in (`Signing`), which gives its credential once (`Giving`).

`RuntimeInstallProofs` proves `LibraryIsKept` for any workload, and
`InstallationsAreWhole` and `LaunchesAreWhole` for workloads that are `Steady`: no
launches and a user who does not empty the library, or one launch at a time that
neither fails nor is ended. Both workloads of `runtime_work` are; outside of it
both properties are false, as the known divergences tell. Nothing marks a half
extracted tree, so `WholeInv` says what an installation knows of the tree at each
of its places (`Fits`), that one is at work (`OneAtWork`), that a manifest beside no
installation is the tree's (`Vouched`), and that a first installation has no
manifest to leave behind (`FirstOne`). `LibraryInv` says that whoever counts on the
library, by its etag or at its last step, finds it.

`ProxySidecarProofs` proves `NeverStray` and `AnswersAreTrue`. `SidecarInv` places
every process: in its slot, or in the hands of the command that holds the slot's
lock; what a stop has found running does not run again (`StopEnds`, for any
workload). `StartedHasRedis` is about workloads whose commands come one after the
other; there the theorem assumes settings that stay and no deaths (`Calm`), since
the code answers without a Redis after either. `CalmInv` has one port for commands
and Redises (`OnePort`), which answers once a start has found or awaited it
(`Answered`); a Redis that loads while no command waits for it stands before a port
that someone else has taken (`Awaited`).

The assumptions on constants are those the modules name (positive number of
accounts, natural bounds, finite or disjoint sets of names). The inductive
invariants of `VaultDesk` and `RuntimeInstall` were checked with TLC on the
instances of their runs before they were proved.

Checked and not proved is liveness: `BatchSettles`, `CancelEndsBatch`,
`QueueDrains`, `CancelEndsJob`, `KillWorks`, `PrepareAnswers` and `CallsReturn`.
ENABLED and fairness are out of the prover's reach.

## Plan

1. Wider hypotheses: `NothingReturns` and `NoDeadEnd` for commands that overlap
   without keeping a copy; `OneSlot` for overlapping resumes of different jobs.
2. An abstract vault (one record of an account, changed by whole commands) that
   `VaultDesk` implements when nothing overlaps, as `AccountKeeper` implements
   `Rotation`.
3. `change_email`, whose stages and mailbox waits `AccountState` leaves out.
4. The worker's pipe: line framing and `CommandControl`'s waiters.
5. The proxy pool service: collect and recheck over one Redis set.

## Not modelled

* Page heuristics of the adapters: what a page shows is a choice of the worker.
* File formats, parsing, password templates, RFC 6238, encryption, fingerprints,
  routing of the API and the MCP server, UI and build scripts: data or I/O
  without a protocol of their own.
* The SMS client, the mailbox and the Android manager: requests and polls that
  keep no state beside the service they ask.
* Networks that never answer: every probe and download of the models ends,
  although only the connection of a proxy probe has a time limit (`proxy.rs:366`).
* Two launches that extract the runtime at once through one temporary file
  (`runtime.rs:360`), and a user who empties the library while installations are
  interrupted.
* A proxy service that has survived a crash (`proxypool.rs:412`): nothing states
  what the next start should make of it. A Redis that has survived is the one of
  someone else with which `ProxySidecar` may start.
