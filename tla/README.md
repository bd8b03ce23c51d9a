# Verification of unlinger

unlinger finds browser-automation processes that outlived the work they were
started for and, when its operator has armed it, ends exactly those processes.
The program is dangerous in one way: it may send a signal, or remove a file, that
nobody authorised any more. Almost all of its code is there to make sure that a
side effect rests on current authority, current facts and a durable record, while
the daemon crashes, restarts, loses SQLite writes and shares its state with a
background worker, an operator and two families of clients. These modules model
that code; TLC checks them on small instances and TLAPS proves the central
properties for every instance.

Paths below are relative to the repository; `daemon/` stands for
`crates/unlinger-daemon/src/`, `core/` for `crates/unlinger-core/src/`, `cli/` for
`crates/unlinger-cli/src/`.

## The system

| component | state | operations | talks to |
|---|---|---|---|
| managed lifecycle (`daemon/store.rs`, `ipc.rs`, `main.rs`) | the singleton row `managed_lifecycle`; its mirror in `DaemonStatus` | boot, recovery, first scan, Arm, Disarm, BeginDrain, `fail_closed`, preserve on shutdown, offline clear | everything that signals reads its gate |
| cleanup executor and journal (`core/cleanup.rs`, `daemon/engine.rs`, `store.rs`) | frozen plan, `cleanup_attempts`, `cleanup_actions`, `cleanup_artifact_actions`, `cleanup_retry_blocks` | begin, prepare, recheck, deliver, complete, settle, recover | gate of the lifecycle, policy revision, process table |
| owner mutations (`daemon/ipc.rs`, `store.rs`, `public_action_policy.rs`) | pause, protections, blocks, durable and in-memory revision, receipts, namespace | pause, resume, retry, protect, unprotect, lookup, prune | engine (captured revision), App, CLI |
| reconciliation engine (`daemon/engine.rs`) | the running cycle, the background worker handle | observe twice, confirm, begin, collect | all of the above |
| daemon loop and maintenance workers (`daemon/main.rs`) | loop position, cache and storage workers | boot, loop, drain, exit | lifecycle, stores, scheduler |
| activity leases and roster (`daemon/ipc.rs`) | exact owners of storage and cache activity, cycle token | begin, continue, finish, publish | maintenance workers, App |
| cooling, retry blocks, protections (`daemon/store.rs`) | cooling candidates with boot and uptime marks, absence marks | track, reconcile, authorise | engine |
| task and session owners (`daemon/store/tasks.rs`, `store/session_owners.rs`, `cli/task.rs`) | lease rows, generations, bound controllers | reserve or declare, activate, bind, release, prune | engine, CLI wrapper |
| tool cache and node compile cache (`daemon/tool_cache.rs`, `node_compile_cache.rs`, `store/tool_cache.rs`) | one attempt row per cache, a supervised child | begin, run, settle, recover | maintenance workers |
| storage residue (`daemon/store.rs`, `main.rs`, `unlinger-macos/storage_residue.rs`) | last observation, PREPARED row | observe, prepare, delete, settle, recover | maintenance workers |
| scheduler and native events (`daemon/scheduler.rs`, `unlinger-macos/events.rs`) | pending wake, next deadline | wait, coalesce, fall back | loop |
| history file (`daemon/store.rs`) | the database and its SQLite sidecars, quarantine directories, the recovery row | open, preflight, quarantine, create, check identity | everything durable |
| rules analyzer (`unlinger-rules`) | none | classify, revalidate | engine, executor |
| service transaction (`cli/service.rs`) | transaction file, prior and candidate generation, plist, database backup | install, accept, roll back, recover | lifecycle over IPC, launchd |
| App journal and notification ledger (`apps/UnlingerApp/Sources/UnlingerKit`) | pending mutation, claimed notifications | persist, send, resolve | receipts |

What is hard in it:

* **two copies of authority.** SQLite decides, memory is what a signal checks; a
  write can fail between them, and a crash erases only one of them;
* **a worker beside the cycle.** Cleanup runs for a minute or more in its own
  thread while new cycles, operator commands and maintenance workers go on;
* **a crash inside a side effect.** Between a kill and the row that records it
  nobody knows what happened, and recovery must not guess in its own favour;
* **facts that move.** Processes exit, pids are reused, sessions revive, files
  appear, and a process table is not always complete;
* **lost answers.** A client may not know whether its mutation was applied;
* **two client families** that advance the same policy revision differently;
* **time nobody watched.** A grace period must be earned by looking, across sleep,
  missed cycles, clock steps and restarts, from process tables that may be partial;
* **ownership by strangers.** A wrapper, its command, a request handler and the
  engine each hold a part of the truth about one lease, and each may die;
* **an installation of many durable writes.** A candidate replaces a running
  service over a dozen files, launchctl calls and requests, and every stop between
  two of them has to end with the old service or the new one, never a mixture.

What makes each part correct, in one line each: the lifecycle never holds
volatile authority SQLite did not grant, never grants it twice from one intent,
never before a signal-free scan and never after a failure; an attempt signals
only with current authority on fresh facts, journals before it acts, calls a
tree cleared only when it is gone, and always reaches a terminal state; a
mutation is applied once, its status is never misreported and it revokes every
plan older than itself; a service command never loads a build over a history it
cannot open, never gives up rollback material before the decision, never undoes an
acceptance and never leaves a daemon armed against the published intent; a
maintenance worker removes under one exact lease, stops when it is revoked and
records no more than what happened; a leased command runs only under a lease that
names it, and the lease ends with the command; an incident is attempted only after
it was seen abandoned for the whole grace, never while somebody holds it, and never
while the owner of its session lives; the history is one database with its own
sidecars, and a corrupt one is set aside, apart from every other.

## Modules and their code

**ManagedLifecycle** models `managed_lifecycle` and its mirror. `row` is the SQLite
row and `mem` the lifecycle fields of `DaemonStatus`, records of the same shape
(0 stands for NULL). The operators `BootRow`, `ArmedRow`, `FailedRow` and so on are
the rows the transactions of `store.rs` leave behind; each action is one
`ControlPlane` method, which holds the status mutex around one immediate
transaction and the memory update after it, or one step of `run()` in `main.rs`.
`StoreOutcome` chooses whether a write commits. `pc` follows the process through
boot, loop and exit, `worker` the cleanup thread as far as the lifecycle depends on
it. `intent`, `failed`, `lost` and `scanned` are history: what the operator last
asked for, whether a failure followed, whether this instance failed or drained,
whether it committed its first scan. The instance lock (`paths.rs`) is why one
process is modelled.

**ProcessCleanup** models one incident and its attempts. `plan` and `frozen` are what
`CleanupPlan::from_confirmed` and the engine freeze; `frame` holds the locals of
`execute()`; `rows` and `artRow` are the journal. Each worker step touches a shared
thing once: one snapshot with its targeted lookups (`Start`, `RecheckAction`,
`GraceEnds`, `RevivalWindow`), one transaction (`PrepareAction`, `CompleteAction`,
`SettleAttempt`), or one native call under the status lock (`SignalExact`,
`RemoveArtifact`). A snapshot may omit live processes: `listed` is any subset of
them. Waits are the interleaving points between steps; a wait that polls
`should_stop` may or may not notice a revocation before it ends, so the decision is
in the step after it. The set of targets is a constant by role; signalling order
inside a stage is free, which includes the code's order. `Eligible` and
`RevivalStatus` stand for the analyzer's verdicts.

**OwnerMutations** models the five owner commands through both schemas. `db` is the
durable policy, `mem` the pause and the revision the control plane keeps,
`receipts` the receipt table. `CommitMutation` and `ReplayReceipt` are the two
outcomes of `commit_public_mutation` that touch anything; refusals stutter.
`CompatMutation` is schema v1, which increments the in-memory revision alone.
`CaptureRevision`, `ObserveIncident`, `BeginAttempt` are the part of a cycle that
captures, confirms and freezes. `stale` records whether the captured and the frozen
revision predate an owner mutation, `applications` how often each mutation changed
the state.

**ServiceTransaction** models the commands of `cli/service.rs`. `tx`, `plist`, `manifest`,
`backup`, `dirs` are the durable files of `ServiceLayout`; `db` is the history, reduced to
the newest build that wrote it, the generation of its lifecycle row and whether the
next boot would carry an enforce request; `job` is what launchd has loaded, `daemon` the
instance. A command is the sequence `cli.todo` of steps it still has to take: `Rollback`,
`Install`, `Accept` and the others list the steps in the code's order, `Begun` puts the
recovery of a found transaction before them, `OnFailure` is the error path. `Able` holds
the checks of each step; a step whose checks fail can only fail. Each step is one
durable write, one launchctl call, one lifecycle request or one wait, so a stop may fall
between any two writes. `cli.exact` says that the instance the command has read the status
of is still the one running. Steps are atomic: the copy that restores the database can
also stop half way, which the replayed rollback treats like a missing file. Every
install brings a newer build. The lifecycle row behind `carry` and `pending` is the one
of ManagedLifecycle (`CarryRequestedEnforce`, `PreservedRow`).

**Maintenance** models the two maintenance threads of `main.rs` with the activity leases
of `ipc.rs`. `lease` holds `storage_activity` and `cache_activity`; `sw` and `cw` are the
locals of the storage and the cache worker, `native` the uv supervisor and its child,
`rows`, `cacheRow` and `observed` what SQLite keeps, `linked`, `tree` and `bucket` the disk.
A worker step touches one shared thing; the check of the lease and the unlink after it
are two steps. A clone is a directory name, an inode and a number of files. Time is
counted in observation intervals; a cycle is shorter than one (see Observations).

**OwnerLease** is the abstract promise of the ownership registry: one lease and one
command per wrapper run. **Ownership** is the code behind it, for both lanes: `cli` is the
wrapper's control point in `cli/task.rs`, `child` the gated command, `ask` the handler of an
activation between its checks and its transaction, `kept`, `gen`, `activated`, `released` and
`bound` the rows of `tasks.rs` and `session_owners.rs`, `phase`, `todo` and `snap` the engine's
place in `release_absent_*_owners` and the binding that follows, `frozen` the context of
`analyzer_for`. `Lease == INSTANCE OwnerLease WITH ...` maps the command and the phase a
status request reports.

**Rules** is the analyzer as pure operators over a process table: the graph, the packs,
abandonment evidence, bindings, coverage. Text is abstracted to the facts the rules
read from it. **Reconciliation** is the engine's cycle over time: it takes two snapshots,
evaluates Rules on each, and keeps `cooling`, `blocks`, `protected`, `newest` and the `roster`,
up to the step that opens an attempt. It composes Rules with OwnerLease: the owner of a
session moves as OwnerLease allows, so what Ownership is proved to implement is what the
cycle relies on. `revision` holds the number in memory and the durable one, which a
command of the CLI (schema v1) and one of the App (public schema) move differently: `Commit`
says how, `PublicNoChange` what a refused or resent request still publishes. A running cycle
keeps the number it captured, and `PolicyStands` compares it, as
`begin_cleanup_attempt_if_armed` does. `streak`, `held`, `retried` and `clients` are history:
what was really seen without a break, what somebody was told stays untouched, when a retry
was granted, and whose commands moved the revision since the process started.

**HistoryFile** is the file under all the others: `HistoryStore::open` one file system call
at a time. `at` says which history the database and each sidecar at the path belong to,
`state` what is in it, `vault` the quarantine directories, `recorded` the recovery rows,
`handle` the open connection. A replacement may come alone or beside the sidecars of the
old database; `past` remembers the writes that went astray and which databases somebody
put beside foreign sidecars (`mixed`).

ManagedLifecycle, ProcessCleanup and OwnerMutations meet at the signal gate:
`SignalGateMatches` in the first, `GateMatches` in the second, `GateOpenForPlan` in the
third are the same test of `deliver_signal_if_armed`, split into what each module can
say about it. In ProcessCleanup the policy revision is the adversarial Boolean
`policyMoved`, which may also return to its old value, as OwnerMutations shows it can;
Reconciliation counts the two numbers itself, because what a cycle in flight may still
dispatch depends on when exactly they meet.

## Runs

| run | instance | shows |
|---|---|---|
| `lifecycle` | 2 generations, 3 boots, 3 epochs, writes may fail | the gate is backed by the row; failure and drain are terminal; a request is the operator's; the first scan is signal-free; an unresolved attempt closes the gate; every boot settles |
| `lifecycle_lost_write` | 1 generation, 2 boots, 2 epochs, writes may fail | **violated**: after a failure whose write is lost, the gate opens without a new Arm (finding 1) |
| `cleanup` | a controller with a member, 2 epochs, a store that may fail; a browser root with an artifact | the safety of one attempt in a moving world, a revoked plan is inert, the journal covers every effect; on a store that accepts writes every attempt reaches a terminal state |
| `mutations` | one id, 3 namespaces, 2 receipts, both schemas, resends | at most once, truthful lookups; while only the App acts, mutations kill older plans and a pause stops signals |
| `mutations_mixed` | both schemas, no resends | **violated**: a plan older than a mutation passes the gate again (finding 2) |
| `service` | 3 installs, 3 faults, any stop | the loaded build can open the history, rollback stays possible until the decision, the selection agrees, acceptance is final; unless an enforce request is left behind, nothing enforces against the manifest and rollbacks end |
| `service_cut` | 2 installs, 2 faults | **violated**: a stop after the backup was published blocks the rollback (finding 3) |
| `service_replay` | 2 installs, 1 fault, fair | **violated**: the restored prior daemon arms itself and the rollback repeats for ever (finding 4) |
| `maintenance` | seven machines: clones, uv, Node or both, up to 3 intervals, 2 boots, 2 operator turns, 1 fault, for Node 2 | one owner and one open attempt, at most one late removal, honest verdicts, closed after an unknown Node fate (before the lease is free or, unrecorded, by the time the worker is collected), only aged clones removed, every lease released |
| `ownership` | two generations of one session, or one task; one controller, one clock step | implements OwnerLease; released evidence is sound; orphaned leases end |
| `reconciliation` | ten machines: scenes of processes with partial tables, clock steps, restart, disarm; protect, retry, pause and refused requests by the App, the CLI or both | grace is earned; a failed incident waits for the operator; for one client a retry starts over and a protected incident stays untouched; a clear roster is true; led sessions only without their owner |
| `history` | 4 database files, 2 crashes, 2 mishaps, a clock of 2 values | one history with its own sidecars unless somebody mixed them; what a quarantine holds is neither overwritten nor joined by another history |

Why the bounds are enough to be interesting. Three boots over two generations allow a
failure or a preserved shutdown, its replacement in the same generation and one in
another; three epochs allow an epoch to be revoked and minted again under a running
cycle. A controller and a member exercise the three signalling stages, `term_attempted`
and a survivor of each; two epochs allow revocation and re-arming under one plan. A
receipt limit of two and three namespaces allow a full table, a rotation and a resend
against each of an earlier and a current namespace. Three installs allow a generation
that was accepted over another one to be the prior of a third, and the numbering to
restart after an uninstall; three faults allow a failure whose rollback is interrupted
and interrupted again. Maintenance, ProcessCleanup and Reconciliation are explored as a
set of machines, one initial state each, because the cases that matter do not need
everything at once: two clones for a name that is reused, one clone over three intervals
for the two-observation gate, two boots for recovery, uv and Node apart because a cycle
runs one family at a time, two faults for a Node removal whose fate is unknown and that
then cannot be recorded, or whose worker then panics, both workers together for the
shared lease. In Ownership two session runs make two generations of one name, and one
clock step separates births from releases; a task name is random and never shared, so
one task suffices. In Reconciliation the grace is two looks and the gap one, so that
continuity, a gap and a restart of the count all fall within four looks; each
exceptional event happens where it matters, at most three times. Two machines let both
clients act, with a Pause or a refused request beside Protect and Retry, which is enough
for the two revisions to part and to meet again under a running cycle; the others have
one client or none. Two crashes and two mishaps of HistoryFile allow a start that is cut
short in a quarantine, another that meets what it left, and a second corruption. Every
bound is a named constant; where a bound stops the daemon modules there is nothing left
to do, so the configurations of lifecycle, cleanup and maintenance disable the deadlock
check: the real daemon may also stop, by draining or by exiting. The other runs check
deadlock.

`unclaimed` in ServiceTransaction is history: a job was unloaded while it, or the row of
its last instance, held the enforce request, and no offline clear has removed it from
the history and from the backup since.
It happens when launchd is found between two KeepAlive attempts, or IPC silent, so that
there is nobody to Disarm. `EnforceIsDesired` and `RollbackConverges` except exactly that
state; `service_replay` (finding 4) is what happens in it.

Every property of a passing run has a mutant of the mapped code that breaks it;
the mutants stand in the modules before the definition they change.

## Fairness

`ManagedLifecycle!FairSpec` asks weak fairness of the steps of `run()` (boot,
beginning and ending a cycle, leaving the loop): straight-line code of the main
thread, with bounded waits. It asks nothing of the operator, of launchd or of
faults. `ProcessCleanup!FairSpec` asks weak fairness of the worker and of the engine
thread that joins it, and of `Restart`, because the launchd plist written by
`service.rs` sets KeepAlive. Settlement is stated for a store that accepts writes:
a store that never does keeps an attempt open, which is what fail-close and
recovery are for. `ServiceTransaction!LiveSpec` asks that the operator goes on giving
commands and a running command goes on (its waits have deadlines), that launchd starts
a loaded job (KeepAlive) and that the first scan ends; faults are bounded by
`MaxFaults`, and a wait for an instance that is still starting times out only as a
fault. `Maintenance!FairSpec` asks weak fairness of the two worker threads and the
supervisor's poll loop, whose waits all have deadlines. `Ownership!FairSpec` asks weak
fairness of the engine's steps and of a running request handler, and strong fairness of
judging an absent owner: a lookup may fail any number of times but not for ever.
Nothing is asked of wrappers, commands or operators.

## Proofs

`ManagedLifecycleProofs` proves the type invariant and all five safety invariants of
`lifecycle`, and `FailureClearsIntent` under `~StoreMayFail` (the assumption
`lifecycle_lost_write` drops), for all bounds. None of them is inductive: the gate
depends on the memory record agreeing with the row as long as the instance has not
failed, and on where the process stands. `LifecycleInvariant` proves one strengthening,
a conjunction of named parts: both records satisfy the CHECK constraint of the table;
while the process is up and has not failed, `mem` equals `row` up to the phase
projection; the instance counter bounds every instance id; a request implies the
operator's intent; an epoch exists only after the first scan; an unresolved attempt
implies a closed row or a worker that owes its fail-close. Each theorem then follows by
expanding one part.

`OwnerMutationsProofs` proves two groups. `ReceiptInv` (types, namespaces never
exceed the current one, and a ledger: in the current namespace a mutation was
applied exactly as often as a retained applied receipt says) gives `AtMostOnce` and
`LookupIsConclusive` for every client mix. `RevisionInv` (as long as no schema-v1 client
acted and nobody resent, the memory revision equals the durable one, which never
decreases, so a captured or frozen revision is at most it, and strictly below it when
stale) gives `AppPlanStaysDead` and `AppPauseStops`. The condition is exactly what the
violated run drops.

`OwnershipProofs` proves `Spec => LeaseRefinement`: every step of the code maps to a step
of OwnerLease or a stutter, for any number of runs, controllers, restarts and any
clock. The mapping is not inductive by itself: that a grant finds a living or dead but
never an unborn command, that the gate opens under an active lease and that a judged
owner is gone rest on `LeaseInv`, which says how far the wrapper, the command, the
handler and the row of one run can be apart. It has three parts per run: a row follows
its wrapper, nobody names a command before it is born, and a granted wrapper's waiting
command keeps its lease. The last one is where the guard of `release_*` matters: the
engine may hold a scope it read before the activation.

`HistoryFileProofs` proves `HistoryIsOwn` and `HistoryIsKept`. `OwnInv` says that a database
at the path, and the open one, have only their own sidecars beside them, that a start
which is about to create a database found nothing there, and that a write goes astray
only if a mishap came between its check and it. Databases in `mixed` are excepted: nothing
in the code tells whose sidecars it finds. `KeptInv` follows the quarantine under
way: its directory is new, whatever it holds has left the path, and what is still at
the path belongs to the same history, so no rename replaces a file and no directory
mixes two histories that were not mixed at the path.

`ProcessCleanupProofs` proves the four invariants of `cleanup`, its two action
properties and `LateArtifactUntouched` (no file but the one frozen with the plan is
removed), for any set of targets and any number of epochs and restarts. `CleanupInv` is
their common strengthening: where the worker stands and that the attempt it works for is
open (`ControlInv`); which signals went out, under which row, and that a stage signals
nobody twice (`SignalInv`); that the artifact at hand is the frozen one (`ArtifactInv`);
that a lost epoch never comes back (`AuthorityInv`); and that what a step acts on was
read by that step (`EvidenceInv`); with `KillAfterTerm` and `JournalCoversEffects` as
conjuncts, because each is needed to carry the others across a crash. The effect lemmas
say once what a step does to `frame`; each conjunct is then shown to survive every
action that touches it.

`MaintenanceProofs` proves the five invariants of `maintenance` and `RemovedOnlyAged`, for
any number of clones, files, attempts, epochs, intervals, restarts and faults.
`MaintenanceInv` has a part per reason: which thread is where (`ThreadInv`), who holds the
lease (`LeaseInv`), that a revoked lease is cancelled so no second check passes
(`LateInv`), that numbers are taken once (`TokenInv`), how plans, rows and the disk agree
(`CloneInv`, `CacheInv`, `NativeInv`), a clone's age (`AgeInv`) and a lost Node file
(`UnknownInv`). `NodeUnknownCloses` speaks of every failed `unlinkat`, whether its fate is
recorded or not. `UnknownInv` follows the worker from there: it holds the lease until the
settlement; a settlement that is written leads to `fail_closed` before the release; one that
fails, or a panic, frees the lease first, and until `EndInError` or `collect()` closes the daemon
the property claims only that the row is still open. So the window that the code has is
stated, not assumed away, and it ends with the worker. The proof
fails if the cache worker may panic between settling an unknown removal and `fail_closed`:
in `main.rs` the thread only reads the clock there, and a panic under the status lock
poisons it for every gate, so the model's `PanicCache` excludes that step; the crash in the
same place is the one under Observations.

`OwnershipProofs` also proves `ReleasedEvidenceIsSound`. `EvidenceInv` rests on
`NewestLeads`: an unreleased generation is the newest of its session, so while a released
one counts as evidence no command of that session runs. The next generation is a
maximum over the rows; that it exists needs no induction over the rows but only that
generations are bounded by a natural number and that every nonempty set of naturals
has a least element (`LeastNatural`, from the library's well-foundedness of the
naturals).

`ReconciliationProofs` proves `GraceEarned`, `RetryStartsOver` and `ClearIsHonest`, for
every table, scene, grace, gap, clock and set of packs. The difficulty of the first is
that the rows of `cooling_candidates` outlive the cycle, the epoch and the process that
wrote them, while the promise is about what was seen. `ReconciliationInv` says which
rows still count: those of an epoch under which something may be dispatched, now or by
the running look (`Counts`). Each of them is either too old to be continued or backed by
a streak of observation of the same processes under the same epoch that is at least as
old (`RowInv`), epochs are used once (`EpochInv`), a set of processes has one streak
(`StreakInv`), so a confirmed report of a judged cycle has its grace behind it
(`GraceInv`), whatever the operator said since. `RetryStartsOver` needs the revisions
(`RetryInv`): while one client acts and resends nothing, every command makes the number
in memory grow, so a cycle that captured it before a retry no longer passes
`PolicyStands`, and a cycle that captured it later finds no cooling row of that incident
older than the retry. `ClearIsHonest` follows a table from the snapshot to the roster: a
complete snapshot is the machine's table (`SightHonest`), the looks leave no candidate
out (`ReportsHonest`), protecting a report keeps it in the roster (`RosterInv`). All
three rest on the packs having distinct ids, which `RuleSet::embedded` enforces
(`unlinger-rules/src/lib.rs:510`): reports are matched by a key that holds the pack's
id.

`ServiceTransactionProofs` proves the four invariants of `service` and `AcceptedIsFinal`, for
any number of installs and faults. The state of a command is the sequence `cli.todo` of the
steps it has left, and what a step may rely on is what the steps before it did. Following
every suffix of every command one by one would be a proof per suffix. `Ordered` replaces
the suffixes by an order: ranked steps stand in increasing rank, and the few that skip
others (`disarm`, `restart_prior`, a containment) are followed by what they mean to skip. Each
program has it (the `...Program` lemmas), so have the concatenations of `Begun` and `OnFailure`
(`SettledThenProgram`, `ContainmentFirst`), and a tail keeps it. From then on the proof only
speaks of the set `Todo`: taking a step means that it has left `Todo` and that nothing of
lower rank is in it. `ServiceInv` has a part per thing that `Todo` must agree with. `CloseInv`:
what is left of a program includes its later steps. `PhaseInv`: the phase in the
transaction file is the one of the last step that wrote it, and an accepted transaction
leaves only its retirement to do, from which `AcceptedIsFinal` follows. `PlaceInv` and
`RuntimeInv`: the service is unloaded between the step that stops it and the one that
starts it, and a running daemon is the one of the loaded job. `TxInv`: the directories,
selections and the backup that `RollbackValid` checks exist at every cut (`RollbackStaysPossible`,
`SettledSelection`). `OpenInv`: neither the history nor the backup was written by a newer
build than the one selected over it (`LoadedCanOpenHistory`). `RequestInv`: where an enforce
request can be, in the daemon, its row and the backup (`EnforceIsDesired`). One lemma per
action shows that it keeps the parts. The order also shows that `OnFailure` is well defined: its
guards overlap as written, but no command that is ordered is in an install and
in a containment at once.

Assumptions are the named `ASSUME`s of the modules: bounds are naturals, flags are
Booleans, lanes are lanes, packs have distinct ids, and a maintenance instance has at
least one interval and one boot. Each is evaluated by TLC on the run of its module.

Only model-checked, and why:

* the liveness properties (`RollbackConverges` of ServiceTransaction among them):
  fairness is out of the prover's reach;
* `HeldStaysUntouched` and `LedOnlyWithoutOwner` of Reconciliation are not true of every value
  of the constants: an identity is a pid and a birth, and with arbitrary tables and a
  wall clock that steps back an identity may come back after its absence was proved, or
  an owner's entry may carry the birth of another process. The machines of the run
  have the identities real tables have;
* what the operators of Rules compute, beyond the facts that ReconciliationProofs needs
  (one report per key, no candidate left out, a confirmed report was a cooling one whose
  grace had elapsed).

## Findings

1. `fail_closed` (`daemon/ipc.rs:1035`) closes memory even if its SQLite write
   fails. The row then still says ready_enforce, and `begin_managed_boot`
   (`daemon/store.rs:1258`) carries the request into a same-generation replacement,
   which arms itself after its first scan. `docs/SAFETY.md:43` says managed failure
   clears that intent. The replacement does pass recovery, blockers and a
   signal-free scan first.
2. `commit_public_mutation` (`daemon/ipc.rs:813`) stores the durable revision into
   the in-memory one, which schema-v1 commands have advanced on their own. After a
   CLI command memory is ahead; a cycle captures that revision; an App command commits
   and publishes the same number; the old plan passes the gate. App Protect and Retry are
   affected like Resume: `begin_cleanup_attempt` (`daemon/store.rs:1666`) reads the retry
   blocks again but not `incident_protections`, so a cycle in flight may open an attempt on
   an incident that was protected a moment ago, or on a report confirmed before the retry.
   `HeldStaysUntouched` and `RetryStartsOver` therefore except, for exactly these two cases,
   a process that was commanded by both clients, or was sent an old request again
   (`OneClient`): the answer to a resent request publishes the revision of its first receipt.
   `docs/ARCHITECTURE.md:72` says every signal needs the frozen revision, and that Pause
   followed by Resume cannot revive the old plan.
3. `install` publishes the database backup by a rename (`cli/service.rs:2991`) and
   records it in the transaction afterwards (`cli/service.rs:490`). A stop in between
   leaves a backup no transaction vouches for, and
   `validate_committed_rollback_backup` (`cli/service.rs:2488`) refuses the rollback on
   every later command. `docs/INSTALLED_DOGFOOD.md:112` says a crash before durable
   `accepted` restores the prior generation.
4. A job that launchd shows without a pid is booted out without Disarm
   (`cli/service.rs:425`), so the row of an instance that died enforcing keeps its
   request, and the backup is taken with it. Each attempt of the rollback restores it,
   the prior daemon arms itself beside a report-only manifest, the wait for report-only
   fails, and every command begins by repeating the rollback. The comment at
   `cli/service.rs:2414` says the replay converges, `docs/INSTALLED_DOGFOOD.md:93` that
   the restored daemon remains unarmed.

## Observations

Behaviour the models show that no run states as a violation:

* The rollback of an install that failed before its backup does not touch the history. If it
  is interrupted, the replay finds `rollback_in_progress`, which
  `candidate_database_may_have_changed` (`cli/service.rs:238`) counts among the phases in which
  the candidate may have run, so `mark_rollback_in_progress` (`cli/service.rs:2478`) now asks for
  a restore; without a backup `preserve_failed_database` moves the history aside and
  the prior generation starts on an empty one. The files are kept, and the model takes
  these steps; `docs/IPC.md:259` promises the exact prior database.
* The two-observation gate of the clone cleanup measures from the time the main loop
  took before it started the worker (`daemon/main.rs:198`), not from the scan. A cycle
  that outlasts the interval makes the next one due at once, and it may remove a clone
  that was first seen at the end of the slow one. `RemovedOnlyAged` therefore assumes
  cycles shorter than the interval.
* A clone without its bundle makes every later storage scan unavailable; this is
  documented, and the model keeps it.
* `tool_cache.rs` reports exit status 7 of the supervisor as an unknown delivery.
* A crash between settling an unknown Node removal and `fail_closed`
  (`daemon/main.rs:652`) is not closed again at the next boot: the row is settled then.
* If the settlement of an unknown Node removal cannot be written, the `?` at
  `daemon/main.rs:651` goes past `fail_closed`, `activity.finish()` (`daemon/main.rs:662`) frees
  the lease, and the daemon is closed only at the end of the worker (`daemon/main.rs:310`), or
  after a panic by `collect` (`daemon/main.rs:345`). A storage attempt may begin in between;
  a Node attempt may not, because the row is open.
* `GraceEarned` is about the last look of each cycle. A process that looked different
  between two cycles and the same at both is not noticed, which no sampling can avoid.
* After the wall clock stepped back, Protect may take the members of an older
  observation of the incident; the machines of `reconciliation` do not combine a clock
  step with Protect.
* The analyzer's context is frozen per cycle; a generation declared after the freeze is
  seen by the next cycle (`daemon/store/session_owners.rs:376`). `ReleasedEvidenceIsSound`
  covers the window.
* Pruning a session lease looks only at the selector of the observed controllers.
* `validate_existing_store_components` (`daemon/store.rs:3734`) accepts any regular sidecar of
  the user. A database that somebody puts beside the sidecars of another one is opened
  with them, and a quarantine then moves them together.
* A crash between the rename of the database and those of its sidecars leaves sidecars
  without a database, which every later start refuses until somebody removes them.
* A crash between the quarantine and the recovery row leaves a quarantine directory
  that no history mentions.

## Left out of the modules

ProcessCleanup: peak memory and impact accounting. Ownership: the text of capabilities,
versions and user ids, which are exact matches. Reconciliation: the effect of Pause and
Resume beyond moving the revision (OwnerMutations has it), reboot (it ends every
process), and the conditions of Arm beyond health (ManagedLifecycle has them), so that
its operator may do more than the real one. Maintenance: the walk over a directory tree,
discovery of the uv and Node executables. HistoryFile: the SQL text of the schema and
its required columns; an I/O error ends a start like a crash. Windows in milliseconds
are rounded the way the code rounds them, to the model's clock.

## Plan

Modelled: 1 ManagedLifecycle, 2 ProcessCleanup, 3 OwnerMutations, 4 ServiceTransaction,
5 Maintenance (activity leases, storage residue, tool and Node caches), 6 OwnerLease and
Ownership, 7 Rules and Reconciliation (cooling, retention, roster), 8 HistoryFile. Left:

* the App journal composed with OwnerMutations: an abstract exactly-once mutation that
  both implement together;
* a reference definition of abandonment for Rules over enumerated small tables.

Every safety invariant and action property a passing run checks has its theorem, except
the two of Reconciliation under "Only model-checked".

## Not modelled

The App's user interface and copy, the encoding of the protocols, SQL text, macOS
system-call adapters beyond their outcomes, the scheduler (it decides when a cycle
begins, and every module lets one begin at any time), the history's spans, totals and
impact figures, which no decision reads. They keep no state that the components above
do not hold, or none that a decision rests on.
