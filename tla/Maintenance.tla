----------------------------- MODULE Maintenance -----------------------------
(***************************************************************************)
(* The maintenance workers of unlingerd beside the lifecycle: the exact    *)
(* activity leases of ControlPlane (ipc.rs), the storage worker that       *)
(* removes Chrome code-sign clones (main.rs, storage_residue.rs), the cache *)
(* worker with its uv supervisor (tool_cache.rs) and its Node files         *)
(* (node_compile_cache.rs), and the durable attempt rows of both.           *)
(*                                                                         *)
(* A worker step touches one shared thing: the status mutex, SQLite, the    *)
(* file system or the child.  The check of a lease and the removal that     *)
(* follows it are two steps.  Time is counted in observation intervals.     *)
(***************************************************************************)
EXTENDS Naturals, FiniteSets

CONSTANTS
    Machines,      \* the machines: their cache families, the clones Chrome makes, and
                   \* how many intervals, turns, daemon processes and faults they see
    Names,         \* directory names under the clone root
    MaxInodes,     \* clone directories ever created on any machine
    MaxFiles,      \* files of a clone, and of the Node bucket
    MaxTokens,     \* attempts
    MaxEpochs,     \* enforcement epochs
    MaxTicks,      \* observation intervals
    Week,          \* the maintenance interval of a cache, in observation intervals
    MaxBoots,      \* daemon processes
    MaxTurns,      \* Pause, Resume, Disarm, BeginDrain and turns of the engine
    MaxFaults      \* failing writes, failing calls and panics

ASSUME BoundsAreNaturals ==
    /\ MaxInodes \in Nat /\ MaxFiles \in Nat \ {0} /\ MaxTokens \in Nat
    /\ MaxEpochs \in Nat /\ MaxTicks \in Nat \ {0} /\ Week \in Nat
    /\ MaxBoots \in Nat \ {0} /\ MaxTurns \in Nat /\ MaxFaults \in Nat

ASSUME MachinesAreSound ==
    /\ Machines \subseteq [families : SUBSET {"uv", "node"}, clones : 0..MaxInodes,
                            ticks : 0..MaxTicks, turns : 0..MaxTurns, boots : 0..MaxBoots,
                            faults : 0..MaxFaults]

VARIABLES
    machine,   \* what this machine has
    now,       \* observation intervals since the beginning
    status,    \* the fields of DaemonStatus that the gate reads
    lease,     \* storage_activity and cache_activity
    counters,  \* tokens, epochs, inodes, boots, turns, faults so far
    rows,      \* storage_cleanup_attempts: token -> disposition
    cacheRow,  \* tool_cache_latest and node_compile_cache_latest
    observed,  \* observed_at of storage_residue_latest, 0 if none
    sw,        \* storage worker and StorageWorker
    cw,        \* cache worker and CacheWorker
    native,    \* the uv supervisor and its child
    linked,    \* clone root: name -> inode, 0 if absent
    tree,      \* inode -> files left in it
    bucket,    \* files of the frozen Node plan that are left
    history    \* what really happened

durable == <<rows, cacheRow, observed>>
disk == <<linked, tree, bucket>>
vars == <<machine, now, status, lease, counters, durable, sw, cw, native, disk, history>>

Inodes == 1..MaxInodes
Tokens == 1..MaxTokens
Kinds == {"storage", "cache"}
Families == {"uv", "node"}

NoLease == [token |-> 0, epoch |-> 0, cancel |-> FALSE]
NoRow == [token |-> 0, id |-> 0, outcome |-> "none", at |-> 0]
NoNative == [sup |-> "none", child |-> FALSE, parent |-> FALSE, result |-> "none", token |-> 0]

\* StorageWorker::default and CacheWorker::default.
IdleStorage == [pc |-> "idle", at |-> 0, token |-> 0, epoch |-> 0, plan |-> {}, todo |-> {},
                inode |-> 0, ok |-> FALSE, verdict |-> "none",
                previous |-> {}, last |-> 0]
IdleCache == [pc |-> "idle", at |-> 0, family |-> "uv", token |-> 0, epoch |-> 0,
              outcome |-> "none", settled |-> FALSE, last |-> 0]

StoragePcs == {"idle", "recover", "scan", "prepare", "check", "unlink", "rmdir",
               "rescan", "settle", "record", "release", "done", "panicked"}
CachePcs == {"idle", "discover", "prepare", "wait", "reap", "recheck", "check", "unlink",
             "settle", "close", "release", "error", "done", "failed"}
Dispositions == {"none", "prepared", "complete", "partial", "failed", "unknown"}
Outcomes == {"none", "running", "completed", "busy", "failed", "unknown"}

\* DaemonStatus, the two leases, and the state of the workers.
Statuses == [epoch : 0..MaxEpochs, paused : BOOLEAN, engine : BOOLEAN, failed : BOOLEAN,
             draining : BOOLEAN, up : BOOLEAN]
Leases == [token : 0..MaxTokens, epoch : 0..MaxEpochs, cancel : BOOLEAN]
Counts == [tokens : 0..MaxTokens, epochs : 0..MaxEpochs, inodes : 0..MaxInodes,
           boots : 0..MaxBoots, turns : 0..MaxTurns, faults : 0..MaxFaults]
CacheRows == [token : 0..MaxTokens, id : 0..MaxTokens, outcome : Outcomes, at : 0..MaxTicks]
StorageWorkers == [pc : StoragePcs, at : 0..MaxTicks, token : 0..MaxTokens,
                   epoch : 0..MaxEpochs, plan : SUBSET Inodes, todo : SUBSET Inodes,
                   inode : 0..MaxInodes, ok : BOOLEAN, verdict : Dispositions,
                   previous : SUBSET Inodes, last : 0..MaxTicks]
CacheWorkers == [pc : CachePcs, at : 0..MaxTicks, family : Families, token : 0..MaxTokens,
                 epoch : 0..MaxEpochs, outcome : Outcomes, settled : BOOLEAN,
                 last : 0..MaxTicks]
Natives == [sup : {"none", "preflight", "run", "exited", "killed"}, child : BOOLEAN,
            parent : BOOLEAN, result : Outcomes, token : 0..MaxTokens]
Histories == [revoked : BOOLEAN, late : Nat, touched : SUBSET Tokens,
              planned : [Tokens -> SUBSET Inodes], since : [Inodes -> 0..MaxTicks],
              unknown : BOOLEAN]

TypeOK ==
    /\ machine \in Machines /\ now \in 0..MaxTicks
    /\ status \in Statuses /\ lease \in [Kinds -> Leases] /\ counters \in Counts
    /\ rows \in [Tokens -> Dispositions] /\ cacheRow \in [Families -> CacheRows]
    /\ observed \in 0..MaxTicks
    /\ sw \in StorageWorkers /\ cw \in CacheWorkers /\ native \in Natives
    /\ linked \in [Names -> 0..MaxInodes] /\ tree \in [Inodes -> 0..MaxFiles]
    /\ bucket \in 0..MaxFiles /\ history \in Histories

Init ==
    /\ machine \in Machines /\ now = 1
    /\ status = [epoch |-> 0, paused |-> FALSE, engine |-> FALSE, failed |-> FALSE,
                 draining |-> FALSE, up |-> TRUE]
    /\ lease = [k \in Kinds |-> NoLease]
    /\ counters = [tokens |-> 0, epochs |-> 0, inodes |-> 0, boots |-> 1, turns |-> 0, faults |-> 0]
    /\ rows = [t \in Tokens |-> "none"] /\ cacheRow = [f \in Families |-> NoRow] /\ observed = 0
    /\ sw = IdleStorage /\ cw = IdleCache /\ native = NoNative
    /\ linked = [n \in Names |-> 0] /\ tree = [i \in Inodes |-> MaxFiles] /\ bucket = MaxFiles
    /\ history = [revoked |-> FALSE, late |-> 0, touched |-> {}, planned |-> [t \in Tokens |-> {}],
                  since |-> [i \in Inodes |-> 0], unknown |-> FALSE]

-----------------------------------------------------------------------------
(***************************************************************************)
(* The gate and the leases (ipc.rs).                                       *)
(***************************************************************************)

\* cleanup_in_progress without the process cleanup, which is part of status.engine.
MaintenanceInProgress == \E k \in Kinds : lease[k] # NoLease

LifecycleOpen == status.epoch # 0 /\ ~status.paused /\ ~status.draining /\ ~status.failed

(* Mutant: the gate does not ask for the other maintenance lease. *)
GateOpenForAll == LifecycleOpen /\ ~status.engine

\* storage_cleanup_gate_open. status.engine: scan_in_progress or a process cleanup.
GateOpen == LifecycleOpen /\ ~status.engine /\ ~MaintenanceInProgress

\* storage_action_may_continue and tool_cache_action_may_continue: the gate is
\* read without the lease itself, the process cleanup and the scan, so the other
\* maintenance lease still closes it.
MayContinue(k, token, epoch) ==
    /\ lease[k] = [token |-> token, epoch |-> epoch, cancel |-> FALSE]
    /\ LifecycleOpen /\ status.epoch = epoch
    /\ \A o \in Kinds \ {k} : lease[o] = NoLease

(* Mutant: Disarm and Pause leave the storage owner alone. *)
CancelledCacheOnly(l) ==
    [k \in Kinds |-> IF l[k] = NoLease \/ k = "storage" THEN l[k] ELSE [l[k] EXCEPT !.cancel = TRUE]]

\* cancel_prompt_activities.
Cancelled(l) == [k \in Kinds |-> IF l[k] = NoLease THEN NoLease ELSE [l[k] EXCEPT !.cancel = TRUE]]

(* Mutant: the lease of a settled attempt is not released. *)
FinishedNever(k, token) == lease

\* finish_storage_action and finish_tool_cache_action: another owner is left alone.
Finished(k, token) == IF lease[k].token = token THEN [lease EXCEPT ![k] = NoLease] ELSE lease

Fault == counters.faults < machine.faults
NewFault == counters' = [counters EXCEPT !.faults = @ + 1]

\* Whether a call succeeds; one that does not is a fault.
Outcome(ok) == IF ok THEN UNCHANGED counters ELSE Fault /\ NewFault

\* One file is gone, removed by this attempt.
Effect(token) == [history EXCEPT !.touched = @ \cup {token},
                                 !.late = @ + (IF history.revoked THEN 1 ELSE 0)]

\* The authority of the attempt at work is withdrawn, for good.
Revoked == [history EXCEPT !.revoked = TRUE]

\* fail_closed, as the gate sees it.
FailClosed ==
    /\ status' = [status EXCEPT !.failed = TRUE, !.epoch = 0]
    /\ lease' = Cancelled(lease)
    /\ history' = Revoked

-----------------------------------------------------------------------------
(***************************************************************************)
(* The storage worker: StorageWorker, run_storage_cycle, reconcile.        *)
(***************************************************************************)

Ids == {linked[n] : n \in Names} \ {0}

\* scan_code_sign_clone_root: a clone that lost its bundle has an unexpected shape.
ShapeProved == \A i \in Ids : tree[i] > 0

(* Mutant: only a recorded observation consumes the cadence. *)
StorageDueByRow == observed < now

\* storage_residue_observation_due.
StorageDue == observed < now /\ sw.last < now

storageUnchanged == UNCHANGED <<machine, now, cw, native, bucket, cacheRow>>

\* The main loop: an observation attempt consumes its cadence before the cycle starts.
StartStorage ==
    /\ machine.clones > 0 /\ status.up /\ ~status.draining
    /\ sw.pc = "idle" /\ StorageDue
    /\ sw' = [IdleStorage EXCEPT !.pc = "recover", !.at = now, !.last = now, !.previous = sw.previous]
    /\ UNCHANGED <<status, lease, counters, rows, observed, linked, tree, history>> /\ storageUnchanged

(* Mutant: an attempt left PREPARED stays PREPARED. *)
FinalizedNone(r) == r

\* finalize_unknown_storage_cleanup_attempts.
Finalized(r) == [t \in Tokens |-> IF r[t] = "prepared" THEN "unknown" ELSE r[t]]

\* run_storage_residue_cycle: without a durable recovery the cycle is skipped.
RecoverStorage(ok) ==
    /\ sw.pc = "recover" /\ Outcome(ok)
    /\ IF ok THEN rows' = Finalized(rows) /\ sw' = [sw EXCEPT !.pc = "scan"]
             ELSE rows' = rows /\ sw' = [sw EXCEPT !.pc = "done"]
    /\ UNCHANGED <<status, lease, observed, linked, tree, history>> /\ storageUnchanged

\* apply_process_gates: the sets of candidates that a snapshot may prove
\* unreferenced, none when it is incomplete.
ClearedByGates == SUBSET Ids

\* The snapshot, storage_cleanup_state_at and the first half of
\* reconcile_root_guarded. clear: the unreferenced candidates.
ScanStorage(ok, clear) ==
    LET plan == Ids \cap sw.previous \cap clear
    IN  /\ sw.pc = "scan" /\ Outcome(ok)
        /\ IF ok /\ ShapeProved /\ Ids # {}
           THEN sw' = [sw EXCEPT !.previous = Ids, !.plan = plan, !.todo = plan,
                                 !.pc = IF plan # {} /\ GateOpen THEN "prepare" ELSE "record"]
           ELSE sw' = [sw EXCEPT !.previous = {}, !.pc = "record"]
        /\ UNCHANGED <<status, lease, rows, observed, linked, tree, history>> /\ storageUnchanged

\* start_storage_cleanup_if_ready_enforce and begin_storage_cleanup_attempt.
PrepareStorage(ok) ==
    LET t == counters.tokens + 1
    IN  /\ sw.pc = "prepare"
        /\ IF GateOpen /\ ok
           THEN /\ t <= MaxTokens /\ counters' = [counters EXCEPT !.tokens = t]
                /\ rows' = [Finalized(rows) EXCEPT ![t] = "prepared"]
                /\ lease' = [lease EXCEPT !["storage"] =
                               [token |-> t, epoch |-> status.epoch, cancel |-> FALSE]]
                /\ sw' = [sw EXCEPT !.pc = "check", !.token = t, !.epoch = status.epoch, !.ok = TRUE]
                /\ history' = [history EXCEPT !.planned[t] = sw.plan, !.late = 0, !.revoked = FALSE]
           ELSE /\ sw' = [sw EXCEPT !.pc = "record"]
                /\ IF GateOpen THEN Fault /\ NewFault ELSE UNCHANGED counters
                /\ UNCHANGED <<rows, lease, history>>
        /\ UNCHANGED <<status, observed, linked, tree>> /\ storageUnchanged

\* The remover stops with an error; what it removed stays removed.
RemovalFails == sw' = [sw EXCEPT !.pc = "rescan", !.ok = FALSE]

StorageMayContinue == MayContinue("storage", sw.token, sw.epoch)

\* should_cancel before a candidate and before an entry of its tree. An empty
\* directory has no entry to ask for.
CheckStorage ==
    /\ sw.pc = "check"
    /\ IF sw.inode # 0 /\ tree[sw.inode] = 0 THEN sw' = [sw EXCEPT !.pc = "rmdir"]
       ELSE IF ~StorageMayContinue THEN RemovalFails
       ELSE IF sw.inode # 0 THEN sw' = [sw EXCEPT !.pc = "unlink"]
       ELSE \E i \in sw.todo :
              IF i \in Ids THEN sw' = [sw EXCEPT !.inode = i] ELSE RemovalFails
    /\ UNCHANGED <<status, lease, counters, rows, observed, linked, tree, history>> /\ storageUnchanged

\* One unlinkat of remove_directory_contents; the bundle goes with its last file.
UnlinkFile(ok) ==
    LET i == sw.inode
    IN  /\ sw.pc = "unlink" /\ Outcome(ok)
        /\ IF ok /\ tree[i] > 0
           THEN /\ tree' = [tree EXCEPT ![i] = @ - 1]
                /\ sw' = [sw EXCEPT !.pc = "check"]
                /\ history' = Effect(sw.token)
           ELSE RemovalFails /\ UNCHANGED <<tree, history>>
        /\ UNCHANGED <<status, lease, rows, observed, linked>> /\ storageUnchanged

\* verify_linked_candidate and the final unlinkat of a candidate.
RemoveCandidate(ok) ==
    LET i == sw.inode
    IN  /\ sw.pc = "rmdir" /\ Outcome(ok)
        /\ IF ok /\ i \in Ids
           THEN /\ linked' = [n \in Names |-> IF linked[n] = i THEN 0 ELSE linked[n]]
                /\ sw' = [sw EXCEPT !.todo = @ \ {i}, !.inode = 0,
                                    !.pc = IF sw.todo = {i} THEN "rescan" ELSE "check"]
           ELSE RemovalFails /\ UNCHANGED linked
        /\ UNCHANGED <<status, lease, rows, observed, tree, history>> /\ storageUnchanged

(* Mutant: the rescan does not look for the planned candidates. *)
VerdictUnproved(proved) == IF Ids = {} THEN "complete" ELSE IF proved THEN "partial" ELSE "failed"

\* disposition of reconcile_root_guarded.
Verdict(proved) ==
    IF sw.ok /\ proved /\ sw.plan \cap Ids = {}
    THEN IF Ids = {} THEN "complete" ELSE "partial"
    ELSE "failed"

RescanStorage(ok) ==
    /\ sw.pc = "rescan" /\ Outcome(ok)
    /\ sw' = [sw EXCEPT !.pc = "settle", !.verdict = Verdict(ok /\ ShapeProved),
                        !.previous = IF ok /\ ShapeProved THEN Ids ELSE {}]
    /\ UNCHANGED <<status, lease, rows, observed, linked, tree, history>> /\ storageUnchanged

\* complete_storage_cleanup_attempt: the result and the observation commit together.
SettleStorage(ok) ==
    /\ sw.pc = "settle" /\ Outcome(ok)
    /\ sw' = [sw EXCEPT !.pc = "release"]
    /\ IF ok /\ rows[sw.token] = "prepared"
       THEN rows' = [rows EXCEPT ![sw.token] = sw.verdict] /\ observed' = sw.at
       ELSE UNCHANGED <<rows, observed>>
    /\ UNCHANGED <<status, lease, linked, tree, history>> /\ storageUnchanged

\* record_storage_residue_observation; this cycle has no lease to release.
RecordStorage(ok) ==
    /\ sw.pc = "record" /\ Outcome(ok)
    /\ sw' = [sw EXCEPT !.pc = "done"]
    /\ observed' = IF ok THEN sw.at ELSE observed
    /\ UNCHANGED <<status, lease, rows, linked, tree, history>> /\ storageUnchanged

ReleaseStorage ==
    /\ sw.pc = "release"
    /\ lease' = Finished("storage", sw.token)
    /\ sw' = [sw EXCEPT !.pc = "done"]
    /\ UNCHANGED <<status, counters, rows, observed, linked, tree, history>> /\ storageUnchanged

\* The worker unwinds; StorageActivityGuard::drop releases what it owns.
PanicStorage ==
    /\ sw.pc \notin {"idle", "done", "panicked"} /\ Fault /\ NewFault
    /\ lease' = IF sw.token = 0 THEN lease ELSE Finished("storage", sw.token)
    /\ sw' = [sw EXCEPT !.pc = "panicked"]
    /\ UNCHANGED <<status, rows, observed, linked, tree, history>> /\ storageUnchanged

\* StorageWorker::collect.
CollectStorage ==
    /\ sw.pc = "done" /\ ~status.draining
    /\ sw' = [IdleStorage EXCEPT !.previous = sw.previous, !.last = sw.last]
    /\ UNCHANGED <<status, lease, counters, rows, observed, linked, tree, history>> /\ storageUnchanged

CollectPanickedStorage(ok) ==
    /\ sw.pc = "panicked" /\ ~status.draining /\ Outcome(ok)
    /\ rows' = IF ok THEN Finalized(rows) ELSE rows
    /\ FailClosed
    /\ sw' = [IdleStorage EXCEPT !.last = sw.last]
    /\ UNCHANGED <<observed, linked, tree>> /\ storageUnchanged

StorageStep ==
    \/ StartStorage \/ CheckStorage \/ ReleaseStorage \/ CollectStorage
    \/ \E ok \in BOOLEAN :
          \/ RecoverStorage(ok) \/ PrepareStorage(ok) \/ UnlinkFile(ok) \/ RemoveCandidate(ok)
          \/ RescanStorage(ok) \/ SettleStorage(ok) \/ RecordStorage(ok)
          \/ CollectPanickedStorage(ok)
          \/ \E clear \in ClearedByGates : ScanStorage(ok, clear)

-----------------------------------------------------------------------------
(***************************************************************************)
(* The cache worker: CacheWorker, run_tool_cache_cycle, the uv supervisor, *)
(* run_node_compile_cache_cycle.                                           *)
(***************************************************************************)

cacheUnchanged == UNCHANGED <<machine, now, sw, rows, observed, linked, tree>>

StartCache ==
    /\ machine.families # {} /\ status.up /\ ~status.draining
    /\ cw.pc = "idle" /\ cw.last < now
    /\ cw' = [IdleCache EXCEPT !.pc = "discover", !.at = now, !.last = now]
    /\ UNCHANGED <<status, lease, counters, cacheRow, native, bucket, history>> /\ cacheUnchanged

\* The uv cycle is followed by the Node cycle, and that by the end of the thread.
NextFamily == IF cw.family = "uv"
              THEN [cw EXCEPT !.family = "node", !.pc = "discover", !.token = 0]
              ELSE [cw EXCEPT !.pc = "done"]

\* cache_maintenance_due.
CacheDue(row) ==
    \/ row.outcome = "none"
    \/ cw.at - row.at >= IF row.outcome = "busy" THEN 1 ELSE Week

\* UvCacheMaintenance::discover finds a producer and a cache of the fixed shape.
UvPresent == "uv" \in machine.families

\* NodeCompileCacheMaintenance::discover finds a producer and its bucket.
NodePresent == "node" \in machine.families

\* The head of a cycle: stopping, discover, the observation, the cadence.
DiscoverCache(ok) ==
    LET present == (IF cw.family = "uv" THEN UvPresent ELSE NodePresent) /\ ~status.draining
    IN  /\ cw.pc = "discover" /\ (ok \/ ~status.draining) /\ Outcome(ok)
        /\ cw' = IF ~ok THEN [cw EXCEPT !.pc = "error"]
                 ELSE IF present /\ CacheDue(cacheRow[cw.family])
                      THEN [cw EXCEPT !.pc = "prepare"] ELSE NextFamily
        /\ bucket' = IF ok /\ present /\ cw.family = "node" THEN MaxFiles ELSE bucket
        /\ UNCHANGED <<status, lease, cacheRow, native, history>> /\ cacheUnchanged

\* start_cache_if_ready_enforce around begin_tool_cache_attempt and
\* begin_node_compile_cache_attempt. started: the supervisor was spawned.
PrepareCache(ok, started) ==
    LET t == counters.tokens + 1
        f == cw.family
    IN  /\ cw.pc = "prepare"
        /\ IF ~GateOpen
           THEN cw' = NextFamily /\ UNCHANGED <<lease, counters, cacheRow, native, history>>
           ELSE IF cacheRow[f].token # 0 \/ ~ok
           THEN /\ cw' = [cw EXCEPT !.pc = "error"]
                /\ Outcome(cacheRow[f].token # 0)
                /\ UNCHANGED <<lease, cacheRow, native, history>>
           ELSE /\ t <= MaxTokens /\ (f = "node" => started) /\ (~started => Fault)
                /\ counters' = [counters EXCEPT !.tokens = t, !.faults = @ + IF started THEN 0 ELSE 1]
                /\ cacheRow' = [cacheRow EXCEPT ![f] = [token |-> t, id |-> t, outcome |-> "running",
                                                         at |-> cw.at]]
                /\ lease' = IF started
                            THEN [lease EXCEPT !["cache"] =
                                    [token |-> t, epoch |-> status.epoch, cancel |-> FALSE]]
                            ELSE lease
                /\ native' = IF f = "uv" /\ started
                             THEN [NoNative EXCEPT !.sup = "preflight", !.parent = TRUE, !.token = t]
                             ELSE native
                /\ cw' = [cw EXCEPT !.token = t, !.epoch = status.epoch, !.outcome = "failed",
                                    !.pc = IF ~started THEN "settle"
                                           ELSE IF f = "uv" THEN "wait" ELSE "recheck"]
                /\ history' = [history EXCEPT !.late = 0, !.revoked = FALSE]
        /\ UNCHANGED <<status, bucket>> /\ cacheUnchanged

CacheCancelled == status.draining \/ ~MayContinue("cache", cw.token, cw.epoch)

CacheResult(outcome) == [cw EXCEPT !.outcome = outcome, !.pc = "settle"]

\* RunningUvMaintenance::wait: the exit of the supervisor is seen first; a
\* cancellation or the deadline closes its stdin.
WaitUv ==
    /\ cw.pc = "wait"
    /\ IF native.sup = "exited"
       THEN cw' = CacheResult(native.result) /\ UNCHANGED native
       ELSE cw' = [cw EXCEPT !.pc = "reap"] /\ native' = [native EXCEPT !.parent = FALSE]
    /\ UNCHANGED <<status, lease, counters, cacheRow, bucket, history>> /\ cacheUnchanged

\* settle_and_reap: after the grace the supervisor is killed, its child is not.
ReapUv(grace) ==
    /\ cw.pc = "reap"
    /\ IF native.sup = "exited" THEN grace /\ UNCHANGED <<native, counters>>
       ELSE ~grace /\ Fault /\ NewFault /\ native' = [native EXCEPT !.sup = "killed"]
    /\ cw' = CacheResult("unknown")
    /\ UNCHANGED <<status, lease, cacheRow, bucket, history>> /\ cacheUnchanged

\* execute_uv_supervisor: a closed parent channel never reaches the native
\* spawn; exit 7 carries no result.
SupervisorPreflight(ok) ==
    /\ native.sup = "preflight" /\ Outcome(ok)
    /\ native' = IF ok /\ native.parent THEN [native EXCEPT !.sup = "run", !.child = TRUE]
                 ELSE [native EXCEPT !.sup = "exited", !.result = "unknown"]
    /\ UNCHANGED <<status, lease, cacheRow, bucket, history, cw>> /\ cacheUnchanged

\* uv passed its lock and removes an entry.
NativeRemoves ==
    /\ native.child /\ native.token \notin history.touched
    /\ history' = [history EXCEPT !.touched = @ \cup {native.token}]
    /\ UNCHANGED <<status, lease, counters, cacheRow, native, bucket, cw>> /\ cacheUnchanged

\* What execute_supervisor reads from the exit of uv: only a lock refusal without
\* the mark of a started mutation is busy, any other failure is unknown.
NativeResults ==
    {"completed", "unknown"} \cup (IF native.token \in history.touched THEN {} ELSE {"busy"})

NativeExits(result) ==
    /\ native.child /\ result \in NativeResults
    /\ native' = [native EXCEPT !.child = FALSE,
                    !.sup = IF @ = "run" THEN "exited" ELSE @,
                    !.result = IF native.sup = "run" THEN result ELSE @]
    /\ UNCHANGED <<status, lease, counters, cacheRow, bucket, history, cw>> /\ cacheUnchanged

\* The parent closed its end, or the deadline passed: OwnedChild::drop reaps uv.
SupervisorStops ==
    /\ native.sup = "run"
    /\ native' = [native EXCEPT !.sup = "exited", !.child = FALSE, !.result = "unknown"]
    /\ UNCHANGED <<status, lease, counters, cacheRow, bucket, history, cw>> /\ cacheUnchanged

\* The head of remove_files: same, the frozen plan still is what the bucket holds.
RecheckNode(same) ==
    /\ cw.pc = "recheck"
    /\ cw' = IF CacheCancelled THEN CacheResult("failed")
             ELSE IF same THEN [cw EXCEPT !.pc = "check"] ELSE CacheResult("busy")
    /\ UNCHANGED <<status, lease, counters, cacheRow, native, bucket, history>> /\ cacheUnchanged

\* One round of the loop of remove_files up to its unlinkat; bound, the
\* producer and the entry are the ones of the plan and the deadline is not over.
CheckNode(bound) ==
    /\ cw.pc = "check"
    /\ cw' = IF bucket = 0 THEN CacheResult("completed")
             ELSE IF CacheCancelled \/ ~bound THEN CacheResult("failed")
             ELSE [cw EXCEPT !.pc = "unlink"]
    /\ UNCHANGED <<status, lease, counters, cacheRow, native, bucket, history>> /\ cacheUnchanged

\* An unlinkat that fails leaves a file of unknown fate.
UnlinkNode(ok) ==
    /\ cw.pc = "unlink" /\ Outcome(ok)
    /\ IF ok THEN /\ bucket' = bucket - 1 /\ cw' = [cw EXCEPT !.pc = "check"]
                  /\ history' = Effect(cw.token)
             ELSE /\ cw' = CacheResult("unknown") /\ UNCHANGED bucket
                  /\ history' = [history EXCEPT !.unknown = TRUE]
    /\ UNCHANGED <<status, lease, cacheRow, native>> /\ cacheUnchanged

\* complete_tool_cache_attempt and complete_node_compile_cache_attempt; an error
\* goes past the fail_closed that follows a lost Node file.
SettleCache(ok) ==
    LET f == cw.family
        settled == ok /\ cacheRow[f].token = cw.token
        close == settled /\ f = "node" /\ cw.outcome = "unknown"
    IN  /\ cw.pc = "settle" /\ Outcome(ok)
        /\ cacheRow' = IF settled THEN [cacheRow EXCEPT ![f].token = 0, ![f].outcome = cw.outcome]
                       ELSE cacheRow
        /\ cw' = [cw EXCEPT !.settled = settled, !.pc = IF close THEN "close" ELSE "release"]
        /\ UNCHANGED <<status, lease, native, bucket, history>> /\ cacheUnchanged

(* Mutant: the lease is free before the daemon is closed. *)
CloseAfterNodeLate ==
    /\ cw.pc = "close"
    /\ lease' = Finished("cache", cw.token)
    /\ cw' = [cw EXCEPT !.pc = "error"]
    /\ UNCHANGED <<status, counters, cacheRow, native, bucket, history>> /\ cacheUnchanged

\* A Node file that may or may not be gone closes the daemon before the lease is free.
CloseAfterNode ==
    /\ cw.pc = "close" /\ FailClosed
    /\ cw' = [cw EXCEPT !.pc = "release"]
    /\ UNCHANGED <<counters, cacheRow, native, bucket>> /\ cacheUnchanged

ReleaseCache ==
    /\ cw.pc = "release"
    /\ lease' = Finished("cache", cw.token)
    /\ cw' = IF cw.settled THEN NextFamily ELSE [cw EXCEPT !.pc = "error"]
    /\ UNCHANGED <<status, counters, cacheRow, native, bucket, history>> /\ cacheUnchanged

\* The thread ends with an error: fail_closed, and FALSE for collect.
EndInError ==
    /\ cw.pc = "error" /\ FailClosed
    /\ cw' = [cw EXCEPT !.pc = "failed"]
    /\ UNCHANGED <<counters, cacheRow, native, bucket>> /\ cacheUnchanged

\* The worker unwinds; CacheActivityGuard::drop releases what it owns. Between the
\* settlement of a lost Node file and the status lock of fail_closed the thread only
\* reads the clock again, and a panic under that lock poisons it for every gate.
PanicCache ==
    /\ cw.pc \notin {"idle", "done", "failed", "wait", "reap", "close"} /\ Fault /\ NewFault
    /\ lease' = IF cw.token = 0 THEN lease ELSE Finished("cache", cw.token)
    /\ cw' = [cw EXCEPT !.pc = "failed"]
    /\ UNCHANGED <<status, cacheRow, native, bucket, history>> /\ cacheUnchanged

\* recover_tool_cache_attempt and recover_node_compile_cache_attempt.
RecoveredRow(row) == IF row.token = 0 THEN row ELSE [row EXCEPT !.token = 0, !.outcome = "unknown"]

\* CacheWorker::collect.
CollectCache ==
    /\ cw.pc = "done" /\ ~status.draining
    /\ cw' = [IdleCache EXCEPT !.last = cw.last]
    /\ UNCHANGED <<status, lease, counters, cacheRow, native, bucket, history>> /\ cacheUnchanged

CollectFailedCache(ok) ==
    /\ cw.pc = "failed" /\ ~status.draining /\ Outcome(ok)
    /\ cacheRow' = IF ok THEN [f \in Families |-> RecoveredRow(cacheRow[f])] ELSE cacheRow
    /\ FailClosed
    /\ cw' = [IdleCache EXCEPT !.last = cw.last]
    /\ UNCHANGED <<native, bucket>> /\ cacheUnchanged

CacheStep ==
    \/ StartCache \/ WaitUv \/ CloseAfterNode \/ ReleaseCache \/ EndInError \/ CollectCache
    \/ \E ok \in BOOLEAN :
          \/ DiscoverCache(ok) \/ ReapUv(ok) \/ RecheckNode(ok) \/ CheckNode(ok)
          \/ UnlinkNode(ok) \/ SettleCache(ok) \/ CollectFailedCache(ok)
          \/ \E started \in BOOLEAN : PrepareCache(ok, started)

NativeStep ==
    \/ NativeRemoves \/ SupervisorStops
    \/ \E ok \in BOOLEAN : SupervisorPreflight(ok)
    \/ \E result \in NativeResults : NativeExits(result)

-----------------------------------------------------------------------------
(***************************************************************************)
(* The lifecycle, the machine, crash and restart.                          *)
(***************************************************************************)

othersUnchanged == UNCHANGED <<machine, durable, sw, cw, native, disk>>

\* Arm, or the first scan of a boot whose request was armed: a fresh epoch.
Arm ==
    /\ status.up /\ ~status.failed /\ ~status.draining /\ status.epoch = 0
    /\ counters.epochs < MaxEpochs
    /\ counters' = [counters EXCEPT !.epochs = @ + 1]
    /\ status' = [status EXCEPT !.epoch = counters.epochs + 1]
    /\ UNCHANGED <<now, lease, history>> /\ othersUnchanged

Turn == counters.turns < machine.turns /\ counters' = [counters EXCEPT !.turns = @ + 1]

\* Pause, Disarm and BeginDrain: each cancels the leases with its own change.
Withdraw(change) ==
    /\ status.up /\ ~status.draining /\ Turn
    /\ status' = change /\ change # status
    /\ lease' = Cancelled(lease) /\ history' = Revoked
    /\ UNCHANGED now /\ othersUnchanged

Pause == Withdraw([status EXCEPT !.paused = TRUE])
Disarm == Withdraw([status EXCEPT !.epoch = 0])
BeginDrain == Withdraw([status EXCEPT !.draining = TRUE, !.epoch = 0])

\* Resume, or expire_pause.
Resume ==
    /\ status.up /\ status.paused /\ Turn
    /\ status' = [status EXCEPT !.paused = FALSE]
    /\ UNCHANGED <<now, lease, history>> /\ othersUnchanged

\* The engine begins or ends a scan or a process cleanup.
EngineWorks ==
    /\ status.up /\ Turn
    /\ status' = [status EXCEPT !.engine = ~@]
    /\ UNCHANGED <<now, lease, history>> /\ othersUnchanged

\* An interval is far longer than the budget of a native run and its grace, and
\* longer than a cycle (README, Observations).
Tick ==
    /\ now < machine.ticks
    /\ sw.pc = "idle" /\ cw.pc = "idle"
    /\ ~native.child /\ native.sup \notin {"preflight", "run"}
    /\ now' = now + 1
    /\ UNCHANGED <<status, lease, counters, history>> /\ othersUnchanged

\* Chrome makes a clone of its bundle, or removes one with all it holds.
CloneAppears(n) ==
    LET i == counters.inodes + 1
    IN  /\ linked[n] = 0 /\ i <= machine.clones
        /\ counters' = [counters EXCEPT !.inodes = i]
        /\ linked' = [linked EXCEPT ![n] = i]
        /\ history' = [history EXCEPT !.since[i] = now]
        /\ UNCHANGED <<machine, now, status, lease, durable, sw, cw, native, tree, bucket>>

CloneVanishes(n) ==
    /\ linked[n] # 0
    /\ linked' = [linked EXCEPT ![n] = 0]
    /\ tree' = [tree EXCEPT ![linked[n]] = 0]
    /\ UNCHANGED <<machine, now, status, lease, counters, durable, sw, cw, native, bucket, history>>

\* The process ends; its supervisor sees the closed channel later. An unknown
\* fate on record was the concern of this process, another one is of the next.
Gone ==
    /\ status' = [status EXCEPT !.up = FALSE, !.epoch = 0, !.engine = FALSE]
    /\ lease' = [k \in Kinds |-> NoLease]
    /\ sw' = IdleStorage /\ cw' = IdleCache
    /\ native' = [native EXCEPT !.parent = FALSE]
    /\ history' = [history EXCEPT !.unknown = @ /\ cacheRow["node"].token # 0]
    /\ UNCHANGED <<machine, now, counters, durable, disk>>

Crash == status.up /\ Gone

\* The main loop is left and the workers are joined.
Exit ==
    /\ status.up /\ status.draining
    /\ sw.pc \in {"idle", "done", "panicked"} /\ cw.pc \in {"idle", "done", "failed"}
    /\ Gone

\* The start of main: every open attempt becomes unknown before the loop; an
\* open Node attempt also fails the daemon closed.
Restart ==
    /\ ~status.up /\ counters.boots < machine.boots
    /\ counters' = [counters EXCEPT !.boots = @ + 1]
    /\ rows' = Finalized(rows)
    /\ cacheRow' = [f \in Families |-> RecoveredRow(cacheRow[f])]
    /\ status' = [status EXCEPT !.up = TRUE, !.draining = FALSE,
                                !.failed = cacheRow["node"].token # 0]
    /\ UNCHANGED <<machine, now, lease, observed, sw, cw, native, disk, history>>

Next ==
    \/ StorageStep \/ PanicStorage \/ CacheStep \/ PanicCache \/ NativeStep
    \/ Arm \/ Pause \/ Disarm \/ BeginDrain \/ Resume \/ EngineWorks \/ Tick
    \/ \E n \in Names : CloneAppears(n) \/ CloneVanishes(n)
    \/ Crash \/ Exit \/ Restart

Spec == Init /\ [][Next]_vars

\* The scheduler runs the two threads and the supervisor's poll loop.
Fairness == WF_vars(StorageStep) /\ WF_vars(CacheStep) /\ WF_vars(NativeStep)
FairSpec == Spec /\ Fairness

-----------------------------------------------------------------------------
(***************************************************************************)
(* Properties.                                                             *)
(***************************************************************************)

StorageOwns == sw.token # 0 /\ sw.pc \in {"check", "unlink", "rmdir", "rescan", "settle", "release"}
CacheOwns == cw.token # 0 /\ cw.pc \in {"wait", "reap", "recheck", "check", "unlink", "settle",
                                        "close", "release"}

(* At most one maintenance lease exists, and its owner is at work: neither a   *)
(* late finish of an old attempt (finish_storage_action), nor a panic, nor a   *)
(* crash leaves a lease without its worker or a worker on another's lease.     *)
OneOwner ==
    /\ \E k \in Kinds : lease[k] = NoLease
    /\ StorageOwns => lease["storage"].token = sw.token
    /\ ~StorageOwns => lease["storage"] = NoLease
    /\ lease["cache"] # NoLease => CacheOwns /\ lease["cache"].token = cw.token

(* Once Pause, Disarm, BeginDrain or fail_closed revoked an attempt at work,  *)
(* it removes at most the one file whose check had already passed, whatever   *)
(* Resume, a new epoch or the engine do meanwhile.                            *)
LateRemovalBounded == history.late <= 1

(* While candidates are removed, the row of this attempt is the only PREPARED *)
(* one: an attempt whose result was lost is settled as unknown before another *)
(* deletion may begin, across failing writes, panics and restarts. The row    *)
(* of a cache attempt likewise stays open until its worker settles it.        *)
OneOpenAttempt ==
    /\ sw.pc \in {"check", "unlink", "rmdir", "rescan", "settle"} =>
          {t \in Tokens : rows[t] = "prepared"} = {sw.token}
    /\ cw.pc \in {"wait", "reap", "recheck", "check", "unlink"} =>
          cacheRow[cw.family].token = cw.token

(* A durable verdict is true of the disk and of uv: complete and partial mean *)
(* that every planned clone is unlinked; busy, and failed of uv, that this    *)
(* attempt removed nothing; and after any verdict but unknown no native child *)
(* of this attempt is left to remove more.                                    *)
VerdictsHonest ==
    /\ \A t \in Tokens : rows[t] \in {"complete", "partial"} => history.planned[t] \cap Ids = {}
    /\ \A f \in Families :
          cacheRow[f].outcome = "busy" => cacheRow[f].id \notin history.touched
    /\ cacheRow["uv"].outcome = "failed" => cacheRow["uv"].id \notin history.touched
    /\ cacheRow["uv"].outcome \in {"completed", "busy", "failed"} =>
          ~(native.token = cacheRow["uv"].id /\ (native.child \/ native.sup = "preflight"))

(* A Node file of unknown fate ends all maintenance of this daemon: from the  *)
(* unlinkat that failed on, no gate opens, because fail_closed comes before    *)
(* the release. When the settlement cannot be written either, or the worker   *)
(* panics, the release comes first, and until the end of the thread or        *)
(* collect() closes the daemon a storage attempt may still begin. Then the    *)
(* row is open: no Node attempt begins, and after a crash in that window the  *)
(* boot that finds it stays closed. Once the worker is collected the gate is  *)
(* closed, whatever writes failed.                                            *)
NodeUnknownCloses ==
    history.unknown =>
        \/ ~GateOpen
        \/ cw.pc \in {"error", "failed"} /\ cacheRow["node"].token # 0

(* A clone loses a file only in a cycle that began a whole observation        *)
(* interval after the clone appeared, whatever writes failed, however the     *)
(* root changed and however often the daemon restarted in between. This holds *)
(* when cycles are prompt; the interval runs from the time the main loop took *)
(* before it started the worker, not from the scan, so a slow cycle breaks it *)
(* and with it the two 15-minute observations of SAFETY.md.                   *)
RemovedOnlyAged ==
    [][\A i \in Inodes : tree'[i] < tree[i] /\ sw' # sw => history.since[i] < sw.at]_vars

(* Every lease is released: a cancelled or hung removal, a hung uv, a lost    *)
(* supervisor or a failing write never leaves cleanup_in_progress forever.    *)
LeaseReleased == \A k \in Kinds : lease[k] # NoLease ~> lease[k] = NoLease
=============================================================================
