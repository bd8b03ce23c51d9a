-------------------------- MODULE MaintenanceProofs --------------------------
(***************************************************************************)
(* What Maintenance promises for every number of clones, attempts, epochs, *)
(* intervals, restarts and faults: one owner of the maintenance lease, at   *)
(* most one late removal, one open attempt, verdicts that are true, a gate  *)
(* closed after a lost Node file but for the window of an unwritten result, *)
(* and no file taken from a young clone.                                   *)
(*                                                                         *)
(* The inductive invariant has a part for each reason: which thread is      *)
(* where (ThreadInv), who holds the lease (LeaseInv), what a withdrawal     *)
(* leaves (LateInv), numbers taken once (TokenInv), plans and the clones on *)
(* the disk (CloneInv), their age (AgeInv), the supervisor (NativeInv), the *)
(* cache rows (CacheInv) and the lost Node file (UnknownInv).  A lemma of    *)
(* its own shows that a step preserves a part; it looks only at the actions *)
(* that change a variable the part reads.                                  *)
(***************************************************************************)
EXTENDS Maintenance, TLAPS

-----------------------------------------------------------------------------
(***************************************************************************)
(* The parts of the invariant.                                             *)
(***************************************************************************)

\* The pcs at which a worker holds, or may hold, its lease.
StorageBusy == {"check", "unlink", "rmdir", "rescan", "settle", "release"}
CacheRuns == {"wait", "reap", "recheck", "check", "unlink"}

\* A process that is gone has no workers, and both threads start from nothing.
ThreadInv ==
    /\ ~status.up => sw.pc = "idle" /\ cw.pc = "idle"
    /\ sw.pc \in {"idle", "recover", "scan", "prepare", "record"} => sw.token = 0 /\ sw.inode = 0
    /\ sw.pc \in StorageBusy => sw.token # 0
    /\ cw.pc \in CacheRuns \cup {"settle", "close"} => cw.token # 0
    /\ cw.pc = "release" => cw.token # 0
    /\ cw.pc \in {"recheck", "check", "unlink", "close"} => cw.family = "node"
    /\ cw.pc \in {"wait", "reap"} => cw.family = "uv"

\* OneOwner, and a running cache attempt holds its lease.
LeaseInv ==
    /\ OneOwner
    /\ \/ cw.pc \in CacheRuns \cup {"close"}
       \/ cw.pc \in {"settle", "release"} /\ cw.family = "node"
       => lease["cache"].token = cw.token

\* A revoked lease is cancelled, so no further check passes; the one worker
\* whose check had passed has not removed anything late yet.
LateInv ==
    /\ history.late \in {0, 1}
    /\ ~history.revoked => history.late = 0
    /\ history.revoked => \A k \in Kinds : lease[k] # NoLease => lease[k].cancel
    /\ sw.pc = "unlink" \/ cw.pc = "unlink" => history.late = 0

\* Attempts are numbered once: a storage attempt has a row, a cache attempt has
\* none, and no two cache attempts of different owners share a number.
TokenInv ==
    /\ sw.token <= counters.tokens /\ cw.token <= counters.tokens
    /\ native.token <= counters.tokens
    /\ \A f \in Families : cacheRow[f].id <= counters.tokens
    /\ \A t \in Tokens : t > counters.tokens =>
          rows[t] = "none" /\ t \notin history.touched
    /\ sw.token # 0 => rows[sw.token] # "none"
    /\ \A t \in Tokens : t = cw.token \/ t = native.token \/ (\E f \in Families : t = cacheRow[f].id)
          => rows[t] = "none"
    /\ cacheRow["uv"].id # 0 => cacheRow["uv"].id # cacheRow["node"].id
    /\ native.token # 0 => native.token # cacheRow["node"].id

\* The clones a plan may name exist already, and it is the plan of its row.
CloneInv ==
    /\ \A n \in Names : linked[n] <= counters.inodes
    /\ \A i \in sw.previous \cup sw.plan : i <= counters.inodes
    /\ sw.todo \subseteq sw.plan
    /\ sw.inode # 0 => sw.inode \in sw.plan
    /\ sw.pc \in {"unlink", "rmdir"} => sw.inode # 0
    /\ \A t \in Tokens : \A i \in history.planned[t] : i <= counters.inodes
    /\ sw.pc \in StorageBusy => history.planned[sw.token] = sw.plan
    /\ sw.pc = "settle" => sw.verdict \in {"complete", "partial", "failed"}
    /\ sw.pc = "settle" /\ sw.verdict \in {"complete", "partial"} => sw.plan \cap Ids = {}

\* How old a clone was when a cycle first saw it, and when one planned it.
AgeInv ==
    /\ sw.last <= now
    /\ sw.pc # "idle" => sw.at = now /\ sw.last = now
    /\ \A n \in Names : linked[n] # 0 => history.since[linked[n]] <= now
    /\ \A i \in sw.previous : history.since[i] <= sw.last
    /\ sw.pc \in {"recover", "scan"} => \A i \in sw.previous : history.since[i] < sw.at
    /\ sw.pc \in {"check", "unlink", "rmdir", "prepare"} => \A i \in sw.plan : history.since[i] < sw.at

\* The uv supervisor, and what its result says of the child it ran.
NativeInv ==
    /\ native.sup # "none" => native.token # 0
    /\ native.child => native.sup \in {"run", "killed"}
    /\ native.sup = "exited" => native.result \in {"completed", "busy", "unknown"}
    /\ native.result \in {"completed", "busy"} => native.sup \in {"exited", "killed"} /\ ~native.child
    /\ native.result = "busy" => native.token \notin history.touched
    /\ cw.pc \in {"wait", "reap"} => native.token = cw.token /\ native.sup \in {"preflight", "run", "exited"}

\* What the result at hand says, and the row that will carry it.
CacheInv ==
    /\ \A f \in Families : cacheRow[f].token # 0 =>
          cacheRow[f].token = cacheRow[f].id /\ cacheRow[f].outcome = "running"
    /\ cw.pc = "unlink" => bucket > 0
    /\ cw.family = "node" /\ cw.token # 0 => cw.token # native.token
    /\ cw.pc = "recheck" => cw.token \notin history.touched
    /\ cw.pc \in CacheRuns => cacheRow[cw.family].token = cw.token
    /\ cw.pc = "settle" /\ cw.outcome = "busy" => cw.token \notin history.touched
    /\ cw.pc = "settle" /\ cw.family = "uv" /\ cw.outcome = "failed" =>
          cw.token \notin history.touched
    /\ cw.pc = "settle" /\ cw.family = "uv" /\ cw.outcome \in {"completed", "busy", "failed"} =>
          ~(native.token = cw.token /\ (native.child \/ native.sup = "preflight"))

\* A Node file of unknown fate: until the daemon is closed the worker holds the
\* lease, or its row is open and its thread has only its failure left to report;
\* a process that ended before it was closed left its row to the next boot.
UnknownInv ==
    history.unknown =>
        \/ ~status.up /\ status.epoch = 0 /\ cacheRow["node"].token # 0
        \/ status.up /\ (status.failed \/ cw.pc = "close")
        \/ /\ status.up /\ cacheRow["node"].token # 0
           /\ \/ cw.pc = "settle" /\ cw.family = "node" /\ cw.outcome = "unknown"
              \/ cw.pc = "release" /\ cw.family = "node" /\ ~cw.settled
              \/ cw.pc \in {"error", "failed"}

-----------------------------------------------------------------------------
(***************************************************************************)
(* The steps, and who changes what.                                        *)
(***************************************************************************)

\* What Pause, Disarm and BeginDrain leave of the status.
Changes == {[status EXCEPT !.paused = TRUE], [status EXCEPT !.epoch = 0],
            [status EXCEPT !.draining = TRUE, !.epoch = 0]}

\* The steps, one by one.
LEMMA Actions ==
    ASSUME Next
    PROVE  \/ StartStorage
           \/ \E ok \in BOOLEAN : RecoverStorage(ok)
           \/ \E ok \in BOOLEAN, clear \in ClearedByGates : ScanStorage(ok, clear)
           \/ \E ok \in BOOLEAN : PrepareStorage(ok)
           \/ CheckStorage
           \/ \E ok \in BOOLEAN : UnlinkFile(ok)
           \/ \E ok \in BOOLEAN : RemoveCandidate(ok)
           \/ \E ok \in BOOLEAN : RescanStorage(ok)
           \/ \E ok \in BOOLEAN : SettleStorage(ok)
           \/ \E ok \in BOOLEAN : RecordStorage(ok)
           \/ ReleaseStorage
           \/ CollectStorage
           \/ \E ok \in BOOLEAN : CollectPanickedStorage(ok)
           \/ PanicStorage
           \/ StartCache
           \/ \E ok \in BOOLEAN : DiscoverCache(ok)
           \/ \E ok \in BOOLEAN, started \in BOOLEAN : PrepareCache(ok, started)
           \/ WaitUv
           \/ \E ok \in BOOLEAN : ReapUv(ok)
           \/ \E ok \in BOOLEAN : RecheckNode(ok)
           \/ \E ok \in BOOLEAN : CheckNode(ok)
           \/ \E ok \in BOOLEAN : UnlinkNode(ok)
           \/ \E ok \in BOOLEAN : SettleCache(ok)
           \/ CloseAfterNode
           \/ ReleaseCache
           \/ EndInError
           \/ CollectCache
           \/ \E ok \in BOOLEAN : CollectFailedCache(ok)
           \/ PanicCache
           \/ NativeRemoves
           \/ SupervisorStops
           \/ \E ok \in BOOLEAN : SupervisorPreflight(ok)
           \/ \E result \in NativeResults : NativeExits(result)
           \/ Arm
           \/ \E change \in Changes : Withdraw(change)
           \/ Resume
           \/ EngineWorks
           \/ Tick
           \/ \E n \in Names : CloneAppears(n)
           \/ \E n \in Names : CloneVanishes(n)
           \/ Gone
           \/ Restart
BY DEF Next, StorageStep, CacheStep, NativeStep, Pause, Disarm, BeginDrain, Crash, Exit,
   Changes

\* Who changes the status: fail_closed and the lifecycle.
LEMMA StatusSteps ==
    ASSUME Next
    PROVE  \/ UNCHANGED status
           \/ \E ok \in BOOLEAN : CollectPanickedStorage(ok)
           \/ CloseAfterNode
           \/ EndInError
           \/ \E ok \in BOOLEAN : CollectFailedCache(ok)
           \/ Arm
           \/ \E change \in Changes : Withdraw(change)
           \/ Resume
           \/ EngineWorks
           \/ Gone
           \/ Restart
BY Actions DEF StartStorage, RecoverStorage, ScanStorage, PrepareStorage, CheckStorage,
   UnlinkFile, RemoveCandidate, RescanStorage, SettleStorage, RecordStorage,
   ReleaseStorage, CollectStorage, PanicStorage, StartCache, DiscoverCache,
   PrepareCache, WaitUv, ReapUv, RecheckNode, CheckNode, UnlinkNode, SettleCache,
   ReleaseCache, CollectCache, PanicCache, NativeRemoves, SupervisorStops,
   SupervisorPreflight, NativeExits, Tick, CloneAppears, CloneVanishes,
   storageUnchanged, cacheUnchanged, othersUnchanged, durable, disk

\* Who changes a lease: its owner, a withdrawal, fail_closed, the end of the process.
LEMMA LeaseSteps ==
    ASSUME Next
    PROVE  \/ UNCHANGED lease
           \/ \E ok \in BOOLEAN : PrepareStorage(ok)
           \/ ReleaseStorage
           \/ \E ok \in BOOLEAN : CollectPanickedStorage(ok)
           \/ PanicStorage
           \/ \E ok \in BOOLEAN, started \in BOOLEAN : PrepareCache(ok, started)
           \/ CloseAfterNode
           \/ ReleaseCache
           \/ EndInError
           \/ \E ok \in BOOLEAN : CollectFailedCache(ok)
           \/ PanicCache
           \/ \E change \in Changes : Withdraw(change)
           \/ Gone
BY Actions DEF StartStorage, RecoverStorage, ScanStorage, CheckStorage, UnlinkFile,
   RemoveCandidate, RescanStorage, SettleStorage, RecordStorage, CollectStorage,
   StartCache, DiscoverCache, WaitUv, ReapUv, RecheckNode, CheckNode, UnlinkNode,
   SettleCache, CollectCache, NativeRemoves, SupervisorStops, SupervisorPreflight,
   NativeExits, Arm, Resume, EngineWorks, Tick, CloneAppears, CloneVanishes, Restart,
   storageUnchanged, cacheUnchanged, othersUnchanged, durable, disk

\* Who writes storage_cleanup_attempts.
LEMMA RowsSteps ==
    ASSUME Next
    PROVE  \/ UNCHANGED rows
           \/ \E ok \in BOOLEAN : RecoverStorage(ok)
           \/ \E ok \in BOOLEAN : PrepareStorage(ok)
           \/ \E ok \in BOOLEAN : SettleStorage(ok)
           \/ \E ok \in BOOLEAN : CollectPanickedStorage(ok)
           \/ Restart
BY Actions DEF StartStorage, ScanStorage, CheckStorage, UnlinkFile, RemoveCandidate,
   RescanStorage, RecordStorage, ReleaseStorage, CollectStorage, PanicStorage,
   StartCache, DiscoverCache, PrepareCache, WaitUv, ReapUv, RecheckNode, CheckNode,
   UnlinkNode, SettleCache, CloseAfterNode, ReleaseCache, EndInError, CollectCache,
   CollectFailedCache, PanicCache, NativeRemoves, SupervisorStops, SupervisorPreflight,
   NativeExits, Arm, Withdraw, Resume, EngineWorks, Tick, CloneAppears, CloneVanishes,
   Gone, storageUnchanged, cacheUnchanged, othersUnchanged, durable, disk

\* Who writes the rows of the caches.
LEMMA CacheRowSteps ==
    ASSUME Next
    PROVE  \/ UNCHANGED cacheRow
           \/ \E ok \in BOOLEAN, started \in BOOLEAN : PrepareCache(ok, started)
           \/ \E ok \in BOOLEAN : SettleCache(ok)
           \/ \E ok \in BOOLEAN : CollectFailedCache(ok)
           \/ Restart
BY Actions DEF StartStorage, RecoverStorage, ScanStorage, PrepareStorage, CheckStorage,
   UnlinkFile, RemoveCandidate, RescanStorage, SettleStorage, RecordStorage,
   ReleaseStorage, CollectStorage, CollectPanickedStorage, PanicStorage, StartCache,
   DiscoverCache, WaitUv, ReapUv, RecheckNode, CheckNode, UnlinkNode, CloseAfterNode,
   ReleaseCache, EndInError, CollectCache, PanicCache, NativeRemoves, SupervisorStops,
   SupervisorPreflight, NativeExits, Arm, Withdraw, Resume, EngineWorks, Tick,
   CloneAppears, CloneVanishes, Gone, storageUnchanged, cacheUnchanged, othersUnchanged,
   durable, disk

\* Who moves the storage worker.
LEMMA SwSteps ==
    ASSUME Next
    PROVE  \/ UNCHANGED sw
           \/ StartStorage
           \/ \E ok \in BOOLEAN : RecoverStorage(ok)
           \/ \E ok \in BOOLEAN, clear \in ClearedByGates : ScanStorage(ok, clear)
           \/ \E ok \in BOOLEAN : PrepareStorage(ok)
           \/ CheckStorage
           \/ \E ok \in BOOLEAN : UnlinkFile(ok)
           \/ \E ok \in BOOLEAN : RemoveCandidate(ok)
           \/ \E ok \in BOOLEAN : RescanStorage(ok)
           \/ \E ok \in BOOLEAN : SettleStorage(ok)
           \/ \E ok \in BOOLEAN : RecordStorage(ok)
           \/ ReleaseStorage
           \/ CollectStorage
           \/ \E ok \in BOOLEAN : CollectPanickedStorage(ok)
           \/ PanicStorage
           \/ Gone
BY Actions DEF StartCache, DiscoverCache, PrepareCache, WaitUv, ReapUv, RecheckNode,
   CheckNode, UnlinkNode, SettleCache, CloseAfterNode, ReleaseCache, EndInError,
   CollectCache, CollectFailedCache, PanicCache, NativeRemoves, SupervisorStops,
   SupervisorPreflight, NativeExits, Arm, Withdraw, Resume, EngineWorks, Tick,
   CloneAppears, CloneVanishes, Restart, storageUnchanged, cacheUnchanged,
   othersUnchanged, durable, disk

\* Who moves the cache worker.
LEMMA CwSteps ==
    ASSUME Next
    PROVE  \/ UNCHANGED cw
           \/ StartCache
           \/ \E ok \in BOOLEAN : DiscoverCache(ok)
           \/ \E ok \in BOOLEAN, started \in BOOLEAN : PrepareCache(ok, started)
           \/ WaitUv
           \/ \E ok \in BOOLEAN : ReapUv(ok)
           \/ \E ok \in BOOLEAN : RecheckNode(ok)
           \/ \E ok \in BOOLEAN : CheckNode(ok)
           \/ \E ok \in BOOLEAN : UnlinkNode(ok)
           \/ \E ok \in BOOLEAN : SettleCache(ok)
           \/ CloseAfterNode
           \/ ReleaseCache
           \/ EndInError
           \/ CollectCache
           \/ \E ok \in BOOLEAN : CollectFailedCache(ok)
           \/ PanicCache
           \/ Gone
BY Actions DEF StartStorage, RecoverStorage, ScanStorage, PrepareStorage, CheckStorage,
   UnlinkFile, RemoveCandidate, RescanStorage, SettleStorage, RecordStorage,
   ReleaseStorage, CollectStorage, CollectPanickedStorage, PanicStorage, NativeRemoves,
   SupervisorStops, SupervisorPreflight, NativeExits, Arm, Withdraw, Resume,
   EngineWorks, Tick, CloneAppears, CloneVanishes, Restart, storageUnchanged,
   cacheUnchanged, othersUnchanged, durable, disk

\* Who changes the supervisor and its child.
LEMMA NativeSteps ==
    ASSUME Next
    PROVE  \/ UNCHANGED native
           \/ \E ok \in BOOLEAN, started \in BOOLEAN : PrepareCache(ok, started)
           \/ WaitUv
           \/ \E ok \in BOOLEAN : ReapUv(ok)
           \/ SupervisorStops
           \/ \E ok \in BOOLEAN : SupervisorPreflight(ok)
           \/ \E result \in NativeResults : NativeExits(result)
           \/ Gone
BY Actions DEF StartStorage, RecoverStorage, ScanStorage, PrepareStorage, CheckStorage,
   UnlinkFile, RemoveCandidate, RescanStorage, SettleStorage, RecordStorage,
   ReleaseStorage, CollectStorage, CollectPanickedStorage, PanicStorage, StartCache,
   DiscoverCache, RecheckNode, CheckNode, UnlinkNode, SettleCache, CloseAfterNode,
   ReleaseCache, EndInError, CollectCache, CollectFailedCache, PanicCache,
   NativeRemoves, Arm, Withdraw, Resume, EngineWorks, Tick, CloneAppears, CloneVanishes,
   Restart, storageUnchanged, cacheUnchanged, othersUnchanged, durable, disk

\* Who changes the names under the clone root.
LEMMA LinkedSteps ==
    ASSUME Next
    PROVE  \/ UNCHANGED linked
           \/ \E ok \in BOOLEAN : RemoveCandidate(ok)
           \/ \E n \in Names : CloneAppears(n)
           \/ \E n \in Names : CloneVanishes(n)
BY Actions DEF StartStorage, RecoverStorage, ScanStorage, PrepareStorage, CheckStorage,
   UnlinkFile, RescanStorage, SettleStorage, RecordStorage, ReleaseStorage,
   CollectStorage, CollectPanickedStorage, PanicStorage, StartCache, DiscoverCache,
   PrepareCache, WaitUv, ReapUv, RecheckNode, CheckNode, UnlinkNode, SettleCache,
   CloseAfterNode, ReleaseCache, EndInError, CollectCache, CollectFailedCache,
   PanicCache, NativeRemoves, SupervisorStops, SupervisorPreflight, NativeExits, Arm,
   Withdraw, Resume, EngineWorks, Tick, Gone, Restart, storageUnchanged, cacheUnchanged,
   othersUnchanged, durable, disk

\* Who adds to the history.
LEMMA HistorySteps ==
    ASSUME Next
    PROVE  \/ UNCHANGED history
           \/ \E ok \in BOOLEAN : PrepareStorage(ok)
           \/ \E ok \in BOOLEAN : UnlinkFile(ok)
           \/ \E ok \in BOOLEAN : CollectPanickedStorage(ok)
           \/ \E ok \in BOOLEAN, started \in BOOLEAN : PrepareCache(ok, started)
           \/ \E ok \in BOOLEAN : UnlinkNode(ok)
           \/ \E ok \in BOOLEAN : SettleCache(ok)
           \/ CloseAfterNode
           \/ EndInError
           \/ \E ok \in BOOLEAN : CollectFailedCache(ok)
           \/ NativeRemoves
           \/ \E change \in Changes : Withdraw(change)
           \/ \E n \in Names : CloneAppears(n)
           \/ Gone
BY Actions DEF StartStorage, RecoverStorage, ScanStorage, CheckStorage, RemoveCandidate,
   RescanStorage, SettleStorage, RecordStorage, ReleaseStorage, CollectStorage,
   PanicStorage, StartCache, DiscoverCache, WaitUv, ReapUv, RecheckNode, CheckNode,
   ReleaseCache, CollectCache, PanicCache, SupervisorStops, SupervisorPreflight,
   NativeExits, Arm, Resume, EngineWorks, Tick, CloneVanishes, Restart,
   storageUnchanged, cacheUnchanged, othersUnchanged, durable, disk

\* Every other step leaves the counters alone, or counts a fault or a turn.
LEMMA CountersSteps ==
    ASSUME Next
    PROVE  \/ UNCHANGED counters
           \/ Fault /\ NewFault
           \/ Turn
           \/ \E ok \in BOOLEAN : PrepareStorage(ok)
           \/ \E ok \in BOOLEAN, started \in BOOLEAN : PrepareCache(ok, started)
           \/ Arm
           \/ \E n \in Names : CloneAppears(n)
           \/ Restart
BY Actions DEF StartStorage, RecoverStorage, ScanStorage, CheckStorage, UnlinkFile,
   RemoveCandidate, RescanStorage, SettleStorage, RecordStorage, ReleaseStorage,
   CollectStorage, CollectPanickedStorage, PanicStorage, StartCache, DiscoverCache,
   WaitUv, ReapUv, RecheckNode, CheckNode, UnlinkNode, SettleCache, CloseAfterNode,
   ReleaseCache, EndInError, CollectCache, CollectFailedCache, PanicCache,
   NativeRemoves, SupervisorStops, SupervisorPreflight, NativeExits, Withdraw, Resume,
   EngineWorks, Tick, CloneVanishes, Gone, Outcome, storageUnchanged, cacheUnchanged,
   othersUnchanged, durable, disk

\* Who removes files of a clone.
LEMMA TreeSteps ==
    ASSUME Next
    PROVE  \/ UNCHANGED tree
           \/ \E ok \in BOOLEAN : UnlinkFile(ok)
           \/ \E n \in Names : CloneVanishes(n)
BY Actions DEF StartStorage, RecoverStorage, ScanStorage, PrepareStorage, CheckStorage,
   RemoveCandidate, RescanStorage, SettleStorage, RecordStorage, ReleaseStorage,
   CollectStorage, CollectPanickedStorage, PanicStorage, StartCache, DiscoverCache,
   PrepareCache, WaitUv, ReapUv, RecheckNode, CheckNode, UnlinkNode, SettleCache,
   CloseAfterNode, ReleaseCache, EndInError, CollectCache, CollectFailedCache,
   PanicCache, NativeRemoves, SupervisorStops, SupervisorPreflight, NativeExits, Arm,
   Withdraw, Resume, EngineWorks, Tick, CloneAppears, Gone, Restart, storageUnchanged,
   cacheUnchanged, othersUnchanged, durable, disk

\* Who changes the Node bucket.
LEMMA BucketSteps ==
    ASSUME Next
    PROVE  \/ UNCHANGED bucket
           \/ \E ok \in BOOLEAN : DiscoverCache(ok)
           \/ \E ok \in BOOLEAN : UnlinkNode(ok)
BY Actions DEF StartStorage, RecoverStorage, ScanStorage, PrepareStorage, CheckStorage,
   UnlinkFile, RemoveCandidate, RescanStorage, SettleStorage, RecordStorage,
   ReleaseStorage, CollectStorage, CollectPanickedStorage, PanicStorage, StartCache,
   PrepareCache, WaitUv, ReapUv, RecheckNode, CheckNode, SettleCache, CloseAfterNode,
   ReleaseCache, EndInError, CollectCache, CollectFailedCache, PanicCache,
   NativeRemoves, SupervisorStops, SupervisorPreflight, NativeExits, Arm, Withdraw,
   Resume, EngineWorks, Tick, CloneAppears, CloneVanishes, Gone, Restart,
   storageUnchanged, cacheUnchanged, othersUnchanged, durable, disk

\* Who writes storage_residue_latest.
LEMMA ObservedSteps ==
    ASSUME Next
    PROVE  \/ UNCHANGED observed
           \/ \E ok \in BOOLEAN : SettleStorage(ok)
           \/ \E ok \in BOOLEAN : RecordStorage(ok)
BY Actions DEF StartStorage, RecoverStorage, ScanStorage, PrepareStorage, CheckStorage,
   UnlinkFile, RemoveCandidate, RescanStorage, ReleaseStorage, CollectStorage,
   CollectPanickedStorage, PanicStorage, StartCache, DiscoverCache, PrepareCache,
   WaitUv, ReapUv, RecheckNode, CheckNode, UnlinkNode, SettleCache, CloseAfterNode,
   ReleaseCache, EndInError, CollectCache, CollectFailedCache, PanicCache,
   NativeRemoves, SupervisorStops, SupervisorPreflight, NativeExits, Arm, Withdraw,
   Resume, EngineWorks, Tick, CloneAppears, CloneVanishes, Gone, Restart,
   storageUnchanged, cacheUnchanged, othersUnchanged, durable, disk

\* Who moves the clock.
LEMMA NowSteps ==
    ASSUME Next
    PROVE  \/ UNCHANGED now
           \/ Tick
BY Actions DEF StartStorage, RecoverStorage, ScanStorage, PrepareStorage, CheckStorage,
   UnlinkFile, RemoveCandidate, RescanStorage, SettleStorage, RecordStorage,
   ReleaseStorage, CollectStorage, CollectPanickedStorage, PanicStorage, StartCache,
   DiscoverCache, PrepareCache, WaitUv, ReapUv, RecheckNode, CheckNode, UnlinkNode,
   SettleCache, CloseAfterNode, ReleaseCache, EndInError, CollectCache,
   CollectFailedCache, PanicCache, NativeRemoves, SupervisorStops, SupervisorPreflight,
   NativeExits, Arm, Withdraw, Resume, EngineWorks, CloneAppears, CloneVanishes, Gone,
   Restart, storageUnchanged, cacheUnchanged, othersUnchanged, durable, disk

\* A machine stays what it is.
LEMMA MachineSteps ==
    ASSUME Next
    PROVE  \/ UNCHANGED machine
BY Actions DEF StartStorage, RecoverStorage, ScanStorage, PrepareStorage, CheckStorage,
   UnlinkFile, RemoveCandidate, RescanStorage, SettleStorage, RecordStorage,
   ReleaseStorage, CollectStorage, CollectPanickedStorage, PanicStorage, StartCache,
   DiscoverCache, PrepareCache, WaitUv, ReapUv, RecheckNode, CheckNode, UnlinkNode,
   SettleCache, CloseAfterNode, ReleaseCache, EndInError, CollectCache,
   CollectFailedCache, PanicCache, NativeRemoves, SupervisorStops, SupervisorPreflight,
   NativeExits, Arm, Withdraw, Resume, EngineWorks, Tick, CloneAppears, CloneVanishes,
   Gone, Restart, storageUnchanged, cacheUnchanged, othersUnchanged, durable, disk

-----------------------------------------------------------------------------
(***************************************************************************)
(* Types, and what the larger steps do.                                    *)
(***************************************************************************)

\* A fresh worker and a fresh row are well formed.
LEMMA FreshTypes ==
    /\ IdleStorage \in StorageWorkers /\ IdleCache \in CacheWorkers /\ NoLease \in Leases
    /\ NoNative \in Natives /\ NoRow \in CacheRows /\ 0 \in 0..MaxEpochs /\ 0 \in 0..MaxTokens
    /\ 0 \in 0..MaxInodes
BY BoundsAreNaturals DEF IdleStorage, IdleCache, NoLease, NoNative, NoRow, StorageWorkers,
   CacheWorkers, Leases, Natives, CacheRows, StoragePcs, CachePcs, Dispositions, Outcomes,
   Families

\* The parts of the type invariant.
LEMMA Types ==
    ASSUME TypeOK
    PROVE  /\ machine \in Machines /\ now \in 0..MaxTicks
           /\ status \in Statuses /\ lease \in [Kinds -> Leases] /\ counters \in Counts
           /\ rows \in [Tokens -> Dispositions] /\ cacheRow \in [Families -> CacheRows]
           /\ observed \in 0..MaxTicks
           /\ sw \in StorageWorkers /\ cw \in CacheWorkers /\ native \in Natives
           /\ linked \in [Names -> 0..MaxInodes] /\ tree \in [Inodes -> 0..MaxFiles]
           /\ bucket \in 0..MaxFiles /\ history \in Histories
BY DEF TypeOK

\* The fields of the storage worker, and the clones on the disk.
LEMMA StorageFields ==
    ASSUME TypeOK
    PROVE  /\ sw.at \in 0..MaxTicks /\ sw.token \in 0..MaxTokens /\ sw.plan \in SUBSET Inodes
           /\ sw.todo \in SUBSET Inodes /\ sw.inode \in 0..MaxInodes
           /\ sw.verdict \in Dispositions /\ sw.previous \in SUBSET Inodes
           /\ sw.last \in 0..MaxTicks /\ sw.pc \in StoragePcs /\ Ids \in SUBSET Inodes
<1>1. Ids \in SUBSET Inodes
  BY BoundsAreNaturals DEF TypeOK, Ids, Inodes
<1> QED
  BY <1>1 DEF TypeOK, StorageWorkers

\* The fields of the cache worker, the supervisor and the status.
LEMMA CacheFields ==
    ASSUME TypeOK
    PROVE  /\ cw.at \in 0..MaxTicks /\ cw.token \in 0..MaxTokens /\ cw.family \in Families
           /\ cw.outcome \in Outcomes /\ cw.last \in 0..MaxTicks /\ cw.pc \in CachePcs
           /\ native.result \in Outcomes /\ native.token \in 0..MaxTokens
           /\ status.epoch \in 0..MaxEpochs
BY DEF TypeOK, CacheWorkers, Natives, Statuses

\* The counters, and the bounds of this machine.
LEMMA CounterFields ==
    ASSUME TypeOK
    PROVE  /\ counters.tokens \in 0..MaxTokens /\ counters.epochs \in 0..MaxEpochs
           /\ counters.inodes \in 0..MaxInodes /\ counters.boots \in 0..MaxBoots
           /\ counters.turns \in 0..MaxTurns /\ counters.faults \in 0..MaxFaults
           /\ machine.clones \in 0..MaxInodes /\ machine.ticks \in 0..MaxTicks
           /\ machine.turns \in 0..MaxTurns /\ machine.boots \in 0..MaxBoots
           /\ machine.faults \in 0..MaxFaults
BY MachinesAreSound DEF TypeOK, Counts

\* The fields of the history.
LEMMA HistoryFields ==
    ASSUME TypeOK
    PROVE  /\ history.revoked \in BOOLEAN /\ history.late \in Nat
           /\ history.touched \in SUBSET Tokens /\ history.unknown \in BOOLEAN
           /\ history.planned \in [Tokens -> SUBSET Inodes]
           /\ history.since \in [Inodes -> 0..MaxTicks]
BY DEF TypeOK, Histories

\* A storage attempt begins: the gate was open, so no other lease exists; its
\* number is new. Otherwise the cycle only records.
LEMMA PrepareStorageEffect ==
    ASSUME TypeOK, NEW ok \in BOOLEAN, PrepareStorage(ok)
    PROVE  /\ sw.pc = "prepare" /\ sw' \in StorageWorkers /\ counters' \in Counts
           /\ sw'.plan = sw.plan /\ sw'.todo = sw.todo /\ sw'.inode = sw.inode
           /\ sw'.at = sw.at /\ sw'.last = sw.last /\ sw'.previous = sw.previous
           /\ counters'.inodes = counters.inodes
           /\ UNCHANGED <<machine, now, status, cw, native, cacheRow, linked, tree, bucket>>
           /\ \/ LET t == counters.tokens + 1
                 IN  /\ \A k \in Kinds : lease[k] = NoLease
                     /\ LifecycleOpen
                     /\ t \in Tokens /\ counters'.tokens = t
                     /\ counters.tokens \in Nat /\ t # 0
                     /\ sw'.pc = "check" /\ sw'.token = t
                     /\ rows' = [Finalized(rows) EXCEPT ![t] = "prepared"]
                     /\ lease'["storage"].token = t /\ lease'["storage"].cancel = FALSE
                     /\ lease'["cache"] = NoLease
                     /\ history'.planned = [history.planned EXCEPT ![t] = sw.plan]
                     /\ history'.late = 0 /\ history'.revoked = FALSE
                     /\ history'.touched = history.touched /\ history'.since = history.since
                     /\ history'.unknown = history.unknown
              \/ /\ sw'.pc = "record" /\ sw'.token = sw.token
                 /\ counters'.tokens = counters.tokens
                 /\ UNCHANGED <<rows, lease, history>>
<1>1. /\ sw \in StorageWorkers /\ counters \in Counts /\ status.epoch \in 0..MaxEpochs
      /\ machine.faults \in 0..MaxFaults
  BY MachinesAreSound DEF TypeOK, Statuses
<1>2. /\ sw.pc = "prepare"
      /\ UNCHANGED <<machine, now, status, cw, native, cacheRow, linked, tree, bucket>>
  BY DEF PrepareStorage, storageUnchanged
<1>3. CASE GateOpen /\ ok
  <2>1. /\ counters.tokens + 1 \in Tokens /\ counters.tokens + 1 \in 0..MaxTokens
        /\ counters.tokens \in Nat /\ counters.tokens + 1 # 0
    BY <1>1, <1>3, BoundsAreNaturals DEF PrepareStorage, Counts, Tokens
  <2>2. /\ counters' = [counters EXCEPT !.tokens = counters.tokens + 1]
        /\ sw' = [sw EXCEPT !.pc = "check", !.token = counters.tokens + 1,
                              !.epoch = status.epoch, !.ok = TRUE]
    BY <1>3 DEF PrepareStorage
  <2>3. counters' \in Counts /\ counters'.tokens = counters.tokens + 1
        /\ counters'.inodes = counters.inodes
    BY <1>1, <2>1, <2>2 DEF Counts
  <2>4. /\ sw' \in StorageWorkers /\ sw'.pc = "check" /\ sw'.token = counters.tokens + 1
        /\ sw'.plan = sw.plan /\ sw'.todo = sw.todo /\ sw'.inode = sw.inode
        /\ sw'.at = sw.at /\ sw'.last = sw.last /\ sw'.previous = sw.previous
    BY <1>1, <2>1, <2>2 DEF StorageWorkers, StoragePcs
  <2>5. LifecycleOpen /\ \A k \in Kinds : lease[k] = NoLease
    BY <1>3 DEF GateOpen, MaintenanceInProgress
  <2>6. /\ lease'["storage"].token = counters.tokens + 1
        /\ lease'["storage"].cancel = FALSE
        /\ lease'["cache"] = NoLease
    BY <1>3, <2>5 DEF PrepareStorage, TypeOK, Kinds
  <2>7. /\ history'.planned = [history.planned EXCEPT ![counters.tokens + 1] = sw.plan]
        /\ history'.late = 0 /\ history'.revoked = FALSE
        /\ history'.touched = history.touched /\ history'.since = history.since
        /\ history'.unknown = history.unknown
    BY <1>3 DEF PrepareStorage, TypeOK, Histories
  <2>8. rows' = [Finalized(rows) EXCEPT ![counters.tokens + 1] = "prepared"]
    BY <1>3 DEF PrepareStorage
  <2> QED
    BY <1>2, <2>1, <2>3, <2>4, <2>5, <2>6, <2>7, <2>8
<1>4. CASE ~(GateOpen /\ ok)
  <2>1. /\ sw' = [sw EXCEPT !.pc = "record"] /\ UNCHANGED <<rows, lease, history>>
        /\ \/ UNCHANGED counters
           \/ /\ counters.faults < machine.faults
              /\ counters' = [counters EXCEPT !.faults = @ + 1]
    BY <1>4 DEF PrepareStorage, Fault, NewFault
  <2>2. /\ counters' \in Counts /\ counters'.tokens = counters.tokens
        /\ counters'.inodes = counters.inodes
    BY <1>1, <2>1, BoundsAreNaturals DEF Counts
  <2>3. /\ sw' \in StorageWorkers /\ sw'.pc = "record" /\ sw'.token = sw.token
        /\ sw'.plan = sw.plan /\ sw'.todo = sw.todo /\ sw'.inode = sw.inode
        /\ sw'.at = sw.at /\ sw'.last = sw.last /\ sw'.previous = sw.previous
    BY <1>1, <2>1 DEF StorageWorkers, StoragePcs
  <2> QED
    BY <1>2, <2>1, <2>2, <2>3
<1> QED
  BY <1>3, <1>4

\* A cache attempt begins under the open gate with a new number; without a
\* supervisor it has a row to settle and no lease.
LEMMA PrepareCacheEffect ==
    ASSUME TypeOK, NEW ok \in BOOLEAN, NEW started \in BOOLEAN, PrepareCache(ok, started)
    PROVE  /\ cw.pc = "prepare" /\ cw' \in CacheWorkers /\ counters' \in Counts
           /\ counters'.inodes = counters.inodes
           /\ UNCHANGED <<machine, now, status, bucket, sw, rows, observed, linked, tree>>
           /\ \/ LET t == counters.tokens + 1
                 IN  /\ \A k \in Kinds : lease[k] = NoLease
                     /\ t \in Tokens /\ counters'.tokens = t
                     /\ counters.tokens \in Nat /\ t # 0
                     /\ cw.family = "node" => started
                     /\ cw'.pc = IF ~started THEN "settle"
                                 ELSE IF cw.family = "uv" THEN "wait" ELSE "recheck"
                     /\ cw'.token = t /\ cw'.family = cw.family /\ cw'.outcome = "failed"
                     /\ cacheRow' = [cacheRow EXCEPT ![cw.family] =
                           [token |-> t, id |-> t, outcome |-> "running", at |-> cw.at]]
                     /\ \/ /\ started /\ lease'["cache"].token = t
                           /\ lease'["cache"].cancel = FALSE
                        \/ ~started /\ lease'["cache"] = NoLease
                     /\ lease'["storage"] = NoLease
                     /\ native' = IF cw.family = "uv" /\ started
                                  THEN [sup |-> "preflight", child |-> FALSE, parent |-> TRUE,
                                        result |-> "none", token |-> t]
                                  ELSE native
                     /\ history'.late = 0 /\ history'.revoked = FALSE
                     /\ history'.planned = history.planned /\ history'.unknown = history.unknown
                     /\ history'.touched = history.touched /\ history'.since = history.since
              \/ /\ cw'.pc \in {"discover", "done", "error"}
                 /\ cw'.token = 0 \/ (cw'.token = cw.token /\ cw'.family = cw.family)
                 /\ counters'.tokens = counters.tokens
                 /\ UNCHANGED <<lease, cacheRow, native, history>>
<1>1. /\ cw \in CacheWorkers /\ counters \in Counts /\ status.epoch \in 0..MaxEpochs
      /\ machine.faults \in 0..MaxFaults
  BY MachinesAreSound DEF TypeOK, Statuses
<1>2. /\ cw.pc = "prepare"
      /\ UNCHANGED <<machine, now, status, bucket, sw, rows, observed, linked, tree>>
  BY DEF PrepareCache, cacheUnchanged
<1>3. CASE GateOpen /\ cacheRow[cw.family].token = 0 /\ ok
  <2>1. /\ counters.tokens + 1 \in Tokens /\ counters.tokens + 1 \in 0..MaxTokens
        /\ counters.tokens \in Nat /\ counters.tokens + 1 # 0
    BY <1>1, <1>3, BoundsAreNaturals DEF PrepareCache, Counts, Tokens
  <2>2. /\ counters' = [counters EXCEPT !.tokens = counters.tokens + 1,
                                         !.faults = @ + IF started THEN 0 ELSE 1]
        /\ ~started => counters.faults < machine.faults
        /\ cw' = [cw EXCEPT !.token = counters.tokens + 1, !.epoch = status.epoch,
                              !.outcome = "failed",
                              !.pc = IF ~started THEN "settle"
                                     ELSE IF cw.family = "uv" THEN "wait" ELSE "recheck"]
    BY <1>3 DEF PrepareCache, Fault
  <2>3. counters' \in Counts /\ counters'.tokens = counters.tokens + 1
        /\ counters'.inodes = counters.inodes
    <3>1. counters.faults + (IF started THEN 0 ELSE 1) \in 0..MaxFaults
      BY <1>1, <2>2, BoundsAreNaturals DEF Counts
    <3> QED
      BY <1>1, <2>1, <2>2, <3>1 DEF Counts
  <2>4. /\ cw' \in CacheWorkers /\ cw'.token = counters.tokens + 1
        /\ cw'.family = cw.family /\ cw'.outcome = "failed"
        /\ cw'.pc = IF ~started THEN "settle"
                     ELSE IF cw.family = "uv" THEN "wait" ELSE "recheck"
    BY <1>1, <2>1, <2>2 DEF CacheWorkers, CachePcs, Outcomes
  <2>5. \A k \in Kinds : lease[k] = NoLease
    BY <1>3 DEF GateOpen, MaintenanceInProgress
  <2>6. native' = IF cw.family = "uv" /\ started
                  THEN [sup |-> "preflight", child |-> FALSE, parent |-> TRUE,
                        result |-> "none", token |-> counters.tokens + 1]
                  ELSE native
    BY <1>3 DEF PrepareCache, NoNative
  <2>7. /\ history'.late = 0 /\ history'.revoked = FALSE
        /\ history'.planned = history.planned /\ history'.unknown = history.unknown
        /\ history'.touched = history.touched /\ history'.since = history.since
    BY <1>3 DEF PrepareCache, TypeOK, Histories
  <2>8. /\ \/ /\ started /\ lease'["cache"].token = counters.tokens + 1
              /\ lease'["cache"].cancel = FALSE
           \/ ~started /\ lease'["cache"] = NoLease
        /\ lease'["storage"] = NoLease
    BY <1>3, <2>5 DEF PrepareCache, TypeOK, Kinds
  <2>9. /\ cw.family = "node" => started
        /\ cacheRow' = [cacheRow EXCEPT ![cw.family] =
              [token |-> counters.tokens + 1, id |-> counters.tokens + 1,
               outcome |-> "running", at |-> cw.at]]
    BY <1>3 DEF PrepareCache
  <2> QED
    BY <1>2, <2>1, <2>3, <2>4, <2>5, <2>6, <2>7, <2>8, <2>9
<1>4. CASE ~(GateOpen /\ cacheRow[cw.family].token = 0 /\ ok)
  <2>1. /\ cw' = NextFamily \/ cw' = [cw EXCEPT !.pc = "error"]
        /\ UNCHANGED <<lease, cacheRow, native, history>>
        /\ \/ UNCHANGED counters
           \/ /\ counters.faults < machine.faults
              /\ counters' = [counters EXCEPT !.faults = @ + 1]
    BY <1>4 DEF PrepareCache, Fault, NewFault, Outcome
  <2>2. /\ counters' \in Counts /\ counters'.tokens = counters.tokens
        /\ counters'.inodes = counters.inodes
    BY <1>1, <2>1, BoundsAreNaturals DEF Counts
  <2>3. /\ cw' \in CacheWorkers /\ cw'.pc \in {"discover", "done", "error"}
        /\ cw'.token = 0 \/ (cw'.token = cw.token /\ cw'.family = cw.family)
    <3>1. \/ cw' = [cw EXCEPT !.family = "node", !.pc = "discover", !.token = 0]
          \/ cw' = [cw EXCEPT !.pc = "done"] \/ cw' = [cw EXCEPT !.pc = "error"]
      BY <2>1 DEF NextFamily
    <3>2. 0 \in 0..MaxTokens
      BY BoundsAreNaturals
    <3> QED
      BY <1>1, <3>1, <3>2 DEF CacheWorkers, CachePcs, Families
  <2> QED
    BY <1>2, <2>1, <2>2, <2>3
<1> QED
  BY <1>3, <1>4

\* should_cancel: only under its uncancelled lease and an open lifecycle does
\* the worker go on to an entry; an empty directory has none.
LEMMA CheckStorageEffect ==
    ASSUME TypeOK, CheckStorage
    PROVE  /\ sw.pc = "check" /\ sw'.pc \in {"rmdir", "unlink", "rescan", "check"}
           /\ sw'.token = sw.token /\ sw'.plan = sw.plan /\ sw'.todo = sw.todo
           /\ sw'.previous = sw.previous /\ sw'.at = sw.at /\ sw'.last = sw.last
           /\ sw'.pc \in {"unlink", "check"} => StorageMayContinue
           /\ sw'.pc \in {"rmdir", "unlink"} => sw.inode # 0
           /\ sw'.inode = sw.inode \/ (sw'.inode \in sw.todo /\ sw'.pc = "check")
           /\ UNCHANGED <<machine, now, status, lease, counters, rows, cacheRow, observed, cw,
                          native, linked, tree, bucket, history>>
<1>1. sw \in StorageWorkers
  BY Types
<1>2. /\ sw.pc = "check"
      /\ \/ sw.inode # 0 /\ sw' = [sw EXCEPT !.pc = "rmdir"]
         \/ sw' = [sw EXCEPT !.pc = "rescan", !.ok = FALSE]
         \/ StorageMayContinue /\ sw.inode # 0 /\ sw' = [sw EXCEPT !.pc = "unlink"]
         \/ StorageMayContinue /\ \E i \in sw.todo : sw' = [sw EXCEPT !.inode = i]
      /\ UNCHANGED <<machine, now, status, lease, counters, rows, cacheRow, observed, cw,
                     native, linked, tree, bucket, history>>
  BY DEF CheckStorage, RemovalFails, storageUnchanged
<1> QED
  BY <1>1, <1>2 DEF StorageWorkers

\* One file of a clone is gone and the worker asks again, or the call failed.
LEMMA UnlinkFileEffect ==
    ASSUME TypeOK, NEW ok \in BOOLEAN, UnlinkFile(ok)
    PROVE  /\ sw.pc = "unlink"
           /\ sw'.token = sw.token /\ sw'.plan = sw.plan /\ sw'.todo = sw.todo
           /\ sw'.previous = sw.previous /\ sw'.at = sw.at /\ sw'.last = sw.last
           /\ sw'.inode = sw.inode
           /\ \/ /\ sw'.pc = "check"
                 /\ history'.touched = history.touched \cup {sw.token}
                 /\ history'.late = history.late + (IF history.revoked THEN 1 ELSE 0)
                 /\ history'.revoked = history.revoked /\ history'.since = history.since
                 /\ history'.planned = history.planned /\ history'.unknown = history.unknown
              \/ sw'.pc = "rescan" /\ UNCHANGED <<tree, history>>
           /\ UNCHANGED <<machine, now, status, lease, rows, cacheRow, observed, cw, native,
                          linked, bucket>>
<1>1. sw \in StorageWorkers /\ history \in Histories
  BY Types
<1>2. /\ sw.pc = "unlink"
      /\ \/ sw' = [sw EXCEPT !.pc = "check"] /\ history' = Effect(sw.token)
         \/ sw' = [sw EXCEPT !.pc = "rescan", !.ok = FALSE] /\ UNCHANGED <<tree, history>>
      /\ UNCHANGED <<machine, now, status, lease, rows, cacheRow, observed, cw, native,
                     linked, bucket>>
  BY DEF UnlinkFile, RemovalFails, storageUnchanged
<1>3. CASE sw' = [sw EXCEPT !.pc = "check"] /\ history' = Effect(sw.token)
  BY <1>1, <1>2, <1>3 DEF StorageWorkers, Histories, Effect
<1>4. CASE sw' = [sw EXCEPT !.pc = "rescan", !.ok = FALSE] /\ UNCHANGED <<tree, history>>
  BY <1>1, <1>2, <1>4 DEF StorageWorkers
<1> QED
  BY <1>2, <1>3, <1>4

\* One file of the Node bucket is gone, or its fate is unknown.
LEMMA UnlinkNodeEffect ==
    ASSUME TypeOK, NEW ok \in BOOLEAN, UnlinkNode(ok)
    PROVE  /\ cw.pc = "unlink" /\ cw'.token = cw.token /\ cw'.family = cw.family
           /\ history'.revoked = history.revoked /\ history'.since = history.since
           /\ history'.planned = history.planned
           /\ \/ /\ cw'.pc = "check" /\ history'.unknown = history.unknown
                 /\ history'.touched = history.touched \cup {cw.token}
                 /\ history'.late = history.late + (IF history.revoked THEN 1 ELSE 0)
              \/ /\ cw'.pc = "settle" /\ cw'.outcome = "unknown" /\ history'.unknown
                 /\ history'.touched = history.touched /\ history'.late = history.late
           /\ UNCHANGED <<machine, now, status, lease, rows, cacheRow, observed, sw, native,
                          linked, tree>>
<1>1. cw \in CacheWorkers /\ history \in Histories
  BY Types
<1>2. /\ cw.pc = "unlink"
      /\ \/ cw' = [cw EXCEPT !.pc = "check"] /\ history' = Effect(cw.token)
         \/ /\ cw' = [cw EXCEPT !.outcome = "unknown", !.pc = "settle"]
            /\ history' = [history EXCEPT !.unknown = TRUE]
      /\ UNCHANGED <<machine, now, status, lease, rows, cacheRow, observed, sw, native,
                     linked, tree>>
  BY DEF UnlinkNode, CacheResult, cacheUnchanged
<1>3. CASE cw' = [cw EXCEPT !.pc = "check"] /\ history' = Effect(cw.token)
  BY <1>1, <1>2, <1>3 DEF CacheWorkers, Histories, Effect
<1>4. CASE /\ cw' = [cw EXCEPT !.outcome = "unknown", !.pc = "settle"]
           /\ history' = [history EXCEPT !.unknown = TRUE]
  BY <1>1, <1>2, <1>4 DEF CacheWorkers, Histories
<1> QED
  BY <1>2, <1>3, <1>4

\* A refused start of an attempt changes nothing but the worker.
LEMMA NotBegun ==
    ASSUME TypeOK, counters'.tokens = counters.tokens
    PROVE  /\ \A ok \in BOOLEAN : PrepareStorage(ok) =>
                 sw'.token = sw.token /\ UNCHANGED <<rows, lease, history>>
           /\ \A ok, started \in BOOLEAN : PrepareCache(ok, started) =>
                 cw'.token \in {cw.token, 0} /\ UNCHANGED <<lease, cacheRow, native, history>>
<1>1. counters'.tokens # counters.tokens + 1
  BY CounterFields, BoundsAreNaturals
<1>2. ASSUME NEW ok \in BOOLEAN, PrepareStorage(ok)
      PROVE  sw'.token = sw.token /\ UNCHANGED <<rows, lease, history>>
  BY <1>1, <1>2, PrepareStorageEffect
<1>3. ASSUME NEW ok \in BOOLEAN, NEW started \in BOOLEAN, PrepareCache(ok, started)
      PROVE  cw'.token \in {cw.token, 0} /\ UNCHANGED <<lease, cacheRow, native, history>>
  BY <1>1, <1>3, PrepareCacheEffect
<1> QED
  BY <1>2, <1>3

\* Only the start of an attempt takes a number.
LEMMA TokensBegun ==
    ASSUME TypeOK, Next, counters'.tokens # counters.tokens
    PROVE  \/ \E ok \in BOOLEAN : PrepareStorage(ok)
           \/ \E ok \in BOOLEAN, started \in BOOLEAN : PrepareCache(ok, started)
<1>1. counters \in Counts
  BY Types
<1> QED
  BY <1>1, CountersSteps
     DEF Counts, NewFault, Turn, Arm, CloneAppears, Restart

\* A status with some of its fields replaced by values of their types is one.
LEMMA StatusUpdates ==
    ASSUME NEW w \in Statuses
    PROVE  /\ \A b \in BOOLEAN, e \in 0..MaxEpochs : [w EXCEPT !.failed = b, !.epoch = e] \in Statuses
           /\ \A e \in 0..MaxEpochs : [w EXCEPT !.epoch = e] \in Statuses
           /\ \A b \in BOOLEAN : [w EXCEPT !.paused = b] \in Statuses
           /\ \A b \in BOOLEAN : [w EXCEPT !.engine = b] \in Statuses
           /\ \A b \in BOOLEAN, e \in 0..MaxEpochs : [w EXCEPT !.draining = b, !.epoch = e] \in Statuses
           /\ \A a, b \in BOOLEAN, e \in 0..MaxEpochs : [w EXCEPT !.up = a, !.epoch = e, !.engine = b] \in Statuses
           /\ \A a, b, c \in BOOLEAN : [w EXCEPT !.up = a, !.draining = b, !.failed = c] \in Statuses
<1>1. \A b \in BOOLEAN, e \in 0..MaxEpochs : [w EXCEPT !.failed = b, !.epoch = e] \in Statuses
  BY DEF Statuses
<1>2. \A e \in 0..MaxEpochs : [w EXCEPT !.epoch = e] \in Statuses
  BY DEF Statuses
<1>3. \A b \in BOOLEAN : [w EXCEPT !.paused = b] \in Statuses
  BY DEF Statuses
<1>4. \A b \in BOOLEAN : [w EXCEPT !.engine = b] \in Statuses
  BY DEF Statuses
<1>5. \A b \in BOOLEAN, e \in 0..MaxEpochs : [w EXCEPT !.draining = b, !.epoch = e] \in Statuses
  BY DEF Statuses
<1>6. \A a, b \in BOOLEAN, e \in 0..MaxEpochs : [w EXCEPT !.up = a, !.epoch = e, !.engine = b] \in Statuses
  BY DEF Statuses
<1>7. \A a, b, c \in BOOLEAN : [w EXCEPT !.up = a, !.draining = b, !.failed = c] \in Statuses
  BY DEF Statuses
<1> QED
  BY <1>1, <1>2, <1>3, <1>4, <1>5, <1>6, <1>7

\* Cancelling and releasing keep the leases well formed.
LEMMA LeaseUpdates ==
    ASSUME lease \in [Kinds -> Leases]
    PROVE  /\ Cancelled(lease) \in [Kinds -> Leases]
           /\ \A k \in Kinds : \A t : Finished(k, t) \in [Kinds -> Leases]
           /\ [k \in Kinds |-> NoLease] \in [Kinds -> Leases]
<1>1. NoLease \in Leases
  BY FreshTypes
<1>2. \A k \in Kinds : lease[k] \in Leases /\ [lease[k] EXCEPT !.cancel = TRUE] \in Leases
  BY DEF Leases
<1>3. Cancelled(lease) \in [Kinds -> Leases]
  BY <1>1, <1>2 DEF Cancelled
<1> QED
  BY <1>1, <1>3 DEF Finished

\* A recovered row is a row.
LEMMA RecoveredTypes ==
    ASSUME TypeOK
    PROVE  \A f \in Families : RecoveredRow(cacheRow[f]) \in CacheRows
<1>1. \A r \in CacheRows : RecoveredRow(r) \in CacheRows
  <2>1. 0 \in 0..MaxTokens /\ "unknown" \in Outcomes
    BY BoundsAreNaturals DEF Outcomes
  <2>2. \A r \in CacheRows : [r EXCEPT !.token = 0, !.outcome = "unknown"] \in CacheRows
    BY <2>1 DEF CacheRows
  <2> QED
    BY <2>2 DEF RecoveredRow
<1> QED
  BY <1>1 DEF TypeOK

-----------------------------------------------------------------------------
(***************************************************************************)
(* Every variable keeps its type.                                          *)
(***************************************************************************)

\* The storage worker stays well formed.
LEMMA TypeSw ==
    ASSUME TypeOK, Next
    PROVE  sw' \in StorageWorkers
<1>0. /\ sw \in StorageWorkers /\ IdleStorage \in StorageWorkers /\ Ids \in SUBSET Inodes
      /\ sw.previous \in SUBSET Inodes /\ sw.last \in 0..MaxTicks /\ now \in 0..MaxTicks
      /\ sw.todo \in SUBSET Inodes /\ 0 \in 0..MaxInodes
  BY Types, StorageFields, FreshTypes
<1>1. CASE UNCHANGED sw
  BY <1>0, <1>1
<1>2. CASE StartStorage
  BY <1>0, <1>2 DEF StorageWorkers, StartStorage, IdleStorage, StoragePcs
<1>3. ASSUME NEW ok \in BOOLEAN, RecoverStorage(ok) PROVE sw' \in StorageWorkers
  <2>1. \/ sw' = [sw EXCEPT !.pc = "scan"]
        \/ sw' = [sw EXCEPT !.pc = "done"]
    BY <1>3, <1>0 DEF RecoverStorage
  <2>2. CASE sw' = [sw EXCEPT !.pc = "scan"]
    BY <1>0, <2>2 DEF StorageWorkers, StoragePcs
  <2>3. CASE sw' = [sw EXCEPT !.pc = "done"]
    BY <1>0, <2>3 DEF StorageWorkers, StoragePcs
  <2> QED
    BY <2>1, <2>2, <2>3
<1>4. ASSUME NEW ok \in BOOLEAN, NEW clear \in ClearedByGates, ScanStorage(ok, clear)
      PROVE  sw' \in StorageWorkers
  <2>1. \/ \E y \in SUBSET Inodes, p \in {"prepare", "record"} :
              sw' = [sw EXCEPT !.previous = Ids, !.plan = y, !.todo = y, !.pc = p]
        \/ sw' = [sw EXCEPT !.previous = {}, !.pc = "record"]
    BY <1>4, <1>0 DEF ScanStorage
  <2>2. ASSUME NEW y \in SUBSET Inodes, NEW p \in {"prepare", "record"},
               sw' = [sw EXCEPT !.previous = Ids, !.plan = y, !.todo = y, !.pc = p]
        PROVE  sw' \in StorageWorkers
    BY <1>0, <2>2 DEF StorageWorkers, StoragePcs
  <2>3. CASE sw' = [sw EXCEPT !.previous = {}, !.pc = "record"]
    BY <1>0, <2>3 DEF StorageWorkers, StoragePcs
  <2> QED
    BY <2>1, <2>2, <2>3
<1>5. ASSUME NEW ok \in BOOLEAN, PrepareStorage(ok) PROVE sw' \in StorageWorkers
  BY <1>5, PrepareStorageEffect
<1>6. CASE CheckStorage
  <2>1. \/ sw' = [sw EXCEPT !.pc = "rmdir"] \/ sw' = [sw EXCEPT !.pc = "unlink"]
        \/ sw' = [sw EXCEPT !.pc = "rescan", !.ok = FALSE]
        \/ \E i \in sw.todo : sw' = [sw EXCEPT !.inode = i]
    BY <1>6, <1>0 DEF CheckStorage, RemovalFails
  <2>2. CASE sw' = [sw EXCEPT !.pc = "rmdir"] \/ sw' = [sw EXCEPT !.pc = "unlink"]
    BY <1>0, <2>2, BoundsAreNaturals DEF StorageWorkers, StoragePcs, Inodes
  <2>3. CASE sw' = [sw EXCEPT !.pc = "rescan", !.ok = FALSE]
    BY <1>0, <2>3, BoundsAreNaturals DEF StorageWorkers, StoragePcs, Inodes
  <2>4. ASSUME NEW i \in sw.todo, sw' = [sw EXCEPT !.inode = i]
        PROVE  sw' \in StorageWorkers
    BY <1>0, <2>4, BoundsAreNaturals DEF StorageWorkers, StoragePcs, Inodes
  <2> QED
    BY <2>1, <2>2, <2>3, <2>4
<1>7. ASSUME NEW ok \in BOOLEAN, UnlinkFile(ok) PROVE sw' \in StorageWorkers
  <2>1. \/ sw' = [sw EXCEPT !.pc = "check"]
        \/ sw' = [sw EXCEPT !.pc = "rescan", !.ok = FALSE]
    BY <1>7, <1>0 DEF UnlinkFile, RemovalFails
  <2>2. CASE sw' = [sw EXCEPT !.pc = "check"]
    BY <1>0, <2>2 DEF StorageWorkers, StoragePcs
  <2>3. CASE sw' = [sw EXCEPT !.pc = "rescan", !.ok = FALSE]
    BY <1>0, <2>3 DEF StorageWorkers, StoragePcs
  <2> QED
    BY <2>1, <2>2, <2>3
<1>8. ASSUME NEW ok \in BOOLEAN, RemoveCandidate(ok) PROVE sw' \in StorageWorkers
  <2>1. \/ sw' = [sw EXCEPT !.pc = "rescan", !.ok = FALSE]
        \/ \E p \in {"rescan", "check"} :
              sw' = [sw EXCEPT !.todo = @ \ {sw.inode}, !.inode = 0, !.pc = p]
    BY <1>8, <1>0 DEF RemoveCandidate, RemovalFails
  <2>2. CASE sw' = [sw EXCEPT !.pc = "rescan", !.ok = FALSE]
    BY <1>0, <2>2 DEF StorageWorkers, StoragePcs
  <2>3. ASSUME NEW p \in {"rescan", "check"},
               sw' = [sw EXCEPT !.todo = @ \ {sw.inode}, !.inode = 0, !.pc = p]
        PROVE  sw' \in StorageWorkers
    BY <1>0, <2>3 DEF StorageWorkers, StoragePcs
  <2> QED
    BY <2>1, <2>2, <2>3
<1>9. ASSUME NEW ok \in BOOLEAN, RescanStorage(ok) PROVE sw' \in StorageWorkers
  <2>1. \/ \E d \in Dispositions, x \in SUBSET Inodes :
              sw' = [sw EXCEPT !.pc = "settle", !.verdict = d, !.previous = x]
    BY <1>9, <1>0 DEF RescanStorage, Verdict, Dispositions
  <2>2. ASSUME NEW d \in Dispositions, NEW x \in SUBSET Inodes,
               sw' = [sw EXCEPT !.pc = "settle", !.verdict = d, !.previous = x]
        PROVE  sw' \in StorageWorkers
    BY <1>0, <2>2 DEF StorageWorkers, StoragePcs
  <2> QED
    BY <2>1, <2>2
<1>10. ASSUME NEW ok \in BOOLEAN, SettleStorage(ok) PROVE sw' \in StorageWorkers
  BY <1>0, <1>10 DEF StorageWorkers, SettleStorage, StoragePcs
<1>11. ASSUME NEW ok \in BOOLEAN, RecordStorage(ok) PROVE sw' \in StorageWorkers
  BY <1>0, <1>11 DEF StorageWorkers, RecordStorage, StoragePcs
<1>12. CASE ReleaseStorage
  BY <1>0, <1>12 DEF StorageWorkers, ReleaseStorage, Finished, StoragePcs
<1>13. CASE CollectStorage
  BY <1>0, <1>13 DEF StorageWorkers, CollectStorage, IdleStorage, StoragePcs
<1>14. ASSUME NEW ok \in BOOLEAN, CollectPanickedStorage(ok) PROVE sw' \in StorageWorkers
  BY <1>0, <1>14 DEF StorageWorkers, CollectPanickedStorage, Finalized, FailClosed,
     Cancelled, Revoked, IdleStorage, StoragePcs
<1>15. CASE PanicStorage
  BY <1>0, <1>15 DEF StorageWorkers, PanicStorage, Finished, StoragePcs
<1>16. CASE Gone
  BY <1>0, <1>16 DEF StorageWorkers, Gone, IdleStorage, IdleCache, StoragePcs
<1> QED
  BY SwSteps, <1>1, <1>2, <1>3, <1>4, <1>5, <1>6, <1>7, <1>8, <1>9, <1>10, <1>11, <1>12,
     <1>13, <1>14, <1>15, <1>16

\* The cache worker stays well formed.
LEMMA TypeCw ==
    ASSUME TypeOK, Next
    PROVE  cw' \in CacheWorkers
<1>0. /\ cw \in CacheWorkers /\ IdleCache \in CacheWorkers
      /\ now \in 0..MaxTicks /\ 0 \in 0..MaxTokens /\ native.result \in Outcomes /\ cw.last \in 0..MaxTicks
      /\ "node" \in Families /\ {"unknown", "failed", "busy", "completed"} \subseteq Outcomes
  BY Types, CacheFields, FreshTypes DEF Families, Outcomes
<1>1. CASE UNCHANGED cw
  BY <1>0, <1>1
<1>2. CASE StartCache
  BY <1>0, <1>2 DEF CacheWorkers, StartCache, IdleCache, CachePcs
<1>3. ASSUME NEW ok \in BOOLEAN, DiscoverCache(ok) PROVE cw' \in CacheWorkers
  BY <1>0, <1>3 DEF CacheWorkers, DiscoverCache, NextFamily, CachePcs
<1>4. ASSUME NEW ok \in BOOLEAN, NEW started \in BOOLEAN, PrepareCache(ok, started)
      PROVE  cw' \in CacheWorkers
  BY <1>4, PrepareCacheEffect
<1>5. CASE WaitUv
  <2>1. \/ cw' = [cw EXCEPT !.outcome = native.result, !.pc = "settle"]
        \/ cw' = [cw EXCEPT !.pc = "reap"]
    BY <1>5, <1>0 DEF WaitUv, CacheResult
  <2>2. CASE cw' = [cw EXCEPT !.outcome = native.result, !.pc = "settle"]
    BY <1>0, <2>2 DEF CacheWorkers, CachePcs
  <2>3. CASE cw' = [cw EXCEPT !.pc = "reap"]
    BY <1>0, <2>3 DEF CacheWorkers, CachePcs
  <2> QED
    BY <2>1, <2>2, <2>3
<1>6. ASSUME NEW ok \in BOOLEAN, ReapUv(ok) PROVE cw' \in CacheWorkers
  BY <1>0, <1>6 DEF CacheWorkers, ReapUv, CacheResult, CachePcs
<1>7. ASSUME NEW ok \in BOOLEAN, RecheckNode(ok) PROVE cw' \in CacheWorkers
  BY <1>0, <1>7 DEF CacheWorkers, RecheckNode, CacheResult, CachePcs
<1>8. ASSUME NEW ok \in BOOLEAN, CheckNode(ok) PROVE cw' \in CacheWorkers
  BY <1>0, <1>8 DEF CacheWorkers, CheckNode, CacheResult, CachePcs
<1>9. ASSUME NEW ok \in BOOLEAN, UnlinkNode(ok) PROVE cw' \in CacheWorkers
  <2>1. \/ cw' = [cw EXCEPT !.pc = "check"]
        \/ cw' = [cw EXCEPT !.outcome = "unknown", !.pc = "settle"]
    BY <1>9, <1>0 DEF UnlinkNode, CacheResult
  <2>2. CASE cw' = [cw EXCEPT !.pc = "check"]
    BY <1>0, <2>2 DEF CacheWorkers, CachePcs
  <2>3. CASE cw' = [cw EXCEPT !.outcome = "unknown", !.pc = "settle"]
    BY <1>0, <2>3 DEF CacheWorkers, CachePcs
  <2> QED
    BY <2>1, <2>2, <2>3
<1>10. ASSUME NEW ok \in BOOLEAN, SettleCache(ok) PROVE cw' \in CacheWorkers
  BY <1>0, <1>10 DEF CacheWorkers, SettleCache, CachePcs
<1>11. CASE CloseAfterNode
  BY <1>0, <1>11 DEF CacheWorkers, CloseAfterNode, FailClosed, Cancelled, Revoked,
     CachePcs
<1>12. CASE ReleaseCache
  BY <1>0, <1>12 DEF CacheWorkers, ReleaseCache, Finished, NextFamily, CachePcs
<1>13. CASE EndInError
  BY <1>0, <1>13 DEF CacheWorkers, EndInError, FailClosed, Cancelled, Revoked, CachePcs
<1>14. CASE CollectCache
  BY <1>0, <1>14 DEF CacheWorkers, CollectCache, IdleCache, CachePcs
<1>15. ASSUME NEW ok \in BOOLEAN, CollectFailedCache(ok) PROVE cw' \in CacheWorkers
  BY <1>0, <1>15 DEF CacheWorkers, CollectFailedCache, RecoveredRow, FailClosed,
     Cancelled, Revoked, IdleCache, CachePcs
<1>16. CASE PanicCache
  BY <1>0, <1>16 DEF CacheWorkers, PanicCache, Finished, CachePcs
<1>17. CASE Gone
  BY <1>0, <1>17 DEF CacheWorkers, Gone, IdleStorage, IdleCache, CachePcs
<1> QED
  BY CwSteps, <1>1, <1>2, <1>3, <1>4, <1>5, <1>6, <1>7, <1>8, <1>9, <1>10, <1>11, <1>12,
     <1>13, <1>14, <1>15, <1>16, <1>17

\* The status stays well formed.
LEMMA TypeStatus ==
    ASSUME TypeOK, Next
    PROVE  status' \in Statuses
<1>0. /\ status \in Statuses /\ 0 \in 0..MaxEpochs
  BY Types, FreshTypes
<1>1. CASE UNCHANGED status
  BY <1>0, <1>1
<1>2. ASSUME NEW ok \in BOOLEAN, CollectPanickedStorage(ok) PROVE status' \in Statuses
  BY <1>0, <1>2, StatusUpdates DEF CollectPanickedStorage, Finalized, FailClosed,
     Cancelled, Revoked, IdleStorage
<1>3. CASE CloseAfterNode
  BY <1>0, <1>3, StatusUpdates DEF CloseAfterNode, FailClosed, Cancelled, Revoked
<1>4. CASE EndInError
  BY <1>0, <1>4, StatusUpdates DEF EndInError, FailClosed, Cancelled, Revoked
<1>5. ASSUME NEW ok \in BOOLEAN, CollectFailedCache(ok) PROVE status' \in Statuses
  BY <1>0, <1>5, StatusUpdates DEF CollectFailedCache, RecoveredRow, FailClosed,
     Cancelled, Revoked, IdleCache
<1>6. CASE Arm
  <2>1. \/ \E e \in 0..MaxEpochs : status' = [status EXCEPT !.epoch = e]
    BY <1>6, <1>0, CounterFields, BoundsAreNaturals DEF Arm
  <2>2. ASSUME NEW e \in 0..MaxEpochs, status' = [status EXCEPT !.epoch = e]
        PROVE  status' \in Statuses
    BY <1>0, <2>2 DEF Statuses
  <2> QED
    BY <2>1, <2>2
<1>7. ASSUME NEW change \in Changes, Withdraw(change) PROVE status' \in Statuses
  <2>1. \/ status' = [status EXCEPT !.paused = TRUE]
        \/ status' = [status EXCEPT !.epoch = 0]
        \/ status' = [status EXCEPT !.draining = TRUE, !.epoch = 0]
    BY <1>7, <1>0 DEF Withdraw, Changes
  <2>2. CASE status' = [status EXCEPT !.paused = TRUE]
    BY <1>0, <2>2 DEF Statuses
  <2>3. CASE status' = [status EXCEPT !.epoch = 0]
    BY <1>0, <2>3 DEF Statuses
  <2>4. CASE status' = [status EXCEPT !.draining = TRUE, !.epoch = 0]
    BY <1>0, <2>4 DEF Statuses
  <2> QED
    BY <2>1, <2>2, <2>3, <2>4
<1>8. CASE Resume
  BY <1>0, <1>8, StatusUpdates DEF Resume, Turn
<1>9. CASE EngineWorks
  BY <1>0, <1>9, StatusUpdates DEF EngineWorks, Turn
<1>10. CASE Gone
  BY <1>0, <1>10, StatusUpdates DEF Gone, IdleStorage, IdleCache
<1>11. CASE Restart
  BY <1>0, <1>11, StatusUpdates DEF Restart, Finalized, RecoveredRow
<1> QED
  BY StatusSteps, <1>1, <1>2, <1>3, <1>4, <1>5, <1>6, <1>7, <1>8, <1>9, <1>10, <1>11

\* The counters stay within their bounds; only a new attempt and a new clone
\* change the counts the invariant reads.
LEMMA TypeCounters ==
    ASSUME TypeOK, Next
    PROVE  /\ counters' \in Counts
           /\ counters.tokens <= counters'.tokens /\ counters.inodes <= counters'.inodes
<1>0. /\ counters \in Counts /\ counters.tokens \in Nat /\ counters.inodes \in Nat
  BY Types, CounterFields, BoundsAreNaturals
<1>1. CASE UNCHANGED counters
  BY <1>0, <1>1
<1>2. CASE Fault /\ NewFault
  <2>1. counters.faults + 1 \in 0..MaxFaults
    BY <1>2, CounterFields, BoundsAreNaturals DEF Fault
  <2> QED
    BY <1>0, <1>2, <2>1 DEF NewFault, Counts
<1>3. CASE Turn
  <2>1. counters.turns + 1 \in 0..MaxTurns
    BY <1>3, CounterFields, BoundsAreNaturals DEF Turn
  <2> QED
    BY <1>0, <1>3, <2>1 DEF Turn, Counts
<1>4. ASSUME NEW ok \in BOOLEAN, PrepareStorage(ok)
      PROVE  counters' \in Counts /\ counters'.inodes = counters.inodes
             /\ (counters'.tokens = counters.tokens \/ counters'.tokens = counters.tokens + 1)
  BY <1>4, PrepareStorageEffect
<1>5. ASSUME NEW ok \in BOOLEAN, NEW started \in BOOLEAN, PrepareCache(ok, started)
      PROVE  counters' \in Counts /\ counters'.inodes = counters.inodes
             /\ (counters'.tokens = counters.tokens \/ counters'.tokens = counters.tokens + 1)
  BY <1>5, PrepareCacheEffect
<1>6. CASE Arm
  <2>1. counters.epochs + 1 \in 0..MaxEpochs
    BY <1>6, CounterFields, BoundsAreNaturals DEF Arm
  <2> QED
    BY <1>0, <1>6, <2>1 DEF Arm, Counts
<1>7. ASSUME NEW n \in Names, CloneAppears(n)
      PROVE  counters' \in Counts /\ counters'.inodes = counters.inodes + 1
             /\ counters'.tokens = counters.tokens
  <2>1. counters.inodes + 1 \in 0..MaxInodes
    BY <1>7, CounterFields, BoundsAreNaturals DEF CloneAppears
  <2> QED
    BY <1>0, <1>7, <2>1 DEF CloneAppears, Counts
<1>8. CASE Restart
  <2>1. counters.boots + 1 \in 0..MaxBoots
    BY <1>8, CounterFields, BoundsAreNaturals DEF Restart
  <2> QED
    BY <1>0, <1>8, <2>1 DEF Restart, Counts
<1> QED
  BY <1>0, CountersSteps, <1>1, <1>2, <1>3, <1>4, <1>5, <1>6, <1>7, <1>8

\* The leases stay well formed.
LEMMA TypeLease ==
    ASSUME TypeOK, Next
    PROVE  lease' \in [Kinds -> Leases]
<1>0. /\ lease \in [Kinds -> Leases] /\ "storage" \in Kinds /\ "cache" \in Kinds
  BY Types DEF Kinds
<1>1. CASE UNCHANGED lease
  BY <1>0, <1>1
<1>2. ASSUME NEW ok \in BOOLEAN, PrepareStorage(ok) PROVE lease' \in [Kinds -> Leases]
  <2> DEFINE l == [token |-> counters.tokens + 1, epoch |-> status.epoch, cancel |-> FALSE]
  <2>1. \/ UNCHANGED lease
        \/ counters.tokens + 1 <= MaxTokens /\ lease' = [lease EXCEPT !["storage"] = l]
    BY <1>2 DEF PrepareStorage
  <2>2. counters.tokens + 1 <= MaxTokens => counters.tokens + 1 \in 0..MaxTokens
    BY CounterFields, BoundsAreNaturals
  <2>3. counters.tokens + 1 <= MaxTokens => l \in Leases
    BY <2>2, CacheFields DEF Leases
  <2> HIDE DEF l
  <2> QED
    BY <1>0, <2>1, <2>3
<1>3. CASE ReleaseStorage
  BY <1>0, <1>3, LeaseUpdates DEF ReleaseStorage
<1>4. ASSUME NEW ok \in BOOLEAN, CollectPanickedStorage(ok) PROVE lease' \in [Kinds -> Leases]
  BY <1>0, <1>4, LeaseUpdates DEF CollectPanickedStorage, Finalized, FailClosed,
     Cancelled, Revoked, IdleStorage
<1>5. CASE PanicStorage
  BY <1>0, <1>5, LeaseUpdates DEF PanicStorage
<1>6. ASSUME NEW ok \in BOOLEAN, NEW started \in BOOLEAN, PrepareCache(ok, started)
      PROVE  lease' \in [Kinds -> Leases]
  <2> DEFINE l == [token |-> counters.tokens + 1, epoch |-> status.epoch, cancel |-> FALSE]
  <2>1. \/ UNCHANGED lease
        \/ counters.tokens + 1 <= MaxTokens /\ lease' = [lease EXCEPT !["cache"] = l]
    BY <1>6 DEF PrepareCache
  <2>2. counters.tokens + 1 <= MaxTokens => counters.tokens + 1 \in 0..MaxTokens
    BY CounterFields, BoundsAreNaturals
  <2>3. counters.tokens + 1 <= MaxTokens => l \in Leases
    BY <2>2, CacheFields DEF Leases
  <2> HIDE DEF l
  <2> QED
    BY <1>0, <2>1, <2>3
<1>7. CASE CloseAfterNode
  BY <1>0, <1>7, LeaseUpdates DEF CloseAfterNode, FailClosed
<1>8. CASE ReleaseCache
  BY <1>0, <1>8, LeaseUpdates DEF ReleaseCache
<1>9. CASE EndInError
  BY <1>0, <1>9, LeaseUpdates DEF EndInError, FailClosed
<1>10. ASSUME NEW ok \in BOOLEAN, CollectFailedCache(ok) PROVE lease' \in [Kinds -> Leases]
  BY <1>0, <1>10, LeaseUpdates DEF CollectFailedCache, RecoveredRow, FailClosed,
     Cancelled, Revoked, IdleCache
<1>11. CASE PanicCache
  BY <1>0, <1>11, LeaseUpdates DEF PanicCache
<1>12. ASSUME NEW change \in Changes, Withdraw(change) PROVE lease' \in [Kinds -> Leases]
  BY <1>0, <1>12, LeaseUpdates DEF Withdraw, Changes, Turn
<1>13. CASE Gone
  BY <1>0, <1>13, LeaseUpdates DEF Gone, IdleStorage, IdleCache
<1> QED
  BY LeaseSteps, <1>1, <1>2, <1>3, <1>4, <1>5, <1>6, <1>7, <1>8, <1>9, <1>10, <1>11,
     <1>12, <1>13

\* The rows of the storage attempts stay well formed.
LEMMA TypeRows ==
    ASSUME TypeOK, Next
    PROVE  rows' \in [Tokens -> Dispositions]
<1>0. /\ rows \in [Tokens -> Dispositions] /\ sw.verdict \in Dispositions
      /\ Finalized(rows) \in [Tokens -> Dispositions] /\ "prepared" \in Dispositions
  BY Types, StorageFields DEF Finalized, Dispositions
<1>1. CASE UNCHANGED rows
  BY <1>0, <1>1
<1>2. ASSUME NEW ok \in BOOLEAN, RecoverStorage(ok) PROVE rows' \in [Tokens -> Dispositions]
  BY <1>0, <1>2 DEF RecoverStorage
<1>3. ASSUME NEW ok \in BOOLEAN, PrepareStorage(ok) PROVE rows' \in [Tokens -> Dispositions]
  BY <1>0, <1>3 DEF PrepareStorage
<1>4. ASSUME NEW ok \in BOOLEAN, SettleStorage(ok) PROVE rows' \in [Tokens -> Dispositions]
  BY <1>0, <1>4 DEF SettleStorage
<1>5. ASSUME NEW ok \in BOOLEAN, CollectPanickedStorage(ok)
      PROVE  rows' \in [Tokens -> Dispositions]
  BY <1>0, <1>5 DEF CollectPanickedStorage, Finalized, FailClosed, Cancelled,
     Revoked, IdleStorage
<1>6. CASE Restart
  BY <1>0, <1>6 DEF Restart
<1> QED
  BY RowsSteps, <1>1, <1>2, <1>3, <1>4, <1>5, <1>6

\* The rows of the caches stay well formed.
LEMMA TypeCacheRow ==
    ASSUME TypeOK, Next
    PROVE  cacheRow' \in [Families -> CacheRows]
<1>0. /\ cacheRow \in [Families -> CacheRows] /\ cw.outcome \in Outcomes /\ cw.family \in Families
      /\ 0 \in 0..MaxTokens /\ cw.at \in 0..MaxTicks /\ {"running", "unknown"} \subseteq Outcomes
      /\ \A f \in Families : RecoveredRow(cacheRow[f]) \in CacheRows
  BY Types, CacheFields, RecoveredTypes, BoundsAreNaturals DEF Outcomes
<1>1. CASE UNCHANGED cacheRow
  BY <1>0, <1>1
<1>2. ASSUME NEW ok \in BOOLEAN, NEW started \in BOOLEAN, PrepareCache(ok, started)
      PROVE  cacheRow' \in [Families -> CacheRows]
  <2> DEFINE t == counters.tokens + 1
             r == [token |-> t, id |-> t, outcome |-> "running", at |-> cw.at]
  <2>1. \/ UNCHANGED cacheRow
        \/ t <= MaxTokens /\ cacheRow' = [cacheRow EXCEPT ![cw.family] = r]
    BY <1>2 DEF PrepareCache
  <2>2. t <= MaxTokens => t \in 0..MaxTokens
    BY CounterFields, BoundsAreNaturals
  <2>3. t <= MaxTokens => r \in CacheRows
    BY <1>0, <2>2 DEF CacheRows
  <2> HIDE DEF r, t
  <2> QED
    BY <1>0, <2>1, <2>3
<1>3. ASSUME NEW ok \in BOOLEAN, SettleCache(ok) PROVE cacheRow' \in [Families -> CacheRows]
  <2> DEFINE r == [cacheRow[cw.family] EXCEPT !.token = 0, !.outcome = cw.outcome]
  <2>1. \/ UNCHANGED cacheRow
        \/ cacheRow' = [cacheRow EXCEPT ![cw.family] = r]
    BY <1>3 DEF SettleCache
  <2>2. r \in CacheRows
    BY <1>0 DEF CacheRows
  <2> HIDE DEF r
  <2> QED
    BY <1>0, <2>1, <2>2
<1>4. ASSUME NEW ok \in BOOLEAN, CollectFailedCache(ok)
      PROVE  cacheRow' \in [Families -> CacheRows]
  BY <1>0, <1>4 DEF CollectFailedCache, RecoveredRow, FailClosed, Cancelled, Revoked,
     IdleCache
<1>5. CASE Restart
  BY <1>0, <1>5 DEF Restart
<1> QED
  BY CacheRowSteps, <1>1, <1>2, <1>3, <1>4, <1>5

\* The supervisor stays well formed.
LEMMA TypeNative ==
    ASSUME TypeOK, Next
    PROVE  native' \in Natives
<1>0. /\ native \in Natives /\ NoNative \in Natives /\ {"completed", "busy", "unknown"} \subseteq Outcomes
  BY Types, FreshTypes DEF Outcomes
<1>1. CASE UNCHANGED native
  BY <1>0, <1>1
<1>2. ASSUME NEW ok \in BOOLEAN, NEW started \in BOOLEAN, PrepareCache(ok, started)
      PROVE  native' \in Natives
  <2>1. \/ UNCHANGED native
        \/ /\ counters.tokens + 1 <= MaxTokens
           /\ native' = [NoNative EXCEPT !.sup = "preflight", !.parent = TRUE, !.token = counters.tokens + 1]
    BY <1>2 DEF PrepareCache
  <2>2. counters.tokens + 1 <= MaxTokens => counters.tokens + 1 \in 0..MaxTokens
    BY CounterFields, BoundsAreNaturals
  <2> QED
    BY <1>0, <2>1, <2>2 DEF Natives
<1>3. CASE WaitUv
  BY <1>0, <1>3 DEF WaitUv, CacheResult, Natives
<1>4. ASSUME NEW ok \in BOOLEAN, ReapUv(ok) PROVE native' \in Natives
  BY <1>0, <1>4 DEF ReapUv, CacheResult, Natives
<1>5. CASE SupervisorStops
  BY <1>0, <1>5 DEF SupervisorStops, Natives
<1>6. ASSUME NEW ok \in BOOLEAN, SupervisorPreflight(ok) PROVE native' \in Natives
  BY <1>0, <1>6 DEF SupervisorPreflight, Natives
<1>7. ASSUME NEW result \in NativeResults, NativeExits(result) PROVE native' \in Natives
  <2>1. \E s \in {"exited", native.sup}, r \in {result, native.result} :
           native' = [native EXCEPT !.child = FALSE, !.sup = s, !.result = r]
    BY <1>7 DEF NativeExits
  <2>2. native.sup \in {"none", "preflight", "run", "exited", "killed"} /\ native.result \in Outcomes
        /\ result \in Outcomes
    BY <1>0, <1>7 DEF Natives, NativeResults
  <2> QED
    BY <1>0, <2>1, <2>2 DEF Natives
<1>8. CASE Gone
  BY <1>0, <1>8 DEF Gone, IdleStorage, IdleCache, Natives
<1> QED
  BY NativeSteps, <1>1, <1>2, <1>3, <1>4, <1>5, <1>6, <1>7, <1>8

\* The clones, their files, the Node bucket and the clock.
LEMMA TypeRest ==
    ASSUME TypeOK, Next
    PROVE  /\ machine' \in Machines /\ now' \in 0..MaxTicks /\ observed' \in 0..MaxTicks
           /\ linked' \in [Names -> 0..MaxInodes] /\ tree' \in [Inodes -> 0..MaxFiles]
           /\ (cw.pc # "unlink" \/ bucket > 0 => bucket' \in 0..MaxFiles)
<1>0. /\ machine \in Machines /\ now \in 0..MaxTicks /\ observed \in 0..MaxTicks
      /\ linked \in [Names -> 0..MaxInodes] /\ tree \in [Inodes -> 0..MaxFiles]
      /\ bucket \in 0..MaxFiles /\ sw.at \in 0..MaxTicks
  BY Types, StorageFields
<1>1. machine' \in Machines
  BY <1>0, MachineSteps
<1>2. now' \in 0..MaxTicks
  <2>1. CASE Tick
    BY <1>0, <2>1, CounterFields, BoundsAreNaturals DEF Tick
  <2> QED
    BY <1>0, <2>1, NowSteps
<1>3. observed' \in 0..MaxTicks
  BY <1>0, ObservedSteps DEF SettleStorage, RecordStorage
<1>4. linked' \in [Names -> 0..MaxInodes]
  <2>1. ASSUME NEW ok \in BOOLEAN, RemoveCandidate(ok) PROVE linked' \in [Names -> 0..MaxInodes]
    BY <1>0, <2>1, BoundsAreNaturals DEF RemoveCandidate
  <2>2. ASSUME NEW n \in Names, CloneAppears(n) PROVE linked' \in [Names -> 0..MaxInodes]
    BY <1>0, <2>2, CounterFields, BoundsAreNaturals DEF CloneAppears
  <2>3. ASSUME NEW n \in Names, CloneVanishes(n) PROVE linked' \in [Names -> 0..MaxInodes]
    BY <1>0, <2>3, BoundsAreNaturals DEF CloneVanishes
  <2> QED
    BY <1>0, <2>1, <2>2, <2>3, LinkedSteps
<1>5. tree' \in [Inodes -> 0..MaxFiles]
  <2>1. ASSUME NEW ok \in BOOLEAN, UnlinkFile(ok) PROVE tree' \in [Inodes -> 0..MaxFiles]
    <3>1. \/ UNCHANGED tree
          \/ tree[sw.inode] > 0 /\ tree' = [tree EXCEPT ![sw.inode] = tree[sw.inode] - 1]
      BY <2>1 DEF UnlinkFile
    <3> QED
      BY <1>0, <3>1, BoundsAreNaturals
  <2>2. ASSUME NEW n \in Names, CloneVanishes(n) PROVE tree' \in [Inodes -> 0..MaxFiles]
    <3>1. 0 \in 0..MaxFiles /\ tree' = [tree EXCEPT ![linked[n]] = 0]
      BY <2>2, BoundsAreNaturals DEF CloneVanishes
    <3> QED
      BY <1>0, <3>1
  <2> QED
    BY <1>0, <2>1, <2>2, TreeSteps
<1>6. cw.pc # "unlink" \/ bucket > 0 => bucket' \in 0..MaxFiles
  <2>1. ASSUME NEW ok \in BOOLEAN, DiscoverCache(ok) PROVE bucket' \in 0..MaxFiles
    BY <1>0, <2>1, BoundsAreNaturals DEF DiscoverCache
  <2>2. ASSUME NEW ok \in BOOLEAN, UnlinkNode(ok), cw.pc # "unlink" \/ bucket > 0
        PROVE bucket' \in 0..MaxFiles
    BY <1>0, <2>2, BoundsAreNaturals DEF UnlinkNode
  <2> QED
    BY <1>0, <2>1, <2>2, BucketSteps
<1> QED
  BY <1>1, <1>2, <1>3, <1>4, <1>5, <1>6

\* The history stays well formed: only numbered attempts remove something.
LEMMA TypeHistory ==
    ASSUME TypeOK, ThreadInv, NativeInv, Next
    PROVE  history' \in Histories
<1>0. /\ history \in Histories
  BY Types
<1>1. CASE UNCHANGED history
  BY <1>0, <1>1
<1>2. ASSUME NEW ok \in BOOLEAN, PrepareStorage(ok) PROVE history' \in Histories
  <2> DEFINE t == counters.tokens + 1
             p == [history.planned EXCEPT ![t] = sw.plan]
  <2>1. \/ UNCHANGED history
        \/ history' = [history EXCEPT !.planned = p, !.late = 0, !.revoked = FALSE]
    BY <1>2 DEF PrepareStorage
  <2>2. p \in [Tokens -> SUBSET Inodes]
    BY HistoryFields, StorageFields
  <2> HIDE DEF p
  <2>3. [history EXCEPT !.planned = p, !.late = 0, !.revoked = FALSE] \in Histories
    BY <1>0, <2>2 DEF Histories
  <2> QED
    BY <1>0, <2>1, <2>3
<1>3. ASSUME NEW ok \in BOOLEAN, UnlinkFile(ok) PROVE history' \in Histories
  <2> DEFINE x == history.touched \cup {sw.token}
             y == history.late + (IF history.revoked THEN 1 ELSE 0)
  <2>1. \/ UNCHANGED history
        \/ sw.pc = "unlink" /\ history' = [history EXCEPT !.touched = x, !.late = y]
    BY <1>3 DEF UnlinkFile, Effect
  <2>2. sw.pc = "unlink" => x \in SUBSET Tokens
    BY StorageFields, CacheFields, HistoryFields, BoundsAreNaturals
       DEF ThreadInv, StorageBusy, CacheRuns, Tokens
  <2>3. y \in Nat
    BY HistoryFields
  <2> HIDE DEF x, y
  <2>4. x \in SUBSET Tokens => [history EXCEPT !.touched = x, !.late = y] \in Histories
    BY <1>0, <2>3 DEF Histories
  <2> QED
    BY <1>0, <2>1, <2>2, <2>4
<1>4. ASSUME NEW ok \in BOOLEAN, CollectPanickedStorage(ok) PROVE history' \in Histories
  BY <1>0, <1>4, HistoryFields DEF CollectPanickedStorage, Finalized, FailClosed,
     Cancelled, Revoked, IdleStorage, Histories
<1>5. ASSUME NEW ok \in BOOLEAN, NEW started \in BOOLEAN, PrepareCache(ok, started)
      PROVE  history' \in Histories
  <2>1. \/ UNCHANGED history
        \/ history' = [history EXCEPT !.late = 0, !.revoked = FALSE]
    BY <1>5 DEF PrepareCache
  <2>2. [history EXCEPT !.late = 0, !.revoked = FALSE] \in Histories
    BY <1>0 DEF Histories
  <2> QED
    BY <1>0, <2>1, <2>2
<1>6. ASSUME NEW ok \in BOOLEAN, UnlinkNode(ok) PROVE history' \in Histories
  <2> DEFINE x == history.touched \cup {cw.token}
             y == history.late + (IF history.revoked THEN 1 ELSE 0)
  <2>1. \/ history' = [history EXCEPT !.unknown = TRUE]
        \/ cw.pc = "unlink" /\ history' = [history EXCEPT !.touched = x, !.late = y]
    BY <1>6 DEF UnlinkNode, Effect
  <2>2. cw.pc = "unlink" => x \in SUBSET Tokens
    BY StorageFields, CacheFields, HistoryFields, BoundsAreNaturals
       DEF ThreadInv, StorageBusy, CacheRuns, Tokens
  <2>3. y \in Nat
    BY HistoryFields
  <2> HIDE DEF x, y
  <2>4. x \in SUBSET Tokens => [history EXCEPT !.touched = x, !.late = y] \in Histories
    BY <1>0, <2>3 DEF Histories
  <2>5. [history EXCEPT !.unknown = TRUE] \in Histories
    BY <1>0 DEF Histories
  <2> QED
    BY <2>1, <2>2, <2>4, <2>5
<1>7. ASSUME NEW ok \in BOOLEAN, SettleCache(ok) PROVE history' \in Histories
  BY <1>0, <1>7, HistoryFields DEF SettleCache, Histories
<1>8. CASE CloseAfterNode
  BY <1>0, <1>8, HistoryFields DEF CloseAfterNode, FailClosed, Cancelled, Revoked,
     Histories
<1>9. CASE EndInError
  BY <1>0, <1>9, HistoryFields DEF EndInError, FailClosed, Cancelled, Revoked, Histories
<1>10. ASSUME NEW ok \in BOOLEAN, CollectFailedCache(ok) PROVE history' \in Histories
  BY <1>0, <1>10, HistoryFields DEF CollectFailedCache, RecoveredRow, FailClosed,
     Cancelled, Revoked, IdleCache, Histories
<1>11. CASE NativeRemoves
  <2>1. native.token \in Tokens
    BY <1>11, CacheFields, BoundsAreNaturals DEF NativeRemoves, NativeInv, Tokens
  <2> QED
    BY <1>0, <1>11, <2>1, HistoryFields DEF NativeRemoves, Histories
<1>12. ASSUME NEW change \in Changes, Withdraw(change) PROVE history' \in Histories
  BY <1>0, <1>12, HistoryFields DEF Withdraw, Changes, Turn, Cancelled, Revoked,
     Histories
<1>13. ASSUME NEW n \in Names, CloneAppears(n) PROVE history' \in Histories
  <2> DEFINE s == [history.since EXCEPT ![counters.inodes + 1] = now]
  <2>1. history' = [history EXCEPT !.since = s]
    BY <1>13 DEF CloneAppears
  <2>2. s \in [Inodes -> 0..MaxTicks]
    BY HistoryFields, Types
  <2> HIDE DEF s
  <2> QED
    BY <1>0, <2>1, <2>2 DEF Histories
<1>14. CASE Gone
  BY <1>0, <1>14, HistoryFields DEF Gone, IdleStorage, IdleCache, Histories
<1> QED
  BY HistorySteps, <1>1, <1>2, <1>3, <1>4, <1>5, <1>6, <1>7, <1>8, <1>9, <1>10, <1>11,
     <1>12, <1>13, <1>14

-----------------------------------------------------------------------------
(***************************************************************************)
(* Numbers, clones and plans.                                              *)
(***************************************************************************)

\* A step that begins no attempt gives the storage worker no other number.
LEMMA StorageTokenKept ==
    ASSUME TypeOK, counters'.tokens = counters.tokens, Next
    PROVE  sw'.token \in {sw.token, 0}
<1> USE DEF TypeOK, StorageWorkers
<1>1. CASE UNCHANGED sw
  BY <1>1
<1>2. CASE StartStorage
  BY <1>2 DEF StartStorage, IdleStorage
<1>3. ASSUME NEW ok \in BOOLEAN, RecoverStorage(ok) PROVE sw'.token \in {sw.token, 0}
  BY <1>3 DEF RecoverStorage, Finalized
<1>4. ASSUME NEW ok \in BOOLEAN, NEW clear \in ClearedByGates, ScanStorage(ok, clear)
      PROVE  sw'.token \in {sw.token, 0}
  BY <1>4 DEF ScanStorage, ClearedByGates
<1>5. ASSUME NEW ok \in BOOLEAN, PrepareStorage(ok) PROVE sw'.token \in {sw.token, 0}
  BY <1>5, NotBegun
<1>6. CASE CheckStorage
  BY <1>6, CheckStorageEffect
<1>7. ASSUME NEW ok \in BOOLEAN, UnlinkFile(ok) PROVE sw'.token \in {sw.token, 0}
  BY <1>7, UnlinkFileEffect
<1>8. ASSUME NEW ok \in BOOLEAN, RemoveCandidate(ok) PROVE sw'.token \in {sw.token, 0}
  BY <1>8 DEF RemoveCandidate, RemovalFails
<1>9. ASSUME NEW ok \in BOOLEAN, RescanStorage(ok) PROVE sw'.token \in {sw.token, 0}
  BY <1>9 DEF RescanStorage, Verdict
<1>10. ASSUME NEW ok \in BOOLEAN, SettleStorage(ok) PROVE sw'.token \in {sw.token, 0}
  BY <1>10 DEF SettleStorage
<1>11. ASSUME NEW ok \in BOOLEAN, RecordStorage(ok) PROVE sw'.token \in {sw.token, 0}
  BY <1>11 DEF RecordStorage
<1>12. CASE ReleaseStorage
  BY <1>12 DEF ReleaseStorage, Finished
<1>13. CASE CollectStorage
  BY <1>13 DEF CollectStorage, IdleStorage
<1>14. ASSUME NEW ok \in BOOLEAN, CollectPanickedStorage(ok) PROVE sw'.token \in {sw.token, 0}
  BY <1>14 DEF CollectPanickedStorage, Finalized, FailClosed, Cancelled, Revoked,
     IdleStorage
<1>15. CASE PanicStorage
  BY <1>15 DEF PanicStorage, Finished
<1>16. CASE Gone
  BY <1>16 DEF Gone, IdleStorage, IdleCache
<1> QED
  BY SwSteps, <1>1, <1>2, <1>3, <1>4, <1>5, <1>6, <1>7, <1>8, <1>9, <1>10, <1>11, <1>12,
     <1>13, <1>14, <1>15, <1>16

\* The same for the cache worker.
LEMMA CacheTokenKept ==
    ASSUME TypeOK, counters'.tokens = counters.tokens, Next
    PROVE  cw'.token \in {cw.token, 0}
<1> USE DEF TypeOK, CacheWorkers
<1>1. CASE UNCHANGED cw
  BY <1>1
<1>2. CASE StartCache
  BY <1>2 DEF StartCache, IdleCache
<1>3. ASSUME NEW ok \in BOOLEAN, DiscoverCache(ok) PROVE cw'.token \in {cw.token, 0}
  BY <1>3 DEF DiscoverCache, NextFamily
<1>4. ASSUME NEW ok \in BOOLEAN, NEW started \in BOOLEAN, PrepareCache(ok, started)
      PROVE  cw'.token \in {cw.token, 0}
  BY <1>4, NotBegun
<1>5. CASE WaitUv
  BY <1>5 DEF WaitUv, CacheResult
<1>6. ASSUME NEW ok \in BOOLEAN, ReapUv(ok) PROVE cw'.token \in {cw.token, 0}
  BY <1>6 DEF ReapUv, CacheResult
<1>7. ASSUME NEW ok \in BOOLEAN, RecheckNode(ok) PROVE cw'.token \in {cw.token, 0}
  BY <1>7 DEF RecheckNode, CacheResult
<1>8. ASSUME NEW ok \in BOOLEAN, CheckNode(ok) PROVE cw'.token \in {cw.token, 0}
  BY <1>8 DEF CheckNode, CacheResult
<1>9. ASSUME NEW ok \in BOOLEAN, UnlinkNode(ok) PROVE cw'.token \in {cw.token, 0}
  BY <1>9, UnlinkNodeEffect
<1>10. ASSUME NEW ok \in BOOLEAN, SettleCache(ok) PROVE cw'.token \in {cw.token, 0}
  BY <1>10 DEF SettleCache
<1>11. CASE CloseAfterNode
  BY <1>11 DEF CloseAfterNode, FailClosed, Cancelled, Revoked
<1>12. CASE ReleaseCache
  BY <1>12 DEF ReleaseCache, Finished, NextFamily
<1>13. CASE EndInError
  BY <1>13 DEF EndInError, FailClosed, Cancelled, Revoked
<1>14. CASE CollectCache
  BY <1>14 DEF CollectCache, IdleCache
<1>15. ASSUME NEW ok \in BOOLEAN, CollectFailedCache(ok) PROVE cw'.token \in {cw.token, 0}
  BY <1>15 DEF CollectFailedCache, RecoveredRow, FailClosed, Cancelled, Revoked,
     IdleCache
<1>16. CASE PanicCache
  BY <1>16 DEF PanicCache, Finished
<1>17. CASE Gone
  BY <1>17 DEF Gone, IdleStorage, IdleCache
<1> QED
  BY CwSteps, <1>1, <1>2, <1>3, <1>4, <1>5, <1>6, <1>7, <1>8, <1>9, <1>10, <1>11, <1>12,
     <1>13, <1>14, <1>15, <1>16, <1>17

\* The same for the supervisor.
LEMMA NativeTokenKept ==
    ASSUME TypeOK, counters'.tokens = counters.tokens, Next
    PROVE  native'.token = native.token
<1> USE DEF TypeOK, Natives
<1>1. CASE UNCHANGED native
  BY <1>1
<1>2. ASSUME NEW ok \in BOOLEAN, NEW started \in BOOLEAN, PrepareCache(ok, started)
      PROVE  native'.token = native.token
  BY <1>2, NotBegun
<1>3. CASE WaitUv
  BY <1>3 DEF WaitUv, CacheResult
<1>4. ASSUME NEW ok \in BOOLEAN, ReapUv(ok) PROVE native'.token = native.token
  BY <1>4 DEF ReapUv, CacheResult
<1>5. CASE SupervisorStops
  BY <1>5 DEF SupervisorStops
<1>6. ASSUME NEW ok \in BOOLEAN, SupervisorPreflight(ok) PROVE native'.token = native.token
  BY <1>6 DEF SupervisorPreflight
<1>7. ASSUME NEW result \in NativeResults, NativeExits(result)
      PROVE  native'.token = native.token
  BY <1>7 DEF NativeExits, NativeResults
<1>8. CASE Gone
  BY <1>8 DEF Gone, IdleStorage, IdleCache
<1> QED
  BY NativeSteps, <1>1, <1>2, <1>3, <1>4, <1>5, <1>6, <1>7, <1>8

\* The same for the rows of the caches.
LEMMA CacheIdKept ==
    ASSUME TypeOK, counters'.tokens = counters.tokens, Next
    PROVE  \A f \in Families : cacheRow'[f].id = cacheRow[f].id
<1> USE DEF TypeOK, CacheRows
<1>1. CASE UNCHANGED cacheRow
  BY <1>1
<1>2. ASSUME NEW ok \in BOOLEAN, NEW started \in BOOLEAN, PrepareCache(ok, started)
      PROVE  \A f \in Families : cacheRow'[f].id = cacheRow[f].id
  BY <1>2, NotBegun
<1>3. ASSUME NEW ok \in BOOLEAN, SettleCache(ok)
      PROVE  \A f \in Families : cacheRow'[f].id = cacheRow[f].id
  BY <1>3 DEF SettleCache
<1>4. ASSUME NEW ok \in BOOLEAN, CollectFailedCache(ok)
      PROVE  \A f \in Families : cacheRow'[f].id = cacheRow[f].id
  BY <1>4 DEF CollectFailedCache, RecoveredRow, FailClosed, Cancelled, Revoked,
     IdleCache
<1>5. CASE Restart
  BY <1>5 DEF Restart, Finalized, RecoveredRow
<1> QED
  BY CacheRowSteps, <1>1, <1>2, <1>3, <1>4, <1>5

\* The same for the rows of the storage attempts.
LEMMA RowsKept ==
    ASSUME TypeOK, CloneInv, counters'.tokens = counters.tokens, Next
    PROVE  \A t \in Tokens : (rows'[t] = "none") = (rows[t] = "none")
<1> USE DEF TypeOK
<1>1. CASE UNCHANGED rows
  BY <1>1
<1>2. ASSUME NEW ok \in BOOLEAN, RecoverStorage(ok)
      PROVE  \A t \in Tokens : (rows'[t] = "none") = (rows[t] = "none")
  BY <1>2 DEF RecoverStorage, Finalized
<1>3. ASSUME NEW ok \in BOOLEAN, PrepareStorage(ok)
      PROVE  \A t \in Tokens : (rows'[t] = "none") = (rows[t] = "none")
  BY <1>3, NotBegun
<1>4. ASSUME NEW ok \in BOOLEAN, SettleStorage(ok)
      PROVE  \A t \in Tokens : (rows'[t] = "none") = (rows[t] = "none")
  BY <1>4 DEF SettleStorage, CloneInv
<1>5. ASSUME NEW ok \in BOOLEAN, CollectPanickedStorage(ok)
      PROVE  \A t \in Tokens : (rows'[t] = "none") = (rows[t] = "none")
  BY <1>5 DEF CollectPanickedStorage, Finalized, FailClosed, Cancelled, Revoked,
     IdleStorage
<1>6. CASE Restart
  BY <1>6 DEF Restart, Finalized, RecoveredRow
<1> QED
  BY RowsSteps, <1>1, <1>2, <1>3, <1>4, <1>5, <1>6

\* Only an attempt at work removes something.
LEMMA TouchedKept ==
    ASSUME TypeOK, Next
    PROVE  \A t \in history'.touched : t \in history.touched \/ t \in {sw.token, cw.token, native.token}
<1> USE DEF TypeOK, Histories
<1>1. CASE UNCHANGED history
  BY <1>1
<1>2. ASSUME NEW ok \in BOOLEAN, PrepareStorage(ok)
      PROVE  \A t \in history'.touched : t \in history.touched \/ t \in {sw.token, cw.token, native.token}
  BY <1>2, PrepareStorageEffect
<1>3. ASSUME NEW ok \in BOOLEAN, UnlinkFile(ok)
      PROVE  \A t \in history'.touched : t \in history.touched \/ t \in {sw.token, cw.token, native.token}
  BY <1>3, UnlinkFileEffect
<1>4. ASSUME NEW ok \in BOOLEAN, CollectPanickedStorage(ok)
      PROVE  \A t \in history'.touched : t \in history.touched \/ t \in {sw.token, cw.token, native.token}
  BY <1>4 DEF CollectPanickedStorage, Finalized, FailClosed, Cancelled, Revoked,
     IdleStorage
<1>5. ASSUME NEW ok \in BOOLEAN, NEW started \in BOOLEAN, PrepareCache(ok, started)
      PROVE  \A t \in history'.touched : t \in history.touched \/ t \in {sw.token, cw.token, native.token}
  BY <1>5, PrepareCacheEffect
<1>6. ASSUME NEW ok \in BOOLEAN, UnlinkNode(ok)
      PROVE  \A t \in history'.touched : t \in history.touched \/ t \in {sw.token, cw.token, native.token}
  BY <1>6, UnlinkNodeEffect
<1>7. ASSUME NEW ok \in BOOLEAN, SettleCache(ok)
      PROVE  \A t \in history'.touched : t \in history.touched \/ t \in {sw.token, cw.token, native.token}
  BY <1>7 DEF SettleCache
<1>8. CASE CloseAfterNode
  BY <1>8 DEF CloseAfterNode, FailClosed, Cancelled, Revoked
<1>9. CASE EndInError
  BY <1>9 DEF EndInError, FailClosed, Cancelled, Revoked
<1>10. ASSUME NEW ok \in BOOLEAN, CollectFailedCache(ok)
       PROVE  \A t \in history'.touched : t \in history.touched \/ t \in {sw.token, cw.token, native.token}
  BY <1>10 DEF CollectFailedCache, RecoveredRow, FailClosed, Cancelled, Revoked,
     IdleCache
<1>11. CASE NativeRemoves
  BY <1>11 DEF NativeRemoves
<1>12. ASSUME NEW change \in Changes, Withdraw(change)
       PROVE  \A t \in history'.touched : t \in history.touched \/ t \in {sw.token, cw.token, native.token}
  BY <1>12 DEF Withdraw, Changes, Turn, Cancelled, Revoked, othersUnchanged
<1>13. ASSUME NEW n \in Names, CloneAppears(n)
       PROVE  \A t \in history'.touched : t \in history.touched \/ t \in {sw.token, cw.token, native.token}
  BY <1>13 DEF CloneAppears
<1>14. CASE Gone
  BY <1>14 DEF Gone, IdleStorage, IdleCache
<1> QED
  BY HistorySteps, <1>1, <1>2, <1>3, <1>4, <1>5, <1>6, <1>7, <1>8, <1>9, <1>10, <1>11,
     <1>12, <1>13, <1>14

\* The attempt that removes files is none that another row or the supervisor names.
LEMMA Distinct ==
    ASSUME TypeOK, ThreadInv, TokenInv, CacheInv
    PROVE  /\ sw.pc = "unlink" => /\ sw.token # native.token /\ sw.token # cw.token
                                  /\ \A f \in Families : sw.token # cacheRow[f].id
           /\ cw.pc = "unlink" => /\ cw.token # native.token /\ cw.token # cacheRow["uv"].id
                                  /\ cw.token = cacheRow["node"].id
           /\ native.token # 0 => /\ native.token # cacheRow["node"].id
                                  /\ sw.token # native.token
<1>1. /\ sw.pc = "unlink" => sw.token # 0
      /\ cw.pc = "unlink" => cw.token # 0 /\ cw.family = "node"
  BY DEF ThreadInv, StorageBusy, CacheRuns
<1>2. sw.token # 0 => sw.token \in Tokens /\ rows[sw.token] # "none"
  BY StorageFields, BoundsAreNaturals DEF Tokens, TokenInv
<1>3. \A t \in Tokens : t = cw.token \/ t = native.token \/ (\E f \in Families : t = cacheRow[f].id)
         => rows[t] = "none"
  BY DEF TokenInv
<1>4. cw.pc = "unlink" => cw.token = cacheRow["node"].id
  BY <1>1 DEF CacheInv, CacheRuns, Families
<1>5. /\ cacheRow["uv"].id # 0 => cacheRow["uv"].id # cacheRow["node"].id
      /\ native.token # 0 => native.token # cacheRow["node"].id
  BY DEF TokenInv
<1> QED
  BY <1>1, <1>2, <1>3, <1>4, <1>5

\* Every clone named so far has been counted.
LEMMA CloneNumbers ==
    ASSUME TypeOK, CloneInv, counters.inodes <= counters'.inodes, counters' \in Counts
    PROVE  /\ counters.inodes \in Nat /\ counters'.inodes \in Nat /\ 0 <= counters'.inodes
           /\ \A i \in Ids \cup sw.plan \cup sw.previous :
                 i \in Nat /\ i <= counters.inodes /\ i <= counters'.inodes
           /\ \A n \in Names : linked[n] \in Nat /\ linked[n] <= counters'.inodes
           /\ \A t \in Tokens : \A i \in history.planned[t] :
                 i \in Nat /\ i <= counters.inodes /\ i <= counters'.inodes
<1>1. counters'.inodes \in 0..MaxInodes /\ counters.inodes \in 0..MaxInodes
  BY CounterFields DEF Counts
<1>2. counters'.inodes \in Nat /\ counters.inodes \in Nat
  BY <1>1, BoundsAreNaturals
<1>3. \A n \in Names : linked[n] \in Nat /\ linked[n] <= counters.inodes
  <2>1. \A n \in Names : linked[n] \in 0..MaxInodes
    BY Types
  <2> QED
    BY <2>1, BoundsAreNaturals DEF CloneInv
<1>4. \A i \in Ids \cup sw.plan \cup sw.previous : i \in Nat /\ i <= counters.inodes
  <2>1. Inodes \subseteq Nat
    BY BoundsAreNaturals DEF Inodes
  <2>2. \A i \in Ids : i \in Nat /\ i <= counters.inodes
    BY <1>3 DEF Ids
  <2> QED
    BY <2>1, <2>2, StorageFields DEF CloneInv
<1>5. \A t \in Tokens : \A i \in history.planned[t] : i \in Nat /\ i <= counters.inodes
  <2>1. \A t \in Tokens : history.planned[t] \subseteq Inodes
    BY HistoryFields
  <2>2. Inodes \subseteq Nat
    BY BoundsAreNaturals DEF Inodes
  <2> QED
    BY <2>1, <2>2 DEF CloneInv
<1> QED
  BY <1>2, <1>3, <1>4, <1>5

\* The plan of a cycle is what the last cycle saw and this one sees again.
LEMMA ScanStorageEffect ==
    ASSUME TypeOK, NEW ok \in BOOLEAN, NEW clear \in ClearedByGates, ScanStorage(ok, clear)
    PROVE  /\ sw.pc = "scan" /\ sw'.pc \in {"prepare", "record"}
           /\ sw'.token = sw.token /\ sw'.inode = sw.inode
           /\ sw'.at = sw.at /\ sw'.last = sw.last
           /\ sw'.previous \in {Ids, {}}
           /\ \/ sw'.todo = sw'.plan /\ sw'.plan \subseteq Ids \cap sw.previous
              \/ sw'.pc = "record" /\ sw'.plan = sw.plan /\ sw'.todo = sw.todo
           /\ UNCHANGED <<machine, now, status, lease, rows, cacheRow, observed, cw,
                          native, linked, tree, bucket, history>>
<1> DEFINE plan == Ids \cap sw.previous \cap clear
           pc == IF plan # {} /\ GateOpen THEN "prepare" ELSE "record"
<1>1. sw \in StorageWorkers
  BY Types
<1>2. /\ sw.pc = "scan"
      /\ \/ sw' = [sw EXCEPT !.previous = Ids, !.plan = plan, !.todo = plan, !.pc = pc]
         \/ sw' = [sw EXCEPT !.previous = {}, !.pc = "record"]
      /\ UNCHANGED <<machine, now, status, lease, rows, cacheRow, observed, cw,
                     native, linked, tree, bucket, history>>
  BY DEF ScanStorage, storageUnchanged
<1>3. plan \subseteq Ids \cap sw.previous /\ pc \in {"prepare", "record"}
  OBVIOUS
<1> HIDE DEF plan, pc
<1>4. CASE sw' = [sw EXCEPT !.previous = Ids, !.plan = plan, !.todo = plan, !.pc = pc]
  BY <1>1, <1>2, <1>3, <1>4 DEF StorageWorkers
<1>5. CASE sw' = [sw EXCEPT !.previous = {}, !.pc = "record"]
  BY <1>1, <1>2, <1>5 DEF StorageWorkers
<1> QED
  BY <1>2, <1>4, <1>5

\* The names of a removed candidate are gone, or the removal failed.
LEMMA RemoveCandidateEffect ==
    ASSUME TypeOK, NEW ok \in BOOLEAN, RemoveCandidate(ok)
    PROVE  /\ sw.pc = "rmdir" /\ sw'.pc \in {"rescan", "check"}
           /\ sw'.token = sw.token /\ sw'.plan = sw.plan /\ sw'.todo \subseteq sw.todo
           /\ sw'.previous = sw.previous /\ sw'.at = sw.at /\ sw'.last = sw.last
           /\ sw'.inode \in {sw.inode, 0}
           /\ \A n \in Names : linked'[n] \in {linked[n], 0}
           /\ UNCHANGED <<machine, now, status, lease, rows, cacheRow, observed, cw,
                          native, tree, bucket, history>>
<1> DEFINE todo == sw.todo \ {sw.inode}
           pc == IF sw.todo = {sw.inode} THEN "rescan" ELSE "check"
<1>1. sw \in StorageWorkers /\ linked \in [Names -> 0..MaxInodes]
  BY Types
<1>2. /\ sw.pc = "rmdir"
      /\ \/ /\ linked' = [n \in Names |-> IF linked[n] = sw.inode THEN 0 ELSE linked[n]]
            /\ sw' = [sw EXCEPT !.todo = todo, !.inode = 0, !.pc = pc]
         \/ sw' = [sw EXCEPT !.pc = "rescan", !.ok = FALSE] /\ UNCHANGED linked
      /\ UNCHANGED <<machine, now, status, lease, rows, cacheRow, observed, cw,
                     native, tree, bucket, history>>
  BY DEF RemoveCandidate, RemovalFails, storageUnchanged
<1>3. \A n \in Names : linked'[n] \in {linked[n], 0}
  BY <1>1, <1>2
<1>4. todo \subseteq sw.todo /\ pc \in {"rescan", "check"}
  OBVIOUS
<1> HIDE DEF todo, pc
<1>5. CASE sw' = [sw EXCEPT !.todo = todo, !.inode = 0, !.pc = pc]
  BY <1>1, <1>2, <1>3, <1>4, <1>5 DEF StorageWorkers
<1>6. CASE sw' = [sw EXCEPT !.pc = "rescan", !.ok = FALSE]
  BY <1>1, <1>2, <1>3, <1>6 DEF StorageWorkers
<1> QED
  BY <1>2, <1>5, <1>6

\* A step that at most unlinks names and works down the plan keeps CloneInv.
LEMMA CloneKept ==
    ASSUME TypeOK, CloneInv, counters.inodes <= counters'.inodes, counters' \in Counts,
           \A n \in Names : linked'[n] \in {linked[n], 0},
           sw'.plan = sw.plan, sw'.previous = sw.previous, sw'.token = sw.token,
           sw'.todo \subseteq sw.todo, sw'.inode \in {0, sw.inode} \cup sw.todo,
           sw'.pc \in {"unlink", "rmdir"} => sw'.inode # 0,
           sw'.pc = "settle" => sw.pc = "settle" /\ sw'.verdict = sw.verdict,
           sw'.pc \in StorageBusy => sw.pc \in StorageBusy,
           history'.planned = history.planned
    PROVE  CloneInv'
<1>1. \A n \in Names : linked'[n] <= counters'.inodes
  BY CloneNumbers
<1>2. \A i \in sw'.previous \cup sw'.plan : i <= counters'.inodes
  BY CloneNumbers
<1>3. /\ sw'.todo \subseteq sw'.plan
      /\ sw'.inode # 0 => sw'.inode \in sw'.plan
  BY DEF CloneInv
<1>4. \A t \in Tokens : \A i \in history'.planned[t] : i <= counters'.inodes
  BY CloneNumbers
<1>5. /\ sw'.pc \in StorageBusy => history'.planned[sw'.token] = sw'.plan
      /\ sw'.pc = "settle" => sw'.verdict \in {"complete", "partial", "failed"}
  BY DEF CloneInv
<1>6. sw'.pc = "settle" /\ sw'.verdict \in {"complete", "partial"} => sw'.plan \cap Ids' = {}
  <2>1. Ids' \subseteq Ids
    BY DEF Ids
  <2> QED
    BY <2>1 DEF CloneInv
<1> QED
  BY <1>1, <1>2, <1>3, <1>4, <1>5, <1>6 DEF CloneInv

\* A worker that starts or ends a cycle has nothing planned.
LEMMA CloneFresh ==
    ASSUME TypeOK, CloneInv, counters.inodes <= counters'.inodes, counters' \in Counts,
           UNCHANGED linked, sw'.plan = {}, sw'.todo = {}, sw'.inode = 0,
           sw'.pc \in {"idle", "recover"}, sw'.previous \subseteq sw.previous,
           history'.planned = history.planned
    PROVE  CloneInv'
<1>1. /\ \A n \in Names : linked'[n] <= counters'.inodes
      /\ \A i \in sw'.previous \cup sw'.plan : i <= counters'.inodes
      /\ \A t \in Tokens : \A i \in history'.planned[t] : i <= counters'.inodes
  BY CloneNumbers
<1> QED
  BY <1>1 DEF CloneInv, StorageBusy

-----------------------------------------------------------------------------
(***************************************************************************)
(* Each part of the invariant is preserved.                                *)
(***************************************************************************)

\* Each pc implies whether the thread has an attempt, and of which family.
LEMMA StepThread ==
    ASSUME TypeOK, ThreadInv, Next
    PROVE  ThreadInv'
<1> USE DEF TypeOK, ThreadInv, StorageBusy, CacheRuns, Statuses, StorageWorkers,
         CacheWorkers
<1>1. CASE UNCHANGED <<status, sw, cw>>
  BY <1>1
<1>2. CASE StartStorage
  BY <1>2 DEF StartStorage, IdleStorage, storageUnchanged
<1>3. ASSUME NEW ok \in BOOLEAN, RecoverStorage(ok) PROVE ThreadInv'
  BY <1>3 DEF RecoverStorage, Finalized, storageUnchanged
<1>4. ASSUME NEW ok \in BOOLEAN, NEW clear \in ClearedByGates, ScanStorage(ok, clear)
      PROVE  ThreadInv'
  BY <1>4, ZenonT(60) DEF ScanStorage, ClearedByGates, storageUnchanged
<1>5. ASSUME NEW ok \in BOOLEAN, PrepareStorage(ok) PROVE ThreadInv'
  BY <1>5, PrepareStorageEffect
<1>6. CASE CheckStorage
  BY <1>6, CheckStorageEffect
<1>7. ASSUME NEW ok \in BOOLEAN, UnlinkFile(ok) PROVE ThreadInv'
  BY <1>7, UnlinkFileEffect
<1>8. ASSUME NEW ok \in BOOLEAN, RemoveCandidate(ok) PROVE ThreadInv'
  BY <1>8, ZenonT(60) DEF RemoveCandidate, RemovalFails, storageUnchanged
<1>9. ASSUME NEW ok \in BOOLEAN, RescanStorage(ok) PROVE ThreadInv'
  BY <1>9 DEF RescanStorage, Verdict, storageUnchanged
<1>10. ASSUME NEW ok \in BOOLEAN, SettleStorage(ok) PROVE ThreadInv'
  BY <1>10 DEF SettleStorage, storageUnchanged
<1>11. ASSUME NEW ok \in BOOLEAN, RecordStorage(ok) PROVE ThreadInv'
  BY <1>11 DEF RecordStorage, storageUnchanged
<1>12. CASE ReleaseStorage
  BY <1>12 DEF ReleaseStorage, Finished, storageUnchanged
<1>13. CASE CollectStorage
  BY <1>13 DEF CollectStorage, IdleStorage, storageUnchanged
<1>14. ASSUME NEW ok \in BOOLEAN, CollectPanickedStorage(ok) PROVE ThreadInv'
  BY <1>14 DEF CollectPanickedStorage, Finalized, FailClosed, Cancelled, Revoked,
     IdleStorage, storageUnchanged
<1>15. CASE PanicStorage
  BY <1>15 DEF PanicStorage, Finished, storageUnchanged
<1>16. CASE StartCache
  BY <1>16 DEF StartCache, IdleCache, cacheUnchanged
<1>17. ASSUME NEW ok \in BOOLEAN, DiscoverCache(ok) PROVE ThreadInv'
  BY <1>17 DEF DiscoverCache, NextFamily, cacheUnchanged
<1>18. ASSUME NEW ok \in BOOLEAN, NEW started \in BOOLEAN, PrepareCache(ok, started)
       PROVE  ThreadInv'
  <2> HIDE DEF TypeOK, ThreadInv, Statuses, StorageWorkers, CacheWorkers
  <2>1. /\ sw' = sw /\ status' = status /\ cw.pc = "prepare"
        /\ \/ /\ cw'.token # 0 /\ cw'.family = cw.family /\ cw.family \in {"uv", "node"}
              /\ cw'.pc \in {"settle", "wait", "recheck"}
              /\ cw'.pc = "wait" => cw.family = "uv"
              /\ cw'.pc = "recheck" => cw.family # "uv"
           \/ cw'.pc \in {"discover", "done", "error"}
    BY <1>18, PrepareCacheEffect, CacheFields DEF Families
  <2> QED
    BY <2>1 DEF ThreadInv
<1>19. CASE WaitUv
  BY <1>19 DEF WaitUv, CacheResult, cacheUnchanged
<1>20. ASSUME NEW ok \in BOOLEAN, ReapUv(ok) PROVE ThreadInv'
  BY <1>20 DEF ReapUv, CacheResult, cacheUnchanged
<1>21. ASSUME NEW ok \in BOOLEAN, RecheckNode(ok) PROVE ThreadInv'
  BY <1>21 DEF RecheckNode, CacheResult, cacheUnchanged
<1>22. ASSUME NEW ok \in BOOLEAN, CheckNode(ok) PROVE ThreadInv'
  BY <1>22 DEF CheckNode, CacheResult, cacheUnchanged
<1>23. ASSUME NEW ok \in BOOLEAN, UnlinkNode(ok) PROVE ThreadInv'
  BY <1>23, UnlinkNodeEffect
<1>24. ASSUME NEW ok \in BOOLEAN, SettleCache(ok) PROVE ThreadInv'
  BY <1>24 DEF SettleCache, cacheUnchanged
<1>25. CASE CloseAfterNode
  BY <1>25 DEF CloseAfterNode, FailClosed, Cancelled, Revoked, cacheUnchanged
<1>26. CASE ReleaseCache
  BY <1>26 DEF ReleaseCache, Finished, NextFamily, cacheUnchanged
<1>27. CASE EndInError
  BY <1>27 DEF EndInError, FailClosed, Cancelled, Revoked, cacheUnchanged
<1>28. CASE CollectCache
  BY <1>28 DEF CollectCache, IdleCache, cacheUnchanged
<1>29. ASSUME NEW ok \in BOOLEAN, CollectFailedCache(ok) PROVE ThreadInv'
  BY <1>29 DEF CollectFailedCache, RecoveredRow, FailClosed, Cancelled, Revoked,
     IdleCache, cacheUnchanged
<1>30. CASE PanicCache
  BY <1>30 DEF PanicCache, Finished, cacheUnchanged
<1>31. CASE Arm
  BY <1>31 DEF Arm, othersUnchanged, durable, disk
<1>32. ASSUME NEW change \in Changes, Withdraw(change) PROVE ThreadInv'
  BY <1>32 DEF Withdraw, Changes, Turn, Cancelled, Revoked, othersUnchanged, durable,
     disk
<1>33. CASE Resume
  BY <1>33 DEF Resume, Turn, othersUnchanged, durable, disk
<1>34. CASE EngineWorks
  BY <1>34 DEF EngineWorks, Turn, othersUnchanged, durable, disk
<1>35. CASE Gone
  BY <1>35 DEF Gone, IdleStorage, IdleCache, durable, disk
<1>36. CASE Restart
  BY <1>36 DEF Restart, Finalized, RecoveredRow, disk
<1> QED
  BY StatusSteps, SwSteps, CwSteps, <1>1, <1>2, <1>3, <1>4, <1>5, <1>6, <1>7, <1>8,
     <1>9, <1>10, <1>11, <1>12, <1>13, <1>14, <1>15, <1>16, <1>17, <1>18, <1>19, <1>20,
     <1>21, <1>22, <1>23, <1>24, <1>25, <1>26, <1>27, <1>28, <1>29, <1>30, <1>31, <1>32,
     <1>33, <1>34, <1>35, <1>36

\* A lease is taken under a gate that saw none, and released only by its owner.
LEMMA StepLease ==
    ASSUME TypeOK, ThreadInv, LeaseInv, Next
    PROVE  LeaseInv'
<1> USE DEF TypeOK, ThreadInv, LeaseInv, OneOwner, StorageOwns, CacheOwns, StorageBusy,
         CacheRuns, Kinds, NoLease, StorageWorkers, CacheWorkers, Leases, GateOpen,
         MaintenanceInProgress
<1>1. CASE UNCHANGED <<lease, sw, cw>>
  BY <1>1
<1>2. CASE StartStorage
  BY <1>2 DEF StartStorage, IdleStorage, storageUnchanged
<1>3. ASSUME NEW ok \in BOOLEAN, RecoverStorage(ok) PROVE LeaseInv'
  BY <1>3 DEF RecoverStorage, Finalized, storageUnchanged
<1>4. ASSUME NEW ok \in BOOLEAN, NEW clear \in ClearedByGates, ScanStorage(ok, clear)
      PROVE  LeaseInv'
  BY <1>4, ZenonT(60) DEF ScanStorage, ClearedByGates, storageUnchanged
<1>5. ASSUME NEW ok \in BOOLEAN, PrepareStorage(ok) PROVE LeaseInv'
  <2>1. CASE sw'.pc = "record"
    BY <1>5, <2>1, PrepareStorageEffect
  <2>2. CASE sw'.pc = "check"
    <3> HIDE DEF TypeOK, ThreadInv, LeaseInv, NoLease, StorageWorkers, CacheWorkers, Leases
    <3>1. /\ lease'["cache"] = NoLease /\ lease'["storage"].token = sw'.token
          /\ lease["cache"] = NoLease /\ sw'.token # 0 /\ cw' = cw
      BY <1>5, <2>2, PrepareStorageEffect, BoundsAreNaturals DEF Tokens, Kinds
    <3> QED
      BY <2>2, <3>1 DEF LeaseInv
  <2> QED
    BY <1>5, <2>1, <2>2, PrepareStorageEffect
<1>6. CASE CheckStorage
  BY <1>6, ZenonT(60) DEF CheckStorage, RemovalFails, storageUnchanged
<1>7. ASSUME NEW ok \in BOOLEAN, UnlinkFile(ok) PROVE LeaseInv'
  BY <1>7, ZenonT(60) DEF UnlinkFile, RemovalFails, Effect, storageUnchanged
<1>8. ASSUME NEW ok \in BOOLEAN, RemoveCandidate(ok) PROVE LeaseInv'
  BY <1>8, ZenonT(60) DEF RemoveCandidate, RemovalFails, storageUnchanged
<1>9. ASSUME NEW ok \in BOOLEAN, RescanStorage(ok) PROVE LeaseInv'
  BY <1>9 DEF RescanStorage, Verdict, storageUnchanged
<1>10. ASSUME NEW ok \in BOOLEAN, SettleStorage(ok) PROVE LeaseInv'
  BY <1>10 DEF SettleStorage, storageUnchanged
<1>11. ASSUME NEW ok \in BOOLEAN, RecordStorage(ok) PROVE LeaseInv'
  BY <1>11 DEF RecordStorage, storageUnchanged
<1>12. CASE ReleaseStorage
  BY <1>12 DEF ReleaseStorage, Finished, storageUnchanged
<1>13. CASE CollectStorage
  BY <1>13 DEF CollectStorage, IdleStorage, storageUnchanged
<1>14. ASSUME NEW ok \in BOOLEAN, CollectPanickedStorage(ok) PROVE LeaseInv'
  BY <1>14 DEF CollectPanickedStorage, Finalized, FailClosed, Cancelled, Revoked,
     IdleStorage, storageUnchanged
<1>15. CASE PanicStorage
  BY <1>15 DEF PanicStorage, Finished, storageUnchanged
<1>16. CASE StartCache
  BY <1>16 DEF StartCache, IdleCache, cacheUnchanged
<1>17. ASSUME NEW ok \in BOOLEAN, DiscoverCache(ok) PROVE LeaseInv'
  BY <1>17 DEF DiscoverCache, NextFamily, cacheUnchanged
<1>18. ASSUME NEW ok \in BOOLEAN, NEW started \in BOOLEAN, PrepareCache(ok, started)
       PROVE  LeaseInv'
  <2>1. CASE cw'.pc \in {"discover", "done", "error"}
    BY <1>18, <2>1, PrepareCacheEffect
  <2>2. CASE cw'.pc \notin {"discover", "done", "error"}
    <3> HIDE DEF TypeOK, ThreadInv, LeaseInv, NoLease, StorageWorkers, CacheWorkers, Leases
    <3>1. /\ lease'["storage"] = NoLease /\ cw'.token # 0
          /\ lease["storage"] = NoLease /\ lease["cache"] = NoLease /\ sw' = sw
          /\ cw'.pc \in {"settle", "wait", "recheck"}
          /\ cw'.pc = "settle" => cw'.family # "node"
          /\ lease'["cache"].token = cw'.token \/ lease'["cache"] = NoLease
          /\ cw'.pc # "settle" => lease'["cache"].token = cw'.token
      BY <1>18, <2>2, PrepareCacheEffect, BoundsAreNaturals DEF Tokens, Kinds
    <3> QED
      BY <2>2, <3>1 DEF LeaseInv
  <2> QED
    BY <2>1, <2>2
<1>19. CASE WaitUv
  BY <1>19, ZenonT(60) DEF WaitUv, CacheResult, cacheUnchanged
<1>20. ASSUME NEW ok \in BOOLEAN, ReapUv(ok) PROVE LeaseInv'
  BY <1>20 DEF ReapUv, CacheResult, cacheUnchanged
<1>21. ASSUME NEW ok \in BOOLEAN, RecheckNode(ok) PROVE LeaseInv'
  BY <1>21 DEF RecheckNode, CacheResult, cacheUnchanged
<1>22. ASSUME NEW ok \in BOOLEAN, CheckNode(ok) PROVE LeaseInv'
  BY <1>22 DEF CheckNode, CacheResult, cacheUnchanged
<1>23. ASSUME NEW ok \in BOOLEAN, UnlinkNode(ok) PROVE LeaseInv'
  BY <1>23, ZenonT(60) DEF UnlinkNode, CacheResult, Effect, cacheUnchanged
<1>24. ASSUME NEW ok \in BOOLEAN, SettleCache(ok) PROVE LeaseInv'
  BY <1>24 DEF SettleCache, cacheUnchanged
<1>25. CASE CloseAfterNode
  BY <1>25 DEF CloseAfterNode, FailClosed, Cancelled, Revoked, cacheUnchanged
<1>26. CASE ReleaseCache
  BY <1>26 DEF ReleaseCache, Finished, NextFamily, cacheUnchanged
<1>27. CASE EndInError
  BY <1>27 DEF EndInError, FailClosed, Cancelled, Revoked, cacheUnchanged
<1>28. CASE CollectCache
  BY <1>28 DEF CollectCache, IdleCache, cacheUnchanged
<1>29. ASSUME NEW ok \in BOOLEAN, CollectFailedCache(ok) PROVE LeaseInv'
  BY <1>29 DEF CollectFailedCache, RecoveredRow, FailClosed, Cancelled, Revoked,
     IdleCache, cacheUnchanged
<1>30. CASE PanicCache
  BY <1>30 DEF PanicCache, Finished, cacheUnchanged
<1>31. ASSUME NEW change \in Changes, Withdraw(change) PROVE LeaseInv'
  BY <1>31 DEF Withdraw, Changes, Turn, Cancelled, Revoked, othersUnchanged, durable,
     disk
<1>32. CASE Gone
  BY <1>32 DEF Gone, IdleStorage, IdleCache, durable, disk
<1> QED
  BY LeaseSteps, SwSteps, CwSteps, <1>1, <1>2, <1>3, <1>4, <1>5, <1>6, <1>7, <1>8, <1>9,
     <1>10, <1>11, <1>12, <1>13, <1>14, <1>15, <1>16, <1>17, <1>18, <1>19, <1>20, <1>21,
     <1>22, <1>23, <1>24, <1>25, <1>26, <1>27, <1>28, <1>29, <1>30, <1>31, <1>32

\* Every withdrawal cancels the leases it finds, so no check passes after it and
\* the one removal already checked is the only late one.
LEMMA StepLate ==
    ASSUME TypeOK, ThreadInv, LeaseInv, LateInv, Next
    PROVE  LateInv'
<1> USE DEF TypeOK, ThreadInv, LeaseInv, OneOwner, StorageOwns, CacheOwns, LateInv,
         StorageBusy, CacheRuns, Kinds, NoLease, StorageWorkers, CacheWorkers, Leases,
         Histories, StorageMayContinue, CacheCancelled, MayContinue
<1>1. CASE UNCHANGED <<history, lease, sw, cw>>
  BY <1>1
<1>2. CASE StartStorage
  BY <1>2 DEF StartStorage, IdleStorage, storageUnchanged
<1>3. ASSUME NEW ok \in BOOLEAN, RecoverStorage(ok) PROVE LateInv'
  BY <1>3 DEF RecoverStorage, Finalized, storageUnchanged
<1>4. ASSUME NEW ok \in BOOLEAN, NEW clear \in ClearedByGates, ScanStorage(ok, clear)
      PROVE  LateInv'
  BY <1>4 DEF ScanStorage, ClearedByGates, storageUnchanged
<1>5. ASSUME NEW ok \in BOOLEAN, PrepareStorage(ok) PROVE LateInv'
  BY <1>5, PrepareStorageEffect, ZenonT(60)
<1>6. CASE CheckStorage
  BY <1>6, CheckStorageEffect
<1>7. ASSUME NEW ok \in BOOLEAN, UnlinkFile(ok) PROVE LateInv'
  BY <1>7, UnlinkFileEffect
<1>8. ASSUME NEW ok \in BOOLEAN, RemoveCandidate(ok) PROVE LateInv'
  BY <1>8, ZenonT(60) DEF RemoveCandidate, RemovalFails, storageUnchanged
<1>9. ASSUME NEW ok \in BOOLEAN, RescanStorage(ok) PROVE LateInv'
  BY <1>9 DEF RescanStorage, Verdict, storageUnchanged
<1>10. ASSUME NEW ok \in BOOLEAN, SettleStorage(ok) PROVE LateInv'
  BY <1>10 DEF SettleStorage, storageUnchanged
<1>11. ASSUME NEW ok \in BOOLEAN, RecordStorage(ok) PROVE LateInv'
  BY <1>11 DEF RecordStorage, storageUnchanged
<1>12. CASE ReleaseStorage
  BY <1>12 DEF ReleaseStorage, Finished, storageUnchanged
<1>13. CASE CollectStorage
  BY <1>13 DEF CollectStorage, IdleStorage, storageUnchanged
<1>14. ASSUME NEW ok \in BOOLEAN, CollectPanickedStorage(ok) PROVE LateInv'
  BY <1>14 DEF CollectPanickedStorage, Finalized, FailClosed, Cancelled, Revoked,
     IdleStorage, storageUnchanged
<1>15. CASE PanicStorage
  BY <1>15 DEF PanicStorage, Finished, storageUnchanged
<1>16. CASE StartCache
  BY <1>16 DEF StartCache, IdleCache, cacheUnchanged
<1>17. ASSUME NEW ok \in BOOLEAN, DiscoverCache(ok) PROVE LateInv'
  BY <1>17 DEF DiscoverCache, NextFamily, cacheUnchanged
<1>18. ASSUME NEW ok \in BOOLEAN, NEW started \in BOOLEAN, PrepareCache(ok, started)
       PROVE  LateInv'
  BY <1>18, PrepareCacheEffect
<1>19. CASE WaitUv
  BY <1>19 DEF WaitUv, CacheResult, cacheUnchanged
<1>20. ASSUME NEW ok \in BOOLEAN, ReapUv(ok) PROVE LateInv'
  BY <1>20 DEF ReapUv, CacheResult, cacheUnchanged
<1>21. ASSUME NEW ok \in BOOLEAN, RecheckNode(ok) PROVE LateInv'
  BY <1>21 DEF RecheckNode, CacheResult, cacheUnchanged
<1>22. ASSUME NEW ok \in BOOLEAN, CheckNode(ok) PROVE LateInv'
  BY <1>22 DEF CheckNode, CacheResult, cacheUnchanged
<1>23. ASSUME NEW ok \in BOOLEAN, UnlinkNode(ok) PROVE LateInv'
  BY <1>23, UnlinkNodeEffect
<1>24. ASSUME NEW ok \in BOOLEAN, SettleCache(ok) PROVE LateInv'
  BY <1>24 DEF SettleCache, cacheUnchanged
<1>25. CASE CloseAfterNode
  BY <1>25 DEF CloseAfterNode, FailClosed, Cancelled, Revoked, cacheUnchanged
<1>26. CASE ReleaseCache
  BY <1>26 DEF ReleaseCache, Finished, NextFamily, cacheUnchanged
<1>27. CASE EndInError
  BY <1>27 DEF EndInError, FailClosed, Cancelled, Revoked, cacheUnchanged
<1>28. CASE CollectCache
  BY <1>28 DEF CollectCache, IdleCache, cacheUnchanged
<1>29. ASSUME NEW ok \in BOOLEAN, CollectFailedCache(ok) PROVE LateInv'
  BY <1>29 DEF CollectFailedCache, RecoveredRow, FailClosed, Cancelled, Revoked,
     IdleCache, cacheUnchanged
<1>30. CASE PanicCache
  BY <1>30 DEF PanicCache, Finished, cacheUnchanged
<1>31. CASE NativeRemoves
  BY <1>31 DEF NativeRemoves, cacheUnchanged
<1>32. ASSUME NEW change \in Changes, Withdraw(change) PROVE LateInv'
  BY <1>32 DEF Withdraw, Changes, Turn, Cancelled, Revoked, othersUnchanged, durable,
     disk
<1>33. ASSUME NEW n \in Names, CloneAppears(n) PROVE LateInv'
  BY <1>33 DEF CloneAppears, durable
<1>34. CASE Gone
  BY <1>34 DEF Gone, IdleStorage, IdleCache, durable, disk
<1> QED
  BY HistorySteps, LeaseSteps, SwSteps, CwSteps, <1>1, <1>2, <1>3, <1>4, <1>5, <1>6,
     <1>7, <1>8, <1>9, <1>10, <1>11, <1>12, <1>13, <1>14, <1>15, <1>16, <1>17, <1>18,
     <1>19, <1>20, <1>21, <1>22, <1>23, <1>24, <1>25, <1>26, <1>27, <1>28, <1>29, <1>30,
     <1>31, <1>32, <1>33, <1>34

\* From the failed unlinkat to fail_closed the worker is at one of five places,
\* and its row is settled only on the way to "close".
LEMMA StepUnknown ==
    ASSUME TypeOK, ThreadInv, CacheInv, UnknownInv, Next
    PROVE  UnknownInv'
<1> USE DEF TypeOK, ThreadInv, UnknownInv, Statuses, CacheWorkers, Histories
<1>1. CASE UNCHANGED <<status, history, cw, cacheRow>>
  BY <1>1
<1>2. ASSUME NEW ok \in BOOLEAN, PrepareStorage(ok) PROVE UnknownInv'
  BY <1>2, PrepareStorageEffect
<1>3. ASSUME NEW ok \in BOOLEAN, UnlinkFile(ok) PROVE UnknownInv'
  BY <1>3, UnlinkFileEffect
<1>4. ASSUME NEW ok \in BOOLEAN, CollectPanickedStorage(ok) PROVE UnknownInv'
  BY <1>4 DEF CollectPanickedStorage, Finalized, FailClosed, Cancelled, Revoked,
     IdleStorage, storageUnchanged
<1>5. CASE StartCache
  BY <1>5 DEF StartCache, IdleCache, cacheUnchanged
<1>6. ASSUME NEW ok \in BOOLEAN, DiscoverCache(ok) PROVE UnknownInv'
  BY <1>6 DEF DiscoverCache, NextFamily, cacheUnchanged
<1>7. ASSUME NEW ok \in BOOLEAN, NEW started \in BOOLEAN, PrepareCache(ok, started)
      PROVE  UnknownInv'
  BY <1>7, PrepareCacheEffect
<1>8. CASE WaitUv
  BY <1>8 DEF WaitUv, CacheResult, cacheUnchanged
<1>9. ASSUME NEW ok \in BOOLEAN, ReapUv(ok) PROVE UnknownInv'
  BY <1>9 DEF ReapUv, CacheResult, cacheUnchanged
<1>10. ASSUME NEW ok \in BOOLEAN, RecheckNode(ok) PROVE UnknownInv'
  BY <1>10 DEF RecheckNode, CacheResult, cacheUnchanged
<1>11. ASSUME NEW ok \in BOOLEAN, CheckNode(ok) PROVE UnknownInv'
  BY <1>11 DEF CheckNode, CacheResult, cacheUnchanged
<1>12. ASSUME NEW ok \in BOOLEAN, UnlinkNode(ok) PROVE UnknownInv'
  BY <1>12, UnlinkNodeEffect, ZenonT(60) DEF CacheInv, CacheRuns
<1>13. ASSUME NEW ok \in BOOLEAN, SettleCache(ok) PROVE UnknownInv'
  BY <1>13 DEF SettleCache, cacheUnchanged
<1>14. CASE CloseAfterNode
  BY <1>14 DEF CloseAfterNode, FailClosed, Cancelled, Revoked, cacheUnchanged
<1>15. CASE ReleaseCache
  BY <1>15 DEF ReleaseCache, Finished, NextFamily, cacheUnchanged
<1>16. CASE EndInError
  BY <1>16 DEF EndInError, FailClosed, Cancelled, Revoked, cacheUnchanged
<1>17. CASE CollectCache
  BY <1>17 DEF CollectCache, IdleCache, cacheUnchanged
<1>18. ASSUME NEW ok \in BOOLEAN, CollectFailedCache(ok) PROVE UnknownInv'
  BY <1>18 DEF CollectFailedCache, RecoveredRow, FailClosed, Cancelled, Revoked,
     IdleCache, cacheUnchanged
<1>19. CASE PanicCache
  BY <1>19 DEF PanicCache, Finished, cacheUnchanged
<1>20. CASE NativeRemoves
  BY <1>20 DEF NativeRemoves, cacheUnchanged
<1>21. CASE Arm
  BY <1>21 DEF Arm, othersUnchanged, durable, disk
<1>22. ASSUME NEW change \in Changes, Withdraw(change) PROVE UnknownInv'
  BY <1>22 DEF Withdraw, Changes, Turn, Cancelled, Revoked, othersUnchanged, durable,
     disk
<1>23. CASE Resume
  BY <1>23 DEF Resume, Turn, othersUnchanged, durable, disk
<1>24. CASE EngineWorks
  BY <1>24 DEF EngineWorks, Turn, othersUnchanged, durable, disk
<1>25. ASSUME NEW n \in Names, CloneAppears(n) PROVE UnknownInv'
  BY <1>25 DEF CloneAppears, durable
<1>26. CASE Gone
  BY <1>26 DEF Gone, IdleStorage, IdleCache, durable, disk
<1>27. CASE Restart
  BY <1>27 DEF Restart, Finalized, RecoveredRow, disk
<1> QED
  BY StatusSteps, HistorySteps, CwSteps, CacheRowSteps, <1>1, <1>2, <1>3, <1>4, <1>5, <1>6, <1>7, <1>8,
     <1>9, <1>10, <1>11, <1>12, <1>13, <1>14, <1>15, <1>16, <1>17, <1>18, <1>19, <1>20,
     <1>21, <1>22, <1>23, <1>24, <1>25, <1>26, <1>27

\* Attempts are numbered once, across both workers, their rows and restarts.
LEMMA StepToken ==
    ASSUME TypeOK, CloneInv, TokenInv, Next
    PROVE  TokenInv'
<1>0. /\ counters.tokens \in Nat /\ counters'.tokens \in Nat
      /\ sw.token \in Nat /\ cw.token \in Nat /\ native.token \in Nat
      /\ \A f \in Families : cacheRow[f].id \in Nat
      /\ counters.tokens <= counters'.tokens /\ \A t \in Tokens : t \in Nat /\ t # 0
  <2>1. \A f \in Families : cacheRow[f].id \in 0..MaxTokens
    BY Types DEF CacheRows
  <2>2. counters'.tokens \in 0..MaxTokens /\ counters.tokens <= counters'.tokens
    BY TypeCounters DEF Counts
  <2> QED
    BY <2>1, <2>2, CounterFields, StorageFields, CacheFields, BoundsAreNaturals DEF Tokens
<1>1. CASE counters'.tokens = counters.tokens
  <2>1. /\ sw'.token \in {sw.token, 0} /\ cw'.token \in {cw.token, 0}
        /\ native'.token = native.token
        /\ \A f \in Families : cacheRow'[f].id = cacheRow[f].id
        /\ \A t \in Tokens : (rows'[t] = "none") = (rows[t] = "none")
        /\ \A t \in history'.touched :
              t \in history.touched \/ t \in {sw.token, cw.token, native.token}
    BY <1>1, StorageTokenKept, CacheTokenKept, NativeTokenKept, CacheIdKept, RowsKept,
       TouchedKept
  <2>2. /\ sw'.token <= counters'.tokens /\ cw'.token <= counters'.tokens
        /\ native'.token <= counters'.tokens
        /\ \A f \in Families : cacheRow'[f].id <= counters'.tokens
    BY <1>0, <1>1, <2>1 DEF TokenInv
  <2>3. \A t \in Tokens : t > counters'.tokens => rows'[t] = "none" /\ t \notin history'.touched
    BY <1>0, <1>1, <2>1 DEF TokenInv
  <2>4. sw'.token # 0 => rows'[sw'.token] # "none"
    <3>1. sw'.token # 0 => sw'.token = sw.token /\ sw.token \in Tokens
      BY <2>1, StorageFields, BoundsAreNaturals DEF Tokens
    <3> QED
      BY <2>1, <3>1 DEF TokenInv
  <2>5. \A t \in Tokens : t = cw'.token \/ t = native'.token \/ (\E f \in Families : t = cacheRow'[f].id)
           => rows'[t] = "none"
    BY <1>0, <2>1 DEF TokenInv
  <2>6. /\ cacheRow'["uv"].id # 0 => cacheRow'["uv"].id # cacheRow'["node"].id
        /\ native'.token # 0 => native'.token # cacheRow'["node"].id
    BY <2>1 DEF TokenInv, Families
  <2> QED
    BY <2>2, <2>3, <2>4, <2>5, <2>6 DEF TokenInv
<1>2. ASSUME NEW ok \in BOOLEAN, PrepareStorage(ok), counters'.tokens # counters.tokens
      PROVE  TokenInv'
  <2> DEFINE t == counters.tokens + 1
  <2>1. /\ counters'.tokens = t /\ t \in Tokens /\ sw'.token = t
        /\ rows' = [Finalized(rows) EXCEPT ![t] = "prepared"]
        /\ history'.touched = history.touched /\ UNCHANGED <<cw, native, cacheRow>>
    BY <1>2, PrepareStorageEffect
  <2>2. \A u \in Tokens : u # t => ((rows'[u] = "none") = (rows[u] = "none"))
    BY <2>1, Types DEF Finalized
  <2>3. rows'[t] = "prepared"
    BY <2>1, Types DEF Finalized
  <2> HIDE DEF t
  <2>4. t = counters.tokens + 1
    BY DEF t
  <2>5. /\ sw'.token <= counters'.tokens /\ cw'.token <= counters'.tokens
        /\ native'.token <= counters'.tokens
        /\ \A f \in Families : cacheRow'[f].id <= counters'.tokens
    BY <1>0, <2>1, <2>4 DEF TokenInv
  <2>6. \A u \in Tokens : u > counters'.tokens => rows'[u] = "none" /\ u \notin history'.touched
    BY <1>0, <2>1, <2>2, <2>4 DEF TokenInv
  <2>7. \A u \in Tokens : u = cw'.token \/ u = native'.token \/ (\E f \in Families : u = cacheRow'[f].id)
           => rows'[u] = "none"
    BY <1>0, <2>1, <2>2, <2>4 DEF TokenInv
  <2> QED
    BY <2>1, <2>3, <2>5, <2>6, <2>7 DEF TokenInv
<1>3. ASSUME NEW ok \in BOOLEAN, NEW started \in BOOLEAN, PrepareCache(ok, started),
             counters'.tokens # counters.tokens
      PROVE  TokenInv'
  <2> DEFINE t == counters.tokens + 1
  <2>1. /\ counters'.tokens = t /\ t \in Tokens /\ cw'.token = t
        /\ history'.touched = history.touched /\ UNCHANGED <<sw, rows>>
        /\ cacheRow' = [cacheRow EXCEPT ![cw.family] =
              [token |-> t, id |-> t, outcome |-> "running", at |-> cw.at]]
        /\ native' = IF cw.family = "uv" /\ started
                     THEN [sup |-> "preflight", child |-> FALSE, parent |-> TRUE,
                           result |-> "none", token |-> t]
                     ELSE native
    BY <1>3, PrepareCacheEffect
  <2>3. (cw.family = "uv" /\ native'.token = t) \/ native'.token = native.token
    BY <2>1
  <2>2. /\ cw.family \in Families
        /\ \A f \in Families : cacheRow'[f].id = IF f = cw.family THEN t ELSE cacheRow[f].id
    BY <2>1, Types, CacheFields
  <2> HIDE DEF t
  <2>4. t = counters.tokens + 1
    BY DEF t
  <2>5. /\ sw'.token <= counters'.tokens /\ cw'.token <= counters'.tokens
        /\ native'.token <= counters'.tokens
        /\ \A f \in Families : cacheRow'[f].id <= counters'.tokens
    BY <1>0, <2>1, <2>2, <2>3, <2>4 DEF TokenInv
  <2>6. \A u \in Tokens : u > counters'.tokens => rows'[u] = "none" /\ u \notin history'.touched
    BY <1>0, <2>1, <2>4 DEF TokenInv
  <2>7. \A u \in Tokens : u = cw'.token \/ u = native'.token \/ (\E f \in Families : u = cacheRow'[f].id)
           => rows'[u] = "none"
    BY <1>0, <2>1, <2>2, <2>3, <2>4 DEF TokenInv
  <2>8. /\ cacheRow'["uv"].id # 0 => cacheRow'["uv"].id # cacheRow'["node"].id
        /\ native'.token # 0 => native'.token # cacheRow'["node"].id
    BY <1>0, <2>1, <2>2, <2>3, <2>4 DEF TokenInv, Families
  <2> QED
    BY <2>1, <2>5, <2>6, <2>7, <2>8 DEF TokenInv
<1> QED
  BY <1>1, <1>2, <1>3, TokensBegun

\* What the supervisor reports is true of its child.
LEMMA StepNative ==
    ASSUME TypeOK, ThreadInv, TokenInv, CacheInv, NativeInv, Next
    PROVE  NativeInv'
<1> USE DEF TypeOK, ThreadInv, NativeInv, Natives, CacheWorkers, Histories
<1>1. CASE UNCHANGED <<native, history, cw>>
  BY <1>1
<1>2. ASSUME NEW ok \in BOOLEAN, PrepareStorage(ok) PROVE NativeInv'
  BY <1>2, PrepareStorageEffect
<1>3. ASSUME NEW ok \in BOOLEAN, UnlinkFile(ok) PROVE NativeInv'
  BY <1>3, UnlinkFileEffect, Distinct
<1>4. ASSUME NEW ok \in BOOLEAN, CollectPanickedStorage(ok) PROVE NativeInv'
  BY <1>4 DEF CollectPanickedStorage, Finalized, FailClosed, Cancelled, Revoked,
     IdleStorage, storageUnchanged
<1>5. CASE StartCache
  BY <1>5 DEF StartCache, IdleCache, cacheUnchanged
<1>6. ASSUME NEW ok \in BOOLEAN, DiscoverCache(ok) PROVE NativeInv'
  BY <1>6 DEF DiscoverCache, NextFamily, cacheUnchanged
<1>7. ASSUME NEW ok \in BOOLEAN, NEW started \in BOOLEAN, PrepareCache(ok, started)
      PROVE  NativeInv'
  <2> HIDE DEF TypeOK, ThreadInv, NativeInv, Natives, CacheWorkers, Histories
  <2>1. CASE cw'.pc \in {"discover", "done", "error"}
    BY <1>7, <2>1, PrepareCacheEffect DEF NativeInv
  <2>2. CASE cw'.pc \notin {"discover", "done", "error"}
    <3> DEFINE t == counters.tokens + 1
    <3>1. /\ cw'.pc = IF ~started THEN "settle" ELSE IF cw.family = "uv" THEN "wait" ELSE "recheck"
          /\ cw'.token = t /\ t # 0 /\ history'.touched = history.touched
          /\ native' = IF cw.family = "uv" /\ started
                       THEN [sup |-> "preflight", child |-> FALSE, parent |-> TRUE,
                             result |-> "none", token |-> t]
                       ELSE native
      BY <1>7, <2>2, PrepareCacheEffect
    <3> HIDE DEF t
    <3> QED
      BY <3>1 DEF NativeInv
  <2> QED
    BY <2>1, <2>2
<1>8. CASE WaitUv
  BY <1>8, ZenonT(60) DEF WaitUv, CacheResult, cacheUnchanged
<1>9. ASSUME NEW ok \in BOOLEAN, ReapUv(ok) PROVE NativeInv'
  BY <1>9 DEF ReapUv, CacheResult, cacheUnchanged
<1>10. ASSUME NEW ok \in BOOLEAN, RecheckNode(ok) PROVE NativeInv'
  BY <1>10 DEF RecheckNode, CacheResult, cacheUnchanged
<1>11. ASSUME NEW ok \in BOOLEAN, CheckNode(ok) PROVE NativeInv'
  BY <1>11 DEF CheckNode, CacheResult, cacheUnchanged
<1>12. ASSUME NEW ok \in BOOLEAN, UnlinkNode(ok) PROVE NativeInv'
  BY <1>12, UnlinkNodeEffect, Distinct
<1>13. ASSUME NEW ok \in BOOLEAN, SettleCache(ok) PROVE NativeInv'
  BY <1>13 DEF SettleCache, cacheUnchanged
<1>14. CASE CloseAfterNode
  BY <1>14 DEF CloseAfterNode, FailClosed, Cancelled, Revoked, cacheUnchanged
<1>15. CASE ReleaseCache
  BY <1>15 DEF ReleaseCache, Finished, NextFamily, cacheUnchanged
<1>16. CASE EndInError
  BY <1>16 DEF EndInError, FailClosed, Cancelled, Revoked, cacheUnchanged
<1>17. CASE CollectCache
  BY <1>17 DEF CollectCache, IdleCache, cacheUnchanged
<1>18. ASSUME NEW ok \in BOOLEAN, CollectFailedCache(ok) PROVE NativeInv'
  BY <1>18 DEF CollectFailedCache, RecoveredRow, FailClosed, Cancelled, Revoked,
     IdleCache, cacheUnchanged
<1>19. CASE PanicCache
  BY <1>19 DEF PanicCache, Finished, cacheUnchanged
<1>20. CASE NativeRemoves
  BY <1>20 DEF NativeRemoves, cacheUnchanged
<1>21. CASE SupervisorStops
  BY <1>21 DEF SupervisorStops, cacheUnchanged
<1>22. ASSUME NEW ok \in BOOLEAN, SupervisorPreflight(ok) PROVE NativeInv'
  BY <1>22 DEF SupervisorPreflight, cacheUnchanged
<1>23. ASSUME NEW result \in NativeResults, NativeExits(result) PROVE NativeInv'
  BY <1>23 DEF NativeExits, NativeResults, cacheUnchanged
<1>24. ASSUME NEW change \in Changes, Withdraw(change) PROVE NativeInv'
  BY <1>24 DEF Withdraw, Changes, Turn, Cancelled, Revoked, othersUnchanged, durable,
     disk
<1>25. ASSUME NEW n \in Names, CloneAppears(n) PROVE NativeInv'
  BY <1>25 DEF CloneAppears, durable
<1>26. CASE Gone
  BY <1>26 DEF Gone, IdleStorage, IdleCache, durable, disk
<1> QED
  BY NativeSteps, HistorySteps, CwSteps, <1>1, <1>2, <1>3, <1>4, <1>5, <1>6, <1>7, <1>8,
     <1>9, <1>10, <1>11, <1>12, <1>13, <1>14, <1>15, <1>16, <1>17, <1>18, <1>19, <1>20,
     <1>21, <1>22, <1>23, <1>24, <1>25, <1>26

\* The row of a cache attempt stays its own until it settles, and the result at
\* hand is true of what the attempt removed.
LEMMA StepCache ==
    ASSUME TypeOK, ThreadInv, TokenInv, NativeInv, CacheInv, Next
    PROVE  CacheInv'
<1> USE DEF TypeOK, ThreadInv, NativeInv, CacheInv, CacheRuns, Natives, CacheWorkers,
         Histories, CacheRows, Families
<1>1. CASE UNCHANGED <<cacheRow, native, history, cw, bucket>>
  BY <1>1
<1>2. ASSUME NEW ok \in BOOLEAN, PrepareStorage(ok) PROVE CacheInv'
  <2> HIDE DEF TypeOK, ThreadInv, NativeInv, CacheInv, Natives, CacheWorkers, Histories,
     CacheRows
  <2>1. history'.touched = history.touched /\ UNCHANGED <<cw, native, cacheRow, bucket>>
    BY <1>2, PrepareStorageEffect
  <2> QED
    BY <2>1 DEF CacheInv
<1>3. ASSUME NEW ok \in BOOLEAN, UnlinkFile(ok) PROVE CacheInv'
  BY <1>3, UnlinkFileEffect, Distinct
<1>4. ASSUME NEW ok \in BOOLEAN, CollectPanickedStorage(ok) PROVE CacheInv'
  BY <1>4 DEF CollectPanickedStorage, Finalized, FailClosed, Cancelled, Revoked,
     IdleStorage, storageUnchanged
<1>5. CASE StartCache
  BY <1>5 DEF StartCache, IdleCache, cacheUnchanged
<1>6. ASSUME NEW ok \in BOOLEAN, DiscoverCache(ok) PROVE CacheInv'
  BY <1>6 DEF DiscoverCache, NextFamily, cacheUnchanged
<1>7. ASSUME NEW ok \in BOOLEAN, NEW started \in BOOLEAN, PrepareCache(ok, started)
      PROVE  CacheInv'
  <2> HIDE DEF TypeOK, ThreadInv, NativeInv, CacheInv, Natives, CacheWorkers, Histories,
     CacheRows
  <2>1. CASE cw'.pc \in {"discover", "done", "error"}
    <3>1. UNCHANGED <<history, native, cacheRow, bucket>>
      BY <1>7, <2>1, PrepareCacheEffect
    <3>2. cw'.token = 0 \/ (cw'.token = cw.token /\ cw'.family = cw.family)
      BY <1>7, <2>1, PrepareCacheEffect
    <3> QED
      BY <2>1, <3>1, <3>2 DEF CacheInv, CacheRuns
  <2>2. CASE cw'.pc \notin {"discover", "done", "error"}
    <3> DEFINE t == counters.tokens + 1
    <3>1. /\ cw'.pc = IF ~started THEN "settle" ELSE IF cw.family = "uv" THEN "wait" ELSE "recheck"
          /\ cw'.token = t /\ t \in Tokens /\ history'.touched = history.touched
          /\ cw'.family = cw.family /\ cw'.outcome = "failed"
          /\ cw.family = "node" => started
          /\ native' = IF cw.family = "uv" /\ started
                       THEN [sup |-> "preflight", child |-> FALSE, parent |-> TRUE,
                             result |-> "none", token |-> t]
                       ELSE native
          /\ cacheRow' = [cacheRow EXCEPT ![cw.family] =
                [token |-> t, id |-> t, outcome |-> "running", at |-> cw.at]]
      BY <1>7, <2>2, PrepareCacheEffect
    <3>2. t \notin history.touched /\ t # native.token
      <4>1. t > counters.tokens /\ native.token \in Nat /\ counters.tokens \in Nat
        BY CounterFields, CacheFields, BoundsAreNaturals
      <4> QED
        BY <3>1, <4>1 DEF TokenInv
    <3>3. /\ cw.family \in {"uv", "node"}
          /\ \A f \in Families : cacheRow'[f] = IF f = cw.family
                THEN [token |-> t, id |-> t, outcome |-> "running", at |-> cw.at] ELSE cacheRow[f]
          /\ cw.family \in Families
      BY <3>1, Types, CacheFields DEF Families
    <3>4. \A f \in Families : cacheRow'[f].token # 0 =>
             cacheRow'[f].token = cacheRow'[f].id /\ cacheRow'[f].outcome = "running"
      BY <3>3 DEF CacheInv
    <3>5. cacheRow'[cw.family].token = t
      BY <3>3
    <3> HIDE DEF t
    <3> QED
      BY <3>1, <3>2, <3>3, <3>4, <3>5 DEF CacheInv
  <2> QED
    BY <2>1, <2>2
<1>8. CASE WaitUv
  <2>1. CASE native.sup = "exited"
    <3> HIDE DEF TypeOK, ThreadInv, NativeInv, CacheInv, Natives, CacheWorkers, Histories,
       CacheRows
    <3>1. /\ cw' = [cw EXCEPT !.outcome = native.result, !.pc = "settle"] /\ cw.pc = "wait"
          /\ UNCHANGED <<history, native, cacheRow, bucket>>
      BY <1>8, <2>1 DEF WaitUv, CacheResult
    <3>2. /\ cw'.pc = "settle" /\ cw'.outcome = native.result /\ cw'.token = cw.token
          /\ cw'.family = cw.family
      BY <3>1, Types DEF CacheWorkers
    <3>3. /\ native.token = cw.token /\ native.result \in {"completed", "busy", "unknown"}
          /\ native.result = "busy" => native.token \notin history.touched
          /\ native.child => native.sup # "exited"
      BY <2>1, <3>1 DEF NativeInv
    <3> QED
      BY <2>1, <3>1, <3>2, <3>3 DEF CacheInv
  <2>2. CASE native.sup # "exited"
    BY <1>8, <2>2 DEF WaitUv
  <2> QED
    BY <2>1, <2>2
<1>9. ASSUME NEW ok \in BOOLEAN, ReapUv(ok) PROVE CacheInv'
  BY <1>9 DEF ReapUv, CacheResult, cacheUnchanged
<1>10. ASSUME NEW ok \in BOOLEAN, RecheckNode(ok) PROVE CacheInv'
  BY <1>10 DEF RecheckNode, CacheResult, cacheUnchanged
<1>11. ASSUME NEW ok \in BOOLEAN, CheckNode(ok) PROVE CacheInv'
  BY <1>11 DEF CheckNode, CacheResult, cacheUnchanged
<1>12. ASSUME NEW ok \in BOOLEAN, UnlinkNode(ok) PROVE CacheInv'
  BY <1>12, UnlinkNodeEffect
<1>13. ASSUME NEW ok \in BOOLEAN, SettleCache(ok) PROVE CacheInv'
  BY <1>13 DEF SettleCache, cacheUnchanged
<1>14. CASE CloseAfterNode
  BY <1>14 DEF CloseAfterNode, FailClosed, Cancelled, Revoked, cacheUnchanged
<1>15. CASE ReleaseCache
  BY <1>15 DEF ReleaseCache, Finished, NextFamily, cacheUnchanged
<1>16. CASE EndInError
  BY <1>16 DEF EndInError, FailClosed, Cancelled, Revoked, cacheUnchanged
<1>17. CASE CollectCache
  BY <1>17 DEF CollectCache, IdleCache, cacheUnchanged
<1>18. ASSUME NEW ok \in BOOLEAN, CollectFailedCache(ok) PROVE CacheInv'
  BY <1>18 DEF CollectFailedCache, RecoveredRow, FailClosed, Cancelled, Revoked,
     IdleCache, cacheUnchanged
<1>19. CASE PanicCache
  BY <1>19 DEF PanicCache, Finished, cacheUnchanged
<1>20. CASE NativeRemoves
  BY <1>20 DEF NativeRemoves, cacheUnchanged
<1>21. CASE SupervisorStops
  BY <1>21 DEF SupervisorStops, cacheUnchanged
<1>22. ASSUME NEW ok \in BOOLEAN, SupervisorPreflight(ok) PROVE CacheInv'
  BY <1>22 DEF SupervisorPreflight, cacheUnchanged
<1>23. ASSUME NEW result \in NativeResults, NativeExits(result) PROVE CacheInv'
  BY <1>23 DEF NativeExits, NativeResults, cacheUnchanged
<1>24. ASSUME NEW change \in Changes, Withdraw(change) PROVE CacheInv'
  BY <1>24 DEF Withdraw, Changes, Turn, Cancelled, Revoked, othersUnchanged, durable,
     disk
<1>25. ASSUME NEW n \in Names, CloneAppears(n) PROVE CacheInv'
  BY <1>25 DEF CloneAppears, durable
<1>26. CASE Gone
  BY <1>26 DEF Gone, IdleStorage, IdleCache, durable, disk
<1>27. CASE Restart
  BY <1>27 DEF Restart, Finalized, RecoveredRow, disk
<1> QED
  BY CacheRowSteps, NativeSteps, HistorySteps, CwSteps, BucketSteps, <1>1, <1>2, <1>3,
     <1>4, <1>5, <1>6, <1>7, <1>8, <1>9, <1>10, <1>11, <1>12, <1>13, <1>14, <1>15,
     <1>16, <1>17, <1>18, <1>19, <1>20, <1>21, <1>22, <1>23, <1>24, <1>25, <1>26, <1>27

\* A plan names clones that exist already, and a clone that appears later is none
\* of them.
LEMMA StepClone ==
    ASSUME TypeOK, ThreadInv, CloneInv, Next
    PROVE  CloneInv'
<1>0. /\ counters' \in Counts /\ counters.inodes <= counters'.inodes
      /\ \A n \in Names : linked[n] \in {linked[n], 0}
  BY TypeCounters
<1>1. CASE UNCHANGED <<linked, sw, history>>
  BY <1>0, <1>1, CloneKept DEF CloneInv
<1>2. CASE StartStorage
  <2>1. /\ sw'.plan = {} /\ sw'.todo = {} /\ sw'.inode = 0 /\ sw'.pc \in {"idle", "recover"}
        /\ sw'.previous \subseteq sw.previous /\ UNCHANGED linked
        /\ history'.planned = history.planned
    BY <1>2, Types DEF StartStorage, IdleStorage, Histories
  <2> QED
    BY <1>0, <2>1, CloneFresh
<1>3. ASSUME NEW ok \in BOOLEAN, RecoverStorage(ok) PROVE CloneInv'
  <2>1. /\ sw.pc = "recover" /\ sw'.pc \in {"scan", "done"} /\ UNCHANGED <<linked, history>>
        /\ sw'.plan = sw.plan /\ sw'.previous = sw.previous /\ sw'.token = sw.token
        /\ sw'.todo = sw.todo /\ sw'.inode = sw.inode
    BY <1>3, Types DEF RecoverStorage, StorageWorkers
  <2> QED
    BY <1>0, <2>1, CloneKept DEF CloneInv, StorageBusy
<1>4. ASSUME NEW ok \in BOOLEAN, NEW clear \in ClearedByGates, ScanStorage(ok, clear)
      PROVE  CloneInv'
  <2>1. /\ sw'.pc \in {"prepare", "record"} /\ UNCHANGED <<linked, history>>
        /\ sw'.inode = sw.inode /\ sw'.previous \in {Ids, {}}
        /\ \/ sw'.todo = sw'.plan /\ sw'.plan \subseteq Ids
           \/ sw'.plan = sw.plan /\ sw'.todo = sw.todo
    BY <1>4, ScanStorageEffect
  <2>2. sw.inode = 0
    BY <1>4 DEF ScanStorage, ThreadInv
  <2>3. /\ \A i \in sw'.previous \cup sw'.plan : i <= counters'.inodes
        /\ \A n \in Names : linked'[n] <= counters'.inodes
        /\ \A t \in Tokens : \A i \in history'.planned[t] : i <= counters'.inodes
    BY <1>0, <2>1, CloneNumbers
  <2> QED
    BY <2>1, <2>2, <2>3 DEF CloneInv, StorageBusy
<1>5. ASSUME NEW ok \in BOOLEAN, PrepareStorage(ok) PROVE CloneInv'
  <2>1. /\ sw.pc = "prepare" /\ UNCHANGED linked
        /\ sw'.plan = sw.plan /\ sw'.todo = sw.todo /\ sw'.inode = sw.inode
        /\ sw'.previous = sw.previous /\ sw'.pc \in {"check", "record"}
    BY <1>5, PrepareStorageEffect
  <2>2. CASE sw'.pc = "record"
    <3>1. history' = history
      BY <1>5, <2>2, PrepareStorageEffect
    <3>2. /\ \A i \in sw'.previous \cup sw'.plan : i <= counters'.inodes
          /\ \A n \in Names : linked'[n] <= counters'.inodes
          /\ \A t \in Tokens : \A i \in history'.planned[t] : i <= counters'.inodes
      BY <1>0, <2>1, <3>1, CloneNumbers
    <3> QED
      BY <2>1, <2>2, <3>2 DEF CloneInv, StorageBusy
  <2>3. CASE sw'.pc = "check"
    <3> DEFINE t == counters.tokens + 1
    <3>1. /\ t \in Tokens /\ sw'.token = t
          /\ history'.planned = [history.planned EXCEPT ![t] = sw.plan]
      BY <1>5, <2>3, PrepareStorageEffect
    <3> HIDE DEF t
    <3>2. /\ history'.planned[t] = sw.plan
          /\ \A u \in Tokens : history'.planned[u] \in {history.planned[u], sw.plan}
      BY <3>1, HistoryFields
    <3>3. /\ \A i \in sw'.previous \cup sw'.plan : i <= counters'.inodes
          /\ \A n \in Names : linked'[n] <= counters'.inodes
      BY <1>0, <2>1, CloneNumbers
    <3>4. \A u \in Tokens : \A i \in history'.planned[u] : i <= counters'.inodes
      BY <1>0, <2>1, <3>2, CloneNumbers
    <3> QED
      BY <2>1, <2>3, <3>1, <3>2, <3>3, <3>4 DEF CloneInv
  <2> QED
    BY <2>1, <2>2, <2>3
<1>6. CASE CheckStorage
  <2> sw'.pc \in StorageBusy /\ sw.pc \in StorageBusy
    BY <1>6, CheckStorageEffect DEF StorageBusy
  <2> QED
    BY <1>0, <1>6, CheckStorageEffect, CloneKept DEF CloneInv
<1>7. ASSUME NEW ok \in BOOLEAN, UnlinkFile(ok) PROVE CloneInv'
  <2>1. sw.pc \in StorageBusy /\ sw'.pc \in {"check", "rescan"} /\ UNCHANGED linked
        /\ history'.planned = history.planned
    BY <1>7, UnlinkFileEffect DEF StorageBusy
  <2> QED
    BY <1>0, <1>7, <2>1, UnlinkFileEffect, CloneKept
<1>8. ASSUME NEW ok \in BOOLEAN, RemoveCandidate(ok) PROVE CloneInv'
  <2>1. sw.pc \in StorageBusy /\ sw'.pc \in {"check", "rescan"}
        /\ history'.planned = history.planned
    BY <1>8, RemoveCandidateEffect DEF StorageBusy
  <2> QED
    BY <1>0, <1>8, <2>1, RemoveCandidateEffect, CloneKept
<1>9. ASSUME NEW ok \in BOOLEAN, RescanStorage(ok) PROVE CloneInv'
  <2> DEFINE p == IF ok /\ ShapeProved THEN Ids ELSE {}
             v == Verdict(ok /\ ShapeProved)
  <2>1. /\ sw' = [sw EXCEPT !.pc = "settle", !.verdict = v, !.previous = p]
        /\ sw.pc \in StorageBusy /\ UNCHANGED <<linked, history>>
    BY <1>9 DEF RescanStorage, storageUnchanged, StorageBusy
  <2>2. p \in {Ids, {}} /\ Ids' = Ids
    BY <2>1 DEF Ids
  <2>3. /\ v \in {"complete", "partial", "failed"}
        /\ v \in {"complete", "partial"} => sw.plan \cap Ids = {}
    BY DEF Verdict
  <2> HIDE DEF p, v
  <2>4. /\ sw'.plan = sw.plan /\ sw'.previous = p /\ sw'.token = sw.token
        /\ sw'.todo = sw.todo /\ sw'.inode = sw.inode /\ sw'.pc = "settle"
        /\ sw'.verdict = v
    BY <2>1, Types DEF StorageWorkers
  <2>5. /\ \A i \in sw'.previous \cup sw'.plan : i <= counters'.inodes
        /\ \A n \in Names : linked'[n] <= counters'.inodes
        /\ \A t \in Tokens : \A i \in history'.planned[t] : i <= counters'.inodes
    BY <1>0, <2>1, <2>2, <2>4, CloneNumbers
  <2> QED
    BY <2>1, <2>2, <2>3, <2>4, <2>5 DEF CloneInv
<1>10. ASSUME NEW ok \in BOOLEAN, SettleStorage(ok) PROVE CloneInv'
  <2>1. /\ sw' = [sw EXCEPT !.pc = "release"]
        /\ UNCHANGED linked /\ UNCHANGED history
    BY <1>10 DEF SettleStorage, storageUnchanged
  <2>2. /\ sw'.plan = sw.plan /\ sw'.previous = sw.previous /\ sw'.token = sw.token
        /\ sw'.todo = sw.todo /\ sw'.inode = sw.inode /\ sw'.pc = "release"
    BY <2>1, Types DEF StorageWorkers
  <2> QED
    BY <1>0, <1>10, <2>1, <2>2, CloneKept DEF CloneInv, StorageBusy, SettleStorage
<1>11. ASSUME NEW ok \in BOOLEAN, RecordStorage(ok) PROVE CloneInv'
  <2>1. /\ sw' = [sw EXCEPT !.pc = "done"]
        /\ UNCHANGED linked /\ UNCHANGED history
    BY <1>11 DEF RecordStorage, storageUnchanged
  <2>2. /\ sw'.plan = sw.plan /\ sw'.previous = sw.previous /\ sw'.token = sw.token
        /\ sw'.todo = sw.todo /\ sw'.inode = sw.inode /\ sw'.pc = "done"
    BY <2>1, Types DEF StorageWorkers
  <2> QED
    BY <1>0, <1>11, <2>1, <2>2, CloneKept DEF CloneInv, StorageBusy, RecordStorage
<1>12. CASE ReleaseStorage
  <2>1. /\ sw' = [sw EXCEPT !.pc = "done"]
        /\ UNCHANGED linked /\ UNCHANGED history
    BY <1>12 DEF ReleaseStorage, storageUnchanged
  <2>2. /\ sw'.plan = sw.plan /\ sw'.previous = sw.previous /\ sw'.token = sw.token
        /\ sw'.todo = sw.todo /\ sw'.inode = sw.inode /\ sw'.pc = "done"
    BY <2>1, Types DEF StorageWorkers
  <2> QED
    BY <1>0, <1>12, <2>1, <2>2, CloneKept DEF CloneInv, StorageBusy, ReleaseStorage
<1>13. CASE CollectStorage
  <2>1. /\ sw'.plan = {} /\ sw'.todo = {} /\ sw'.inode = 0 /\ sw'.pc \in {"idle", "recover"}
        /\ sw'.previous \subseteq sw.previous /\ UNCHANGED linked
        /\ history'.planned = history.planned
    BY <1>13, Types DEF CollectStorage, IdleStorage, Histories
  <2> QED
    BY <1>0, <2>1, CloneFresh
<1>14. ASSUME NEW ok \in BOOLEAN, CollectPanickedStorage(ok) PROVE CloneInv'
  <2>1. /\ sw'.plan = {} /\ sw'.todo = {} /\ sw'.inode = 0 /\ sw'.pc \in {"idle", "recover"}
        /\ sw'.previous \subseteq sw.previous /\ UNCHANGED linked
        /\ history'.planned = history.planned
    BY <1>14, Types DEF CollectPanickedStorage, FailClosed, Revoked, IdleStorage, Histories
  <2> QED
    BY <1>0, <2>1, CloneFresh
<1>15. CASE PanicStorage
  <2>1. /\ sw' = [sw EXCEPT !.pc = "panicked"]
        /\ UNCHANGED linked /\ UNCHANGED history
    BY <1>15 DEF PanicStorage, storageUnchanged
  <2>2. /\ sw'.plan = sw.plan /\ sw'.previous = sw.previous /\ sw'.token = sw.token
        /\ sw'.todo = sw.todo /\ sw'.inode = sw.inode /\ sw'.pc = "panicked"
    BY <2>1, Types DEF StorageWorkers
  <2> QED
    BY <1>0, <1>15, <2>1, <2>2, CloneKept DEF CloneInv, StorageBusy, PanicStorage
<1>16. ASSUME NEW ok \in BOOLEAN, NEW started \in BOOLEAN, PrepareCache(ok, started)
       PROVE  CloneInv'
  <2>1. UNCHANGED <<linked, sw>> /\ history'.planned = history.planned
    BY <1>16, PrepareCacheEffect
  <2> QED
    BY <1>0, <2>1, CloneKept DEF CloneInv
<1>17. ASSUME NEW ok \in BOOLEAN, UnlinkNode(ok) PROVE CloneInv'
  <2>1. UNCHANGED <<linked, sw>> /\ history'.planned = history.planned
    BY <1>17, UnlinkNodeEffect
  <2> QED
    BY <1>0, <2>1, CloneKept DEF CloneInv
<1>18. ASSUME NEW ok \in BOOLEAN, SettleCache(ok) PROVE CloneInv'
  <2>1. UNCHANGED <<linked, sw>> /\ history'.planned = history.planned
    BY <1>18, Types DEF SettleCache, cacheUnchanged, Histories
  <2> QED
    BY <1>0, <2>1, CloneKept DEF CloneInv
<1>19. CASE CloseAfterNode
  <2>1. UNCHANGED <<linked, sw>> /\ history'.planned = history.planned
    BY <1>19, Types DEF CloseAfterNode, FailClosed, Revoked, cacheUnchanged, Histories
  <2> QED
    BY <1>0, <2>1, CloneKept DEF CloneInv
<1>20. CASE EndInError
  <2>1. UNCHANGED <<linked, sw>> /\ history'.planned = history.planned
    BY <1>20, Types DEF EndInError, FailClosed, Revoked, cacheUnchanged, Histories
  <2> QED
    BY <1>0, <2>1, CloneKept DEF CloneInv
<1>21. ASSUME NEW ok \in BOOLEAN, CollectFailedCache(ok) PROVE CloneInv'
  <2>1. UNCHANGED <<linked, sw>> /\ history'.planned = history.planned
    BY <1>21, Types DEF CollectFailedCache, FailClosed, Revoked, cacheUnchanged, Histories
  <2> QED
    BY <1>0, <2>1, CloneKept DEF CloneInv
<1>22. CASE NativeRemoves
  <2>1. UNCHANGED <<linked, sw>> /\ history'.planned = history.planned
    BY <1>22, Types DEF NativeRemoves, cacheUnchanged, Histories
  <2> QED
    BY <1>0, <2>1, CloneKept DEF CloneInv
<1>23. ASSUME NEW change \in Changes, Withdraw(change) PROVE CloneInv'
  <2>1. UNCHANGED <<linked, sw>> /\ history'.planned = history.planned
    BY <1>23, Types DEF Withdraw, othersUnchanged, disk, Revoked, Histories
  <2> QED
    BY <1>0, <2>1, CloneKept DEF CloneInv
<1>24. ASSUME NEW n \in Names, CloneAppears(n) PROVE CloneInv'
  <2> DEFINE j == counters.inodes + 1
  <2>1. /\ linked' = [linked EXCEPT ![n] = j] /\ counters' = [counters EXCEPT !.inodes = j]
        /\ history' = [history EXCEPT !.since[j] = now] /\ UNCHANGED sw
    BY <1>24 DEF CloneAppears
  <2>2. counters'.inodes = j /\ history'.planned = history.planned
    BY <2>1, Types DEF Counts, Histories
  <2>3. \A m \in Names : linked'[m] \in {linked[m], j}
    BY <2>1, Types
  <2>4. j \notin sw.plan /\ j \in Nat
    BY <1>0, CloneNumbers
  <2>5. Ids' \subseteq Ids \cup {j}
    BY <2>3 DEF Ids
  <2>6. /\ \A i \in sw'.previous \cup sw'.plan : i <= counters'.inodes
        /\ \A t \in Tokens : \A i \in history'.planned[t] : i <= counters'.inodes
    BY <1>0, <2>1, <2>2, CloneNumbers
  <2>7. \A m \in Names : linked'[m] <= counters'.inodes
    BY <1>0, <2>2, <2>3, <2>4, CloneNumbers
  <2> HIDE DEF j
  <2> QED
    BY <2>1, <2>2, <2>4, <2>5, <2>6, <2>7 DEF CloneInv
<1>25. ASSUME NEW n \in Names, CloneVanishes(n) PROVE CloneInv'
  <2>1. UNCHANGED <<sw, history>> /\ \A m \in Names : linked'[m] \in {linked[m], 0}
    BY <1>25, Types DEF CloneVanishes
  <2> QED
    BY <1>0, <2>1, CloneKept DEF CloneInv
<1>26. CASE Gone
  <2>1. /\ sw'.plan = {} /\ sw'.todo = {} /\ sw'.inode = 0 /\ sw'.pc \in {"idle", "recover"}
        /\ sw'.previous \subseteq sw.previous /\ UNCHANGED linked
        /\ history'.planned = history.planned
    BY <1>26, Types DEF Gone, disk, IdleStorage, Histories
  <2> QED
    BY <1>0, <2>1, CloneFresh
<1> QED
  BY LinkedSteps, SwSteps, HistorySteps, <1>1, <1>2, <1>3, <1>4, <1>5, <1>6, <1>7, <1>8,
     <1>9, <1>10, <1>11, <1>12, <1>13, <1>14, <1>15, <1>16, <1>17, <1>18, <1>19, <1>20,
     <1>21, <1>22, <1>23, <1>24, <1>25, <1>26

\* A planned clone was seen by an earlier cycle, in an earlier interval.
LEMMA StepAge ==
    ASSUME TypeOK, ThreadInv, CloneInv, AgeInv, Next
    PROVE  AgeInv'
<1>0. now \in Nat /\ sw.last \in Nat /\ sw.at \in Nat /\ \A i \in Inodes : history.since[i] \in Nat
  BY Types, StorageFields, HistoryFields, BoundsAreNaturals
<1> USE <1>0 DEF TypeOK, CloneInv, AgeInv, Histories, StorageWorkers, Ids
<1>1. CASE UNCHANGED <<linked, sw, history, now>>
  BY <1>1
<1>2. CASE StartStorage
  <2> HIDE DEF TypeOK, CloneInv, AgeInv, Histories, StorageWorkers, Ids
  <2>1. /\ sw' = [IdleStorage EXCEPT !.pc = "recover", !.at = now, !.last = now,
                                      !.previous = sw.previous]
        /\ sw.last < now /\ UNCHANGED <<linked, history, now>>
    BY <1>2 DEF StartStorage, StorageDue, storageUnchanged
  <2>2. /\ sw'.pc = "recover" /\ sw'.at = now /\ sw'.last = now /\ sw'.previous = sw.previous
    BY <2>1 DEF IdleStorage
  <2>3. \A i \in sw.previous : history.since[i] \in Nat /\ history.since[i] < now
    BY <1>0, <2>1, StorageFields DEF AgeInv
  <2>4. \A i \in sw.previous : history.since[i] <= now
    BY <1>0, <2>3
  <2> QED
    BY <1>0, <2>1, <2>2, <2>3, <2>4 DEF AgeInv
<1>3. ASSUME NEW ok \in BOOLEAN, RecoverStorage(ok) PROVE AgeInv'
  BY <1>3 DEF RecoverStorage, Finalized, storageUnchanged
<1>4. ASSUME NEW ok \in BOOLEAN, NEW clear \in ClearedByGates, ScanStorage(ok, clear)
      PROVE  AgeInv'
  <2> HIDE DEF TypeOK, CloneInv, AgeInv, Histories, StorageWorkers, Ids
  <2>1. /\ sw.pc = "scan" /\ sw'.pc \in {"prepare", "record"}
        /\ sw'.at = sw.at /\ sw'.last = sw.last /\ sw'.previous \in {Ids, {}}
        /\ sw'.pc = "prepare" => sw'.plan \subseteq sw.previous
        /\ UNCHANGED <<linked, history, now>>
    BY <1>4, ScanStorageEffect
  <2>2. \A i \in Ids : history.since[i] <= now
    BY DEF AgeInv, Ids
  <2>3. sw.at = now /\ sw.last = now /\ \A i \in sw.previous : history.since[i] < sw.at
    BY <2>1 DEF AgeInv
  <2> QED
    BY <2>1, <2>2, <2>3 DEF AgeInv
<1>5. ASSUME NEW ok \in BOOLEAN, PrepareStorage(ok) PROVE AgeInv'
  <2> HIDE DEF TypeOK, CloneInv, AgeInv, Histories, StorageWorkers, Ids
  <2>1. /\ sw.pc = "prepare" /\ sw'.pc \in {"check", "record"}
        /\ sw'.at = sw.at /\ sw'.last = sw.last /\ sw'.previous = sw.previous
        /\ sw'.plan = sw.plan /\ UNCHANGED <<linked, now>>
    BY <1>5, PrepareStorageEffect
  <2>2. history'.since = history.since
    BY <1>5, PrepareStorageEffect
  <2> QED
    BY <2>1, <2>2 DEF AgeInv
<1>6. CASE CheckStorage
  BY <1>6, CheckStorageEffect
<1>7. ASSUME NEW ok \in BOOLEAN, UnlinkFile(ok) PROVE AgeInv'
  BY <1>7, UnlinkFileEffect
<1>8. ASSUME NEW ok \in BOOLEAN, RemoveCandidate(ok) PROVE AgeInv'
  <2> HIDE DEF TypeOK, CloneInv, AgeInv, Histories, StorageWorkers, Ids
  <2>1. /\ sw.pc = "rmdir" /\ sw'.pc \in {"rescan", "check"}
        /\ sw'.at = sw.at /\ sw'.last = sw.last /\ sw'.previous = sw.previous
        /\ sw'.plan = sw.plan /\ UNCHANGED <<history, now>>
        /\ \A n \in Names : linked'[n] \in {linked[n], 0}
    BY <1>8, RemoveCandidateEffect
  <2> QED
    BY <2>1 DEF AgeInv
<1>9. ASSUME NEW ok \in BOOLEAN, RescanStorage(ok) PROVE AgeInv'
  BY <1>9 DEF RescanStorage, Verdict, storageUnchanged
<1>10. ASSUME NEW ok \in BOOLEAN, SettleStorage(ok) PROVE AgeInv'
  BY <1>10 DEF SettleStorage, storageUnchanged
<1>11. ASSUME NEW ok \in BOOLEAN, RecordStorage(ok) PROVE AgeInv'
  BY <1>11 DEF RecordStorage, storageUnchanged
<1>12. CASE ReleaseStorage
  BY <1>12 DEF ReleaseStorage, Finished, storageUnchanged
<1>13. CASE CollectStorage
  BY <1>13 DEF CollectStorage, IdleStorage, storageUnchanged
<1>14. ASSUME NEW ok \in BOOLEAN, CollectPanickedStorage(ok) PROVE AgeInv'
  BY <1>14 DEF CollectPanickedStorage, Finalized, FailClosed, Cancelled, Revoked,
     IdleStorage, storageUnchanged
<1>15. CASE PanicStorage
  BY <1>15 DEF PanicStorage, Finished, storageUnchanged
<1>16. ASSUME NEW ok \in BOOLEAN, NEW started \in BOOLEAN, PrepareCache(ok, started)
       PROVE  AgeInv'
  <2> HIDE DEF TypeOK, CloneInv, AgeInv, Histories, StorageWorkers, Ids
  <2>1. UNCHANGED <<sw, linked, now>> /\ history'.since = history.since
    BY <1>16, PrepareCacheEffect
  <2> QED
    BY <2>1 DEF AgeInv
<1>17. ASSUME NEW ok \in BOOLEAN, UnlinkNode(ok) PROVE AgeInv'
  BY <1>17, UnlinkNodeEffect
<1>18. ASSUME NEW ok \in BOOLEAN, SettleCache(ok) PROVE AgeInv'
  BY <1>18 DEF SettleCache, cacheUnchanged
<1>19. CASE CloseAfterNode
  BY <1>19 DEF CloseAfterNode, FailClosed, Cancelled, Revoked, cacheUnchanged
<1>20. CASE EndInError
  BY <1>20 DEF EndInError, FailClosed, Cancelled, Revoked, cacheUnchanged
<1>21. ASSUME NEW ok \in BOOLEAN, CollectFailedCache(ok) PROVE AgeInv'
  BY <1>21 DEF CollectFailedCache, RecoveredRow, FailClosed, Cancelled, Revoked,
     IdleCache, cacheUnchanged
<1>22. CASE NativeRemoves
  BY <1>22 DEF NativeRemoves, cacheUnchanged
<1>23. ASSUME NEW change \in Changes, Withdraw(change) PROVE AgeInv'
  BY <1>23 DEF Withdraw, Changes, Turn, Cancelled, Revoked, othersUnchanged, durable,
     disk
<1>24. CASE Tick
  <2> HIDE DEF TypeOK, CloneInv, AgeInv, Histories, StorageWorkers, Ids
  <2>1. sw.pc = "idle" /\ now' = now + 1 /\ UNCHANGED <<sw, linked, history>>
    BY <1>24 DEF Tick, othersUnchanged, disk
  <2>2. \A n \in Names : linked[n] # 0 => linked[n] \in Inodes
    BY Types, BoundsAreNaturals DEF Inodes
  <2>3. \A n \in Names : linked[n] # 0 => history.since[linked[n]] <= now + 1
    BY <1>0, <2>2 DEF AgeInv
  <2>4. sw.last <= now + 1
    BY <1>0 DEF AgeInv
  <2> QED
    BY <2>1, <2>3, <2>4 DEF AgeInv
<1>25. ASSUME NEW n \in Names, CloneAppears(n) PROVE AgeInv'
  <2> HIDE DEF TypeOK, CloneInv, AgeInv, Histories, StorageWorkers, Ids
  <2> DEFINE j == counters.inodes + 1
  <2>1. /\ linked' = [linked EXCEPT ![n] = j] /\ j <= machine.clones
        /\ history' = [history EXCEPT !.since[j] = now] /\ UNCHANGED <<sw, now>>
    BY <1>25 DEF CloneAppears
  <2>2. j \in Inodes
    BY <2>1, CounterFields, BoundsAreNaturals DEF Inodes
  <2>3. j \notin sw.plan \cup sw.previous /\ \A m \in Names : linked[m] # j
    <3>1. counters.inodes <= counters'.inodes /\ counters' \in Counts
      BY TypeCounters
    <3> QED
      BY <3>1, CloneNumbers DEF CloneInv
  <2> HIDE DEF j
  <2>4. /\ history'.since[j] = now
        /\ \A i \in Inodes : i # j => history'.since[i] = history.since[i]
    BY <2>1, <2>2, Types, HistoryFields DEF Histories
  <2>5. \A m \in Names : linked'[m] # 0 => history'.since[linked'[m]] <= now
    <3>1. \A m \in Names : linked'[m] = j \/ linked'[m] = linked[m]
      BY <2>1, Types
    <3>2. \A m \in Names : linked[m] # 0 => linked[m] \in Inodes
      BY Types, BoundsAreNaturals DEF Inodes
    <3> QED
      BY <1>0, <2>3, <2>4, <3>1, <3>2 DEF AgeInv
  <2>6. \A i \in sw.plan \cup sw.previous : history'.since[i] = history.since[i]
    BY <2>3, <2>4, StorageFields
  <2> QED
    BY <2>1, <2>5, <2>6 DEF AgeInv
<1>26. ASSUME NEW n \in Names, CloneVanishes(n) PROVE AgeInv'
  BY <1>26 DEF CloneVanishes, durable
<1>27. CASE Gone
  BY <1>27 DEF Gone, IdleStorage, IdleCache, durable, disk
<1> QED
  BY LinkedSteps, SwSteps, HistorySteps, NowSteps, <1>1, <1>2, <1>3, <1>4, <1>5, <1>6,
     <1>7, <1>8, <1>9, <1>10, <1>11, <1>12, <1>13, <1>14, <1>15, <1>16, <1>17, <1>18,
     <1>19, <1>20, <1>21, <1>22, <1>23, <1>24, <1>25, <1>26, <1>27

\* No other attempt is PREPARED while candidates are removed.
LEMMA StepOpen ==
    ASSUME TypeOK, ThreadInv, TokenInv, CacheInv, OneOpenAttempt, Next
    PROVE  OneOpenAttempt'
<1> USE DEF TypeOK, ThreadInv, OneOpenAttempt, CacheInv, CacheRuns, StorageBusy,
         StorageWorkers, CacheWorkers, CacheRows, Families
<1>1. CASE UNCHANGED <<rows, sw, cw, cacheRow>>
  BY <1>1
<1>2. CASE StartStorage
  BY <1>2 DEF StartStorage, IdleStorage, storageUnchanged
<1>3. ASSUME NEW ok \in BOOLEAN, RecoverStorage(ok) PROVE OneOpenAttempt'
  BY <1>3 DEF RecoverStorage, Finalized, storageUnchanged
<1>4. ASSUME NEW ok \in BOOLEAN, NEW clear \in ClearedByGates, ScanStorage(ok, clear)
      PROVE  OneOpenAttempt'
  <2> HIDE DEF TypeOK, ThreadInv, OneOpenAttempt, CacheInv, StorageWorkers, CacheWorkers,
     CacheRows
  <2>1. sw'.pc \in {"prepare", "record"} /\ UNCHANGED <<rows, cw, cacheRow>>
    BY <1>4, ScanStorageEffect
  <2> QED
    BY <2>1 DEF OneOpenAttempt
<1>5. ASSUME NEW ok \in BOOLEAN, PrepareStorage(ok) PROVE OneOpenAttempt'
  <2> HIDE DEF TypeOK, ThreadInv, OneOpenAttempt, CacheInv, StorageWorkers, CacheWorkers,
     CacheRows
  <2>1. UNCHANGED <<cw, cacheRow>> /\ sw'.pc \in {"check", "record"}
    BY <1>5, PrepareStorageEffect
  <2>2. CASE sw'.pc = "record"
    BY <2>1, <2>2 DEF OneOpenAttempt
  <2>3. CASE sw'.pc = "check"
    <3> DEFINE t == counters.tokens + 1
    <3>1. t \in Tokens /\ sw'.token = t /\ rows' = [Finalized(rows) EXCEPT ![t] = "prepared"]
      BY <1>5, <2>3, PrepareStorageEffect
    <3> HIDE DEF t
    <3>2. {u \in Tokens : rows'[u] = "prepared"} = {t}
      BY <3>1 DEF Finalized
    <3> QED
      BY <2>1, <3>1, <3>2 DEF OneOpenAttempt
  <2> QED
    BY <2>1, <2>2, <2>3
<1>6. CASE CheckStorage
  BY <1>6, CheckStorageEffect
<1>7. ASSUME NEW ok \in BOOLEAN, UnlinkFile(ok) PROVE OneOpenAttempt'
  BY <1>7, UnlinkFileEffect
<1>8. ASSUME NEW ok \in BOOLEAN, RemoveCandidate(ok) PROVE OneOpenAttempt'
  <2> HIDE DEF TypeOK, ThreadInv, OneOpenAttempt, CacheInv, StorageWorkers, CacheWorkers,
     CacheRows
  <2>1. /\ sw.pc = "rmdir" /\ sw'.token = sw.token /\ UNCHANGED <<rows, cw, cacheRow>>
    BY <1>8, RemoveCandidateEffect
  <2> QED
    BY <2>1 DEF OneOpenAttempt
<1>9. ASSUME NEW ok \in BOOLEAN, RescanStorage(ok) PROVE OneOpenAttempt'
  BY <1>9 DEF RescanStorage, Verdict, storageUnchanged
<1>10. ASSUME NEW ok \in BOOLEAN, SettleStorage(ok) PROVE OneOpenAttempt'
  BY <1>10 DEF SettleStorage, storageUnchanged
<1>11. ASSUME NEW ok \in BOOLEAN, RecordStorage(ok) PROVE OneOpenAttempt'
  BY <1>11 DEF RecordStorage, storageUnchanged
<1>12. CASE ReleaseStorage
  BY <1>12 DEF ReleaseStorage, Finished, storageUnchanged
<1>13. CASE CollectStorage
  BY <1>13 DEF CollectStorage, IdleStorage, storageUnchanged
<1>14. ASSUME NEW ok \in BOOLEAN, CollectPanickedStorage(ok) PROVE OneOpenAttempt'
  BY <1>14 DEF CollectPanickedStorage, Finalized, FailClosed, Cancelled, Revoked,
     IdleStorage, storageUnchanged
<1>15. CASE PanicStorage
  BY <1>15 DEF PanicStorage, Finished, storageUnchanged
<1>16. CASE StartCache
  BY <1>16 DEF StartCache, IdleCache, cacheUnchanged
<1>17. ASSUME NEW ok \in BOOLEAN, DiscoverCache(ok) PROVE OneOpenAttempt'
  BY <1>17 DEF DiscoverCache, NextFamily, cacheUnchanged
<1>18. ASSUME NEW ok \in BOOLEAN, NEW started \in BOOLEAN, PrepareCache(ok, started)
       PROVE  OneOpenAttempt'
  <2> HIDE DEF TypeOK, ThreadInv, OneOpenAttempt, CacheInv, StorageWorkers, CacheWorkers,
     CacheRows
  <2>1. UNCHANGED <<sw, rows>>
    BY <1>18, PrepareCacheEffect
  <2>2. CASE cw'.pc \in {"discover", "done", "error"}
    BY <2>1, <2>2 DEF OneOpenAttempt
  <2>3. CASE cw'.pc \notin {"discover", "done", "error"}
    <3> DEFINE t == counters.tokens + 1
    <3>1. /\ cw'.token = t /\ cw'.family = cw.family
          /\ cacheRow' = [cacheRow EXCEPT ![cw.family] =
                [token |-> t, id |-> t, outcome |-> "running", at |-> cw.at]]
      BY <1>18, <2>3, PrepareCacheEffect
    <3>2. cacheRow'[cw'.family].token = cw'.token
      BY <3>1, Types, CacheFields
    <3> QED
      BY <2>1, <3>2 DEF OneOpenAttempt
  <2> QED
    BY <2>2, <2>3
<1>19. CASE WaitUv
  <2> HIDE DEF TypeOK, ThreadInv, OneOpenAttempt, CacheInv, StorageWorkers, CacheWorkers,
     CacheRows
  <2>1. /\ cw.pc = "wait" /\ cw'.pc \in {"settle", "reap"} /\ cw'.token = cw.token
        /\ cw'.family = cw.family /\ UNCHANGED <<sw, rows, cacheRow>>
    BY <1>19, Types DEF WaitUv, CacheResult, CacheWorkers, cacheUnchanged
  <2> QED
    BY <2>1 DEF OneOpenAttempt
<1>20. ASSUME NEW ok \in BOOLEAN, ReapUv(ok) PROVE OneOpenAttempt'
  BY <1>20 DEF ReapUv, CacheResult, cacheUnchanged
<1>21. ASSUME NEW ok \in BOOLEAN, RecheckNode(ok) PROVE OneOpenAttempt'
  BY <1>21 DEF RecheckNode, CacheResult, cacheUnchanged
<1>22. ASSUME NEW ok \in BOOLEAN, CheckNode(ok) PROVE OneOpenAttempt'
  BY <1>22 DEF CheckNode, CacheResult, cacheUnchanged
<1>23. ASSUME NEW ok \in BOOLEAN, UnlinkNode(ok) PROVE OneOpenAttempt'
  BY <1>23, UnlinkNodeEffect
<1>24. ASSUME NEW ok \in BOOLEAN, SettleCache(ok) PROVE OneOpenAttempt'
  BY <1>24 DEF SettleCache, cacheUnchanged
<1>25. CASE CloseAfterNode
  BY <1>25 DEF CloseAfterNode, FailClosed, Cancelled, Revoked, cacheUnchanged
<1>26. CASE ReleaseCache
  BY <1>26 DEF ReleaseCache, Finished, NextFamily, cacheUnchanged
<1>27. CASE EndInError
  BY <1>27 DEF EndInError, FailClosed, Cancelled, Revoked, cacheUnchanged
<1>28. CASE CollectCache
  BY <1>28 DEF CollectCache, IdleCache, cacheUnchanged
<1>29. ASSUME NEW ok \in BOOLEAN, CollectFailedCache(ok) PROVE OneOpenAttempt'
  BY <1>29 DEF CollectFailedCache, RecoveredRow, FailClosed, Cancelled, Revoked,
     IdleCache, cacheUnchanged
<1>30. CASE PanicCache
  BY <1>30 DEF PanicCache, Finished, cacheUnchanged
<1>31. CASE Gone
  BY <1>31 DEF Gone, IdleStorage, IdleCache, durable, disk
<1>32. CASE Restart
  BY <1>32 DEF Restart, Finalized, RecoveredRow, disk
<1> QED
  BY RowsSteps, SwSteps, CwSteps, CacheRowSteps, <1>1, <1>2, <1>3, <1>4, <1>5, <1>6,
     <1>7, <1>8, <1>9, <1>10, <1>11, <1>12, <1>13, <1>14, <1>15, <1>16, <1>17, <1>18,
     <1>19, <1>20, <1>21, <1>22, <1>23, <1>24, <1>25, <1>26, <1>27, <1>28, <1>29, <1>30,
     <1>31, <1>32

\* A verdict, once durable, stays true of the disk and of uv.
LEMMA StepHonest ==
    ASSUME TypeOK, ThreadInv, TokenInv, CloneInv, CacheInv, NativeInv, VerdictsHonest, Next
    PROVE  VerdictsHonest'
<1> USE DEF TypeOK, ThreadInv, VerdictsHonest, StorageWorkers, CacheWorkers, CacheRows,
         Natives, Histories, Families, Ids
<1>1. CASE UNCHANGED <<rows, linked, history, cacheRow, native>>
  BY <1>1
<1>2. ASSUME NEW ok \in BOOLEAN, RecoverStorage(ok) PROVE VerdictsHonest'
  BY <1>2 DEF RecoverStorage, Finalized, storageUnchanged
<1>3. ASSUME NEW ok \in BOOLEAN, PrepareStorage(ok) PROVE VerdictsHonest'
  <2> HIDE DEF TypeOK, ThreadInv, VerdictsHonest, StorageWorkers, CacheWorkers, CacheRows,
     Natives, Histories, Ids
  <2>1. UNCHANGED <<cacheRow, native, linked>> /\ history'.touched = history.touched
    BY <1>3, PrepareStorageEffect
  <2>2. \A u \in Tokens : rows'[u] \in {"complete", "partial"} =>
           rows[u] = rows'[u] /\ history'.planned[u] = history.planned[u]
    <3>1. CASE sw'.pc = "record"
      BY <1>3, <3>1, PrepareStorageEffect
    <3>2. CASE sw'.pc # "record"
      <4> DEFINE t == counters.tokens + 1
      <4>1. /\ rows' = [Finalized(rows) EXCEPT ![t] = "prepared"]
            /\ history'.planned = [history.planned EXCEPT ![t] = sw.plan] /\ t \in Tokens
        BY <1>3, <3>2, PrepareStorageEffect
      <4> HIDE DEF t
      <4> QED
        BY <4>1, HistoryFields DEF Finalized
    <3> QED
      BY <3>1, <3>2
  <2>3. Ids' = Ids
    BY <2>1 DEF Ids
  <2> QED
    BY <2>1, <2>2, <2>3 DEF VerdictsHonest
<1>4. ASSUME NEW ok \in BOOLEAN, UnlinkFile(ok) PROVE VerdictsHonest'
  <2> HIDE DEF TypeOK, ThreadInv, VerdictsHonest, StorageWorkers, CacheWorkers, CacheRows,
     Natives, Histories, Ids
  <2>1. /\ UNCHANGED <<rows, cacheRow, native, linked>> /\ history'.planned = history.planned
        /\ history'.touched \subseteq history.touched \cup {sw.token} /\ sw.pc = "unlink"
    BY <1>4, UnlinkFileEffect
  <2>2. Ids' = Ids /\ \A f \in Families : sw.token # cacheRow[f].id
    BY <2>1, Distinct DEF Ids
  <2> QED
    BY <2>1, <2>2 DEF VerdictsHonest
<1>5. ASSUME NEW ok \in BOOLEAN, RemoveCandidate(ok) PROVE VerdictsHonest'
  BY <1>5 DEF RemoveCandidate, RemovalFails, storageUnchanged
<1>6. ASSUME NEW ok \in BOOLEAN, SettleStorage(ok) PROVE VerdictsHonest'
  <2> HIDE DEF TypeOK, ThreadInv, VerdictsHonest, StorageWorkers, CacheWorkers, CacheRows,
     Natives, Histories, Ids
  <2>1. /\ UNCHANGED <<cacheRow, native, linked, history>> /\ sw.pc = "settle"
        /\ UNCHANGED rows \/ rows' = [rows EXCEPT ![sw.token] = sw.verdict]
    BY <1>6 DEF SettleStorage, storageUnchanged
  <2>2. Ids' = Ids /\ history.planned[sw.token] = sw.plan
    BY <2>1 DEF Ids, CloneInv, StorageBusy
  <2>3. sw.verdict \in {"complete", "partial"} => sw.plan \cap Ids = {}
    BY <2>1 DEF CloneInv
  <2>4. \A t \in Tokens : rows'[t] = rows[t] \/ (t = sw.token /\ rows'[t] = sw.verdict)
    BY <2>1, Types
  <2> QED
    BY <2>1, <2>2, <2>3, <2>4 DEF VerdictsHonest
<1>7. ASSUME NEW ok \in BOOLEAN, CollectPanickedStorage(ok) PROVE VerdictsHonest'
  BY <1>7 DEF CollectPanickedStorage, Finalized, FailClosed, Cancelled, Revoked,
     IdleStorage, storageUnchanged
<1>8. ASSUME NEW ok \in BOOLEAN, NEW started \in BOOLEAN, PrepareCache(ok, started)
      PROVE  VerdictsHonest'
  <2> HIDE DEF TypeOK, ThreadInv, VerdictsHonest, StorageWorkers, CacheWorkers, CacheRows,
     Natives, Histories, Ids
  <2>1. /\ UNCHANGED <<rows, linked>> /\ history'.planned = history.planned
        /\ history'.touched = history.touched
    BY <1>8, PrepareCacheEffect
  <2>2. Ids' = Ids
    BY <2>1 DEF Ids
  <2>3. CASE cw'.pc \in {"discover", "done", "error"}
    <3>1. UNCHANGED <<cacheRow, native>>
      BY <1>8, <2>3, PrepareCacheEffect
    <3> QED
      BY <2>1, <2>2, <3>1 DEF VerdictsHonest
  <2>4. CASE cw'.pc \notin {"discover", "done", "error"}
    <3> DEFINE t == counters.tokens + 1
    <3>1. /\ cacheRow' = [cacheRow EXCEPT ![cw.family] =
                [token |-> t, id |-> t, outcome |-> "running", at |-> cw.at]]
          /\ native' = IF cw.family = "uv" /\ started
                       THEN [sup |-> "preflight", child |-> FALSE, parent |-> TRUE,
                             result |-> "none", token |-> t]
                       ELSE native
      BY <1>8, <2>4, PrepareCacheEffect
    <3> HIDE DEF t
    <3>2. \A f \in Families : cacheRow'[f] = cacheRow[f] \/ cacheRow'[f].outcome = "running"
      BY <3>1, Types, CacheFields
    <3>3. cw.family = "uv" => cacheRow'["uv"].outcome = "running"
      BY <3>1, Types, CacheFields
    <3>4. cw.family # "uv" => native' = native
      BY <3>1
    <3> QED
      BY <2>1, <2>2, <3>2, <3>3, <3>4 DEF VerdictsHonest, Families
  <2> QED
    BY <2>3, <2>4
<1>9. CASE WaitUv
  BY <1>9 DEF WaitUv, CacheResult, cacheUnchanged
<1>10. ASSUME NEW ok \in BOOLEAN, ReapUv(ok) PROVE VerdictsHonest'
  BY <1>10 DEF ReapUv, CacheResult, cacheUnchanged
<1>11. ASSUME NEW ok \in BOOLEAN, UnlinkNode(ok) PROVE VerdictsHonest'
  <2> HIDE DEF TypeOK, ThreadInv, VerdictsHonest, StorageWorkers, CacheWorkers, CacheRows,
     Natives, Histories, Ids
  <2>1. /\ UNCHANGED <<rows, cacheRow, native, linked>> /\ history'.planned = history.planned
        /\ history'.touched \subseteq history.touched \cup {cw.token} /\ cw.pc = "unlink"
    BY <1>11, UnlinkNodeEffect
  <2>2. /\ Ids' = Ids /\ cw.token # cacheRow["uv"].id
        /\ cacheRow["node"].outcome = "running"
    <3>1. cw.family = "node" /\ cw.token # 0
      BY <2>1 DEF ThreadInv, CacheRuns
    <3> QED
      BY <2>1, <3>1, Distinct DEF Ids, CacheInv, CacheRuns, Families
  <2> QED
    BY <2>1, <2>2 DEF VerdictsHonest, Families
<1>12. ASSUME NEW ok \in BOOLEAN, SettleCache(ok) PROVE VerdictsHonest'
  BY <1>12 DEF SettleCache, cacheUnchanged
<1>13. CASE CloseAfterNode
  BY <1>13 DEF CloseAfterNode, FailClosed, Cancelled, Revoked, cacheUnchanged
<1>14. CASE EndInError
  BY <1>14 DEF EndInError, FailClosed, Cancelled, Revoked, cacheUnchanged
<1>15. ASSUME NEW ok \in BOOLEAN, CollectFailedCache(ok) PROVE VerdictsHonest'
  BY <1>15 DEF CollectFailedCache, RecoveredRow, FailClosed, Cancelled, Revoked,
     IdleCache, cacheUnchanged
<1>16. CASE NativeRemoves
  <2> HIDE DEF TypeOK, ThreadInv, VerdictsHonest, StorageWorkers, CacheWorkers, CacheRows,
     Natives, Histories, Ids
  <2>1. /\ UNCHANGED <<rows, cacheRow, native, linked>> /\ native.child
        /\ history' = [history EXCEPT !.touched = @ \cup {native.token}]
    BY <1>16 DEF NativeRemoves, cacheUnchanged
  <2>2. history'.touched = history.touched \cup {native.token} /\ history'.planned = history.planned
    BY <2>1, Types DEF Histories
  <2>3. Ids' = Ids /\ native.token # cacheRow["node"].id
    BY <2>1, Distinct DEF Ids, NativeInv
  <2> QED
    BY <2>1, <2>2, <2>3 DEF VerdictsHonest, Families
<1>17. CASE SupervisorStops
  BY <1>17 DEF SupervisorStops, cacheUnchanged
<1>18. ASSUME NEW ok \in BOOLEAN, SupervisorPreflight(ok) PROVE VerdictsHonest'
  BY <1>18 DEF SupervisorPreflight, cacheUnchanged
<1>19. ASSUME NEW result \in NativeResults, NativeExits(result) PROVE VerdictsHonest'
  BY <1>19 DEF NativeExits, NativeResults, cacheUnchanged
<1>20. ASSUME NEW change \in Changes, Withdraw(change) PROVE VerdictsHonest'
  BY <1>20 DEF Withdraw, Changes, Turn, Cancelled, Revoked, othersUnchanged, durable,
     disk
<1>21. ASSUME NEW n \in Names, CloneAppears(n) PROVE VerdictsHonest'
  <2> HIDE DEF TypeOK, ThreadInv, VerdictsHonest, StorageWorkers, CacheWorkers, CacheRows,
     Natives, Histories, Ids
  <2> DEFINE j == counters.inodes + 1
  <2>1. /\ linked' = [linked EXCEPT ![n] = j] /\ UNCHANGED <<rows, cacheRow, native>>
        /\ history' = [history EXCEPT !.since[j] = now]
    BY <1>21 DEF CloneAppears, durable
  <2>2. history'.touched = history.touched /\ history'.planned = history.planned
    BY <2>1, Types DEF Histories
  <2>3. \A t \in Tokens : j \notin history.planned[t]
    <3>1. counters.inodes <= counters'.inodes /\ counters' \in Counts
      BY TypeCounters
    <3> QED
      BY <3>1, CloneNumbers
  <2> HIDE DEF j
  <2>4. Ids' \subseteq Ids \cup {j}
    BY <2>1, Types DEF Ids
  <2> QED
    BY <2>1, <2>2, <2>3, <2>4 DEF VerdictsHonest
<1>22. ASSUME NEW n \in Names, CloneVanishes(n) PROVE VerdictsHonest'
  BY <1>22 DEF CloneVanishes, durable
<1>23. CASE Gone
  BY <1>23 DEF Gone, IdleStorage, IdleCache, durable, disk
<1>24. CASE Restart
  BY <1>24 DEF Restart, Finalized, RecoveredRow, disk
<1> QED
  BY RowsSteps, LinkedSteps, HistorySteps, CacheRowSteps, NativeSteps, <1>1, <1>2, <1>3,
     <1>4, <1>5, <1>6, <1>7, <1>8, <1>9, <1>10, <1>11, <1>12, <1>13, <1>14, <1>15,
     <1>16, <1>17, <1>18, <1>19, <1>20, <1>21, <1>22, <1>23, <1>24

-----------------------------------------------------------------------------
(***************************************************************************)
(* The invariant, and what it implies.                                     *)
(***************************************************************************)

\* The inductive invariant.
MaintenanceInv ==
    /\ TypeOK /\ ThreadInv /\ LeaseInv /\ LateInv /\ TokenInv /\ CloneInv /\ AgeInv
    /\ NativeInv /\ CacheInv /\ UnknownInv /\ OneOpenAttempt /\ VerdictsHonest

\* The first state is well formed.
LEMMA InitTypes ==
    ASSUME Init
    PROVE  TypeOK
<1>1. /\ machine \in Machines /\ now \in 0..MaxTicks
  BY BoundsAreNaturals DEF Init
<1>2. /\ sw \in StorageWorkers /\ cw \in CacheWorkers /\ native \in Natives
      /\ lease \in [Kinds -> Leases] /\ cacheRow \in [Families -> CacheRows]
  BY FreshTypes DEF Init
<1>3. /\ status \in Statuses /\ counters \in Counts
  BY FreshTypes, BoundsAreNaturals DEF Init, Statuses, Counts
<1>4. rows \in [Tokens -> Dispositions] /\ observed \in 0..MaxTicks
  BY BoundsAreNaturals DEF Init, Dispositions
<1>5. /\ linked \in [Names -> 0..MaxInodes] /\ tree \in [Inodes -> 0..MaxFiles]
      /\ bucket \in 0..MaxFiles
  BY BoundsAreNaturals DEF Init
<1>6. history \in Histories
  BY BoundsAreNaturals DEF Init, Histories
<1> QED
  BY <1>1, <1>2, <1>3, <1>4, <1>5, <1>6 DEF TypeOK

\* The invariant holds when the daemon first starts.
LEMMA InitInv ==
    ASSUME Init
    PROVE  MaintenanceInv
<1>1. TypeOK
  BY InitTypes
<1>2. ThreadInv /\ UnknownInv
  BY DEF Init, ThreadInv, UnknownInv, IdleStorage, IdleCache, StorageBusy, CacheRuns
<1>3. LeaseInv
  BY DEF Init, LeaseInv, OneOwner, StorageOwns, CacheOwns, IdleStorage, IdleCache, Kinds,
     NoLease, CacheRuns
<1>4. LateInv
  BY DEF Init, LateInv, IdleStorage, IdleCache, Kinds, NoLease
<1>5. TokenInv
  BY BoundsAreNaturals DEF Init, TokenInv, IdleStorage, IdleCache, NoNative, NoRow,
     Families, Tokens
<1>6. CloneInv
  <2>1. Ids = {}
    BY DEF Init, Ids
  <2> QED
    BY <2>1 DEF Init, CloneInv, IdleStorage, StorageBusy
<1>7. AgeInv
  BY DEF Init, AgeInv, IdleStorage
<1>8. NativeInv /\ CacheInv
  BY DEF Init, NativeInv, CacheInv, IdleCache, NoNative, NoRow, Families, CacheRuns
<1>9. OneOpenAttempt
  BY DEF Init, OneOpenAttempt, IdleStorage, IdleCache
<1>10. VerdictsHonest
  BY DEF Init, VerdictsHonest, NoNative, NoRow, Families
<1> QED
  BY <1>1, <1>2, <1>3, <1>4, <1>5, <1>6, <1>7, <1>8, <1>9, <1>10 DEF MaintenanceInv

\* Every step preserves the invariant.
LEMMA NextInv ==
    ASSUME MaintenanceInv, Next
    PROVE  MaintenanceInv'
<1>0. /\ TypeOK /\ ThreadInv /\ LeaseInv /\ LateInv /\ TokenInv /\ CloneInv /\ AgeInv
      /\ NativeInv /\ CacheInv /\ UnknownInv /\ OneOpenAttempt /\ VerdictsHonest
  BY DEF MaintenanceInv
<1>1. TypeOK'
  <2>1. /\ machine' \in Machines /\ now' \in 0..MaxTicks /\ observed' \in 0..MaxTicks
        /\ linked' \in [Names -> 0..MaxInodes] /\ tree' \in [Inodes -> 0..MaxFiles]
        /\ bucket' \in 0..MaxFiles
    BY <1>0, TypeRest DEF CacheInv
  <2>2. status' \in Statuses /\ lease' \in [Kinds -> Leases] /\ counters' \in Counts
    BY <1>0, TypeStatus, TypeLease, TypeCounters
  <2>3. rows' \in [Tokens -> Dispositions] /\ cacheRow' \in [Families -> CacheRows]
    BY <1>0, TypeRows, TypeCacheRow
  <2>4. sw' \in StorageWorkers /\ cw' \in CacheWorkers
    BY <1>0, TypeSw, TypeCw
  <2>5. native' \in Natives /\ history' \in Histories
    BY <1>0, TypeNative, TypeHistory
  <2> QED
    BY <2>1, <2>2, <2>3, <2>4, <2>5 DEF TypeOK
<1>2. ThreadInv' /\ LeaseInv' /\ LateInv' /\ UnknownInv'
  BY <1>0, StepThread, StepLease, StepLate, StepUnknown
<1>3. TokenInv' /\ CloneInv' /\ AgeInv'
  BY <1>0, StepToken, StepClone, StepAge
<1>4. NativeInv' /\ CacheInv'
  BY <1>0, StepNative, StepCache
<1>5. OneOpenAttempt' /\ VerdictsHonest'
  BY <1>0, StepOpen, StepHonest
<1> QED
  BY <1>1, <1>2, <1>3, <1>4, <1>5 DEF MaintenanceInv

\* A step that changes nothing preserves the invariant.
LEMMA StutterInv ==
    ASSUME MaintenanceInv, UNCHANGED vars
    PROVE  MaintenanceInv'
<1>1. UNCHANGED <<machine, now, status, lease, counters, rows, cacheRow, observed, sw, cw, native,
                  linked, tree, bucket, history>>
  BY DEF vars, durable, disk
<1>2. TypeOK' /\ ThreadInv' /\ LeaseInv' /\ LateInv'
  BY <1>1 DEF MaintenanceInv, TypeOK, ThreadInv, LeaseInv, LateInv, OneOwner, StorageOwns,
     CacheOwns
<1>3. TokenInv' /\ CloneInv' /\ AgeInv'
  BY <1>1 DEF MaintenanceInv, TokenInv, CloneInv, AgeInv, Ids
<1>4. NativeInv' /\ CacheInv' /\ UnknownInv' /\ OneOpenAttempt'
  BY <1>1 DEF MaintenanceInv, NativeInv, CacheInv, UnknownInv, OneOpenAttempt
<1>5. VerdictsHonest'
  BY <1>1 DEF MaintenanceInv, VerdictsHonest, Ids
<1> QED
  BY <1>2, <1>3, <1>4, <1>5 DEF MaintenanceInv

\* The inductive invariant holds in every reachable state, whatever the machine.
THEOREM Invariance == Spec => []MaintenanceInv
<1>1. Init => MaintenanceInv
  BY InitInv
<1>2. MaintenanceInv /\ [Next]_vars => MaintenanceInv'
  BY NextInv, StutterInv
<1> QED
  BY <1>1, <1>2, PTL DEF Spec

\* Every variable of the maintenance workers keeps its type.
THEOREM TypeCorrect == Spec => []TypeOK
<1>1. MaintenanceInv => TypeOK
  BY DEF MaintenanceInv
<1> QED
  BY <1>1, Invariance, PTL

\* OneOwner: at most one of storage_activity and cache_activity is held, by the
\* worker whose attempt it names, across late releases, panics and crashes.
THEOREM LeaseHasOneOwner == Spec => []OneOwner
<1>1. MaintenanceInv => OneOwner
  BY DEF MaintenanceInv, LeaseInv
<1> QED
  BY <1>1, Invariance, PTL

\* LateRemovalBounded: after Pause, Disarm, BeginDrain or fail_closed an attempt
\* removes at most the one file that should_cancel had already let through.
THEOREM RevokedRemovesAtMostOne == Spec => []LateRemovalBounded
<1>1. MaintenanceInv => LateRemovalBounded
  BY DEF MaintenanceInv, LateInv, LateRemovalBounded
<1> QED
  BY <1>1, Invariance, PTL

\* OneOpenAttempt: begin_storage_cleanup_attempt and the recovery leave no second
\* PREPARED row beside the one at work, and a cache row stays open until its worker
\* settles it.
THEOREM AttemptsAreSettledFirst == Spec => []OneOpenAttempt
<1>1. MaintenanceInv => OneOpenAttempt
  BY DEF MaintenanceInv
<1> QED
  BY <1>1, Invariance, PTL

\* VerdictsHonest: what complete_storage_cleanup_attempt and the cache settlements
\* wrote is true of the clone root and of the uv child, and stays true.
THEOREM DurableVerdictsAreTrue == Spec => []VerdictsHonest
<1>1. MaintenanceInv => VerdictsHonest
  BY DEF MaintenanceInv
<1> QED
  BY <1>1, Invariance, PTL

\* NodeUnknownCloses: from the unlinkat that lost a Node file until the daemon is
\* closed, storage_cleanup_gate_open refuses every attempt, but for the worker
\* that could not write its settlement, whose row is open until it has failed the
\* daemon closed; a boot that finds such a row is closed from its beginning.
THEOREM LostNodeFileClosesGate == Spec => []NodeUnknownCloses
<1>1. MaintenanceInv => NodeUnknownCloses
  <2> SUFFICES ASSUME MaintenanceInv, history.unknown,
                      ~(cw.pc \in {"error", "failed"} /\ cacheRow["node"].token # 0)
               PROVE  ~GateOpen
    BY DEF NodeUnknownCloses
  <2>1. CASE status.failed \/ status.epoch = 0
    BY <2>1 DEF GateOpen, LifecycleOpen
  <2>2. CASE cw.pc = "close" \/ (cw.pc \in {"settle", "release"} /\ cw.family = "node")
    <3>1. cw.token # 0 /\ lease["cache"].token = cw.token
      BY <2>2 DEF MaintenanceInv, ThreadInv, LeaseInv, CacheRuns
    <3>2. lease["cache"] # NoLease
      BY <3>1 DEF NoLease
    <3> QED
      BY <3>2 DEF GateOpen, MaintenanceInProgress, Kinds
  <2> QED
    BY <2>1, <2>2 DEF MaintenanceInv, UnknownInv
<1> QED
  BY <1>1, Invariance, PTL

\* RemovedOnlyAged: a step of the storage worker takes a file only from a clone that
\* appeared in an earlier observation interval than the one its cycle began in.
THEOREM OnlyAgedClonesLoseFiles == Spec => RemovedOnlyAged
<1> DEFINE A == \A i \in Inodes : tree'[i] < tree[i] /\ sw' # sw => history.since[i] < sw.at
<1>1. MaintenanceInv /\ [Next]_vars => [A]_vars
  <2> SUFFICES ASSUME MaintenanceInv, Next,
                      NEW i \in Inodes, tree'[i] < tree[i], sw' # sw
               PROVE  history.since[i] < sw.at
    OBVIOUS
  <2>1. tree \in [Inodes -> 0..MaxFiles] /\ \A j \in Inodes : ~(tree[j] < tree[j])
    <3>1. tree \in [Inodes -> 0..MaxFiles]
      BY DEF MaintenanceInv, TypeOK
    <3>2. \A j \in Inodes : tree[j] \in Nat
      BY <3>1, BoundsAreNaturals
    <3> QED
      BY <3>1, <3>2
  <2>2. PICK ok \in BOOLEAN : UnlinkFile(ok)
    BY <2>1, TreeSteps DEF CloneVanishes
  <2>3. sw.pc = "unlink" /\ (tree' = tree \/ tree' = [tree EXCEPT ![sw.inode] = tree[sw.inode] - 1])
    BY <2>2 DEF UnlinkFile
  <2>4. i = sw.inode
    BY <2>1, <2>3
  <2>5. sw.inode \in sw.plan
    BY <2>3 DEF MaintenanceInv, CloneInv
  <2> QED
    BY <2>3, <2>4, <2>5 DEF MaintenanceInv, AgeInv
<1> QED
  BY <1>1, Invariance, PTL DEF Spec, RemovedOnlyAged

=============================================================================
