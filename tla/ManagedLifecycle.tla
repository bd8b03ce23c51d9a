-------------------------- MODULE ManagedLifecycle --------------------------
(***************************************************************************)
(* The managed lifecycle of unlingerd: the singleton SQLite row            *)
(* managed_lifecycle (store.rs), the in-memory DaemonStatus that mirrors   *)
(* it (ipc.rs), the boot, loop and exit sequence of the process (main.rs), *)
(* the operator's Arm, Disarm and BeginDrain, the background cleanup       *)
(* worker as far as the lifecycle depends on it (engine.rs), crashes,      *)
(* restarts and SQLite writes that fail.                                   *)
(*                                                                         *)
(* Every ControlPlane method holds the status mutex around one immediate   *)
(* SQLite transaction and the memory update that follows it, so each is    *)
(* one atomic action; a crash inside it loses the memory in any case.      *)
(***************************************************************************)
EXTENDS Naturals

CONSTANTS MaxGeneration,  \* bound: activation generations are 1..MaxGeneration
          MaxBoots,       \* bound: managed boots in one behaviour
          MaxEpochs,      \* bound: enforcement epochs minted in one behaviour
          StoreMayFail    \* whether an SQLite write may return an error

ASSUME LifecycleConstants ==
    /\ MaxGeneration \in Nat \ {0}
    /\ MaxBoots \in Nat \ {0}
    /\ MaxEpochs \in Nat \ {0}
    /\ StoreMayFail \in BOOLEAN

VARIABLES row,          \* the managed_lifecycle row; gen = 0 before the first boot
          mem,          \* the lifecycle fields of DaemonStatus, same shape as row
          healthy,      \* DaemonStatus.healthy
          pc,           \* where run() of the daemon process stands
          shutdown,     \* SHUTDOWN_REQUESTED
          firstCycle,   \* ManagedStartupFailClosed.first_cycle_complete
          cycle,        \* epoch frozen by the running observation cycle, or NoCycle
          worker,       \* the background cleanup worker
          openAttempt,  \* a cleanup_attempts row without completed_at_ms
          unresolved,   \* a retry block whose attempt delivered without proof, or may have
          residue,      \* a retry block of a cleared tree with a known artifact residue
          boots,        \* instance ids handed out
          epochs,       \* enforcement epochs minted
          intent,       \* history: generation the operator's standing Arm is for, or 0
          failed,       \* history: fail_closed ran since the operator's last Arm
          lost,         \* history: this instance failed or began draining
          scanned       \* history: this instance committed its first scan

durable == <<row, openAttempt, unresolved, residue>>
process == <<mem, healthy, pc, shutdown, firstCycle, cycle, worker, lost, scanned>>
vars == <<durable, process, boots, epochs, intent, failed>>

Generations == 1..MaxGeneration
Phases == {"absent", "recovering", "first_scan_report_only", "ready_report_only",
           "ready_enforce", "draining", "failed"}
NoCycle == MaxEpochs + 1     \* no observation cycle is running
Disarmed == 0                \* the frozen epoch of a cycle that began disarmed

(* ManagedLifecycle, one row; 0 stands for NULL in the optional columns. *)
Lifecycle == [gen: 0..MaxGeneration, inst: 0..MaxBoots, requested: BOOLEAN,
              effective: BOOLEAN, armedGen: 0..MaxGeneration, epoch: 0..MaxEpochs,
              ready: BOOLEAN, draining: BOOLEAN, phase: Phases]

NoLifecycle == [gen |-> 0, inst |-> 0, requested |-> FALSE, effective |-> FALSE,
                armedGen |-> 0, epoch |-> 0, ready |-> FALSE, draining |-> FALSE,
                phase |-> "absent"]

TypeOK ==
    /\ row \in Lifecycle
    /\ mem \in Lifecycle
    /\ healthy \in BOOLEAN
    /\ pc \in {"down", "begun", "recovered", "running", "exiting", "exited"}
    /\ shutdown \in BOOLEAN
    /\ firstCycle \in BOOLEAN
    /\ cycle \in 0..NoCycle
    /\ worker \in {"none", "running", "settled", "owes_fail_close", "joinable"}
    /\ openAttempt \in BOOLEAN
    /\ unresolved \in BOOLEAN
    /\ residue \in BOOLEAN
    /\ boots \in 0..MaxBoots
    /\ epochs \in 0..MaxEpochs
    /\ intent \in 0..MaxGeneration
    /\ failed \in BOOLEAN
    /\ lost \in BOOLEAN
    /\ scanned \in BOOLEAN

-----------------------------------------------------------------------------
(* Store transitions: the row each transaction of store.rs leaves behind. *)

Closed(l) == [l EXCEPT !.effective = FALSE, !.armedGen = 0, !.epoch = 0]

(* Mutant: intent survives a change of activation generation. *)
CarryAcrossGenerations(l, g) ==
    /\ l.requested
    /\ \/ l.phase = "ready_enforce" /\ l.effective
       \/ l.phase = "ready_report_only" /\ ~l.ready /\ ~l.effective

(* begin_managed_boot: the only two shapes whose requested_enforce survives. *)
CarryRequestedEnforce(l, g) ==
    /\ l.gen = g
    /\ l.requested
    /\ \/ l.phase = "ready_enforce" /\ l.effective
       \/ /\ l.phase = "ready_report_only" /\ ~l.ready /\ ~l.effective
          /\ l.armedGen = 0 /\ l.epoch = 0

BootRow(l, g, i) ==
    [gen |-> g, inst |-> i, requested |-> CarryRequestedEnforce(l, g),
     effective |-> FALSE, armedGen |-> 0, epoch |-> 0, ready |-> FALSE,
     draining |-> FALSE, phase |-> "recovering"]

(* Mutant: a carried request is armed by recovery, before the first scan. *)
RecoveredArmed(l) ==
    IF l.requested
    THEN [l EXCEPT !.effective = TRUE, !.armedGen = l.gen, !.epoch = 1, !.ready = TRUE,
                   !.phase = "ready_enforce"]
    ELSE [Closed(l) EXCEPT !.phase = "first_scan_report_only"]

RecoveredRow(l) == [Closed(l) EXCEPT !.ready = FALSE, !.phase = "first_scan_report_only"]

PreservedRow(l) ==
    [Closed(l) EXCEPT !.ready = FALSE, !.draining = FALSE, !.phase = "ready_report_only"]

(* Mutant: only an open attempt blocks, a settled unknown delivery does not. *)
BlockedByOpenAttempt == openAttempt

ManagedArmBlocker == openAttempt \/ unresolved \/ residue

ArmedRow(l, e) ==
    [l EXCEPT !.requested = TRUE, !.effective = TRUE, !.armedGen = l.gen, !.epoch = e,
              !.ready = TRUE, !.draining = FALSE, !.phase = "ready_enforce"]

ReportOnlyRow(l, clear) ==
    [Closed(l) EXCEPT !.requested = IF clear THEN FALSE ELSE @, !.ready = TRUE,
                      !.draining = FALSE, !.phase = "ready_report_only"]

FirstScanRow(l, e) ==
    IF l.requested /\ ~ManagedArmBlocker
    THEN ArmedRow(l, e)
    ELSE ReportOnlyRow(l, l.requested)

DisarmedRow(l) ==
    [Closed(l) EXCEPT !.requested = FALSE,
                      !.phase = IF l.draining THEN "draining"
                                ELSE IF l.ready THEN "ready_report_only" ELSE @]

DrainingRow(l) ==
    [Closed(l) EXCEPT !.requested = FALSE, !.ready = FALSE, !.draining = TRUE,
                      !.phase = "draining"]

FailedRow(l) ==
    [Closed(l) EXCEPT !.requested = FALSE, !.ready = FALSE,
                      !.phase = IF l.draining THEN "draining" ELSE "failed"]

OfflineRow(l) ==
    [Closed(l) EXCEPT !.requested = FALSE, !.ready = FALSE, !.draining = FALSE,
                      !.phase = "recovering"]

(* transition_managed commits only for the exact generation and instance.    *)
(* A write outcome is chosen: TRUE commits, FALSE returns an error.          *)
StoreOutcome == {TRUE} \cup (IF StoreMayFail THEN {FALSE} ELSE {})
ExactIdentity == row.gen = mem.gen /\ row.inst = mem.inst

(* signal_gate_matches: the volatile gate every delivery rechecks.           *)
SignalGateMatches(e) ==
    /\ ~mem.draining
    /\ mem.effective
    /\ mem.epoch = e
    /\ mem.ready
    /\ mem.gen # 0 /\ mem.armedGen = mem.gen

(* IpcServer and the maintenance workers live until run() returns. *)
ServerUp == pc \in {"running", "exiting", "exited"}

GateOpen == \E e \in 1..MaxEpochs : SignalGateMatches(e)

-----------------------------------------------------------------------------
(* ControlPlane::fail_closed: volatile authority closes whatever SQLite does. *)
FailedMemory(m) ==
    [Closed(m) EXCEPT !.requested = FALSE, !.ready = FALSE, !.phase = "failed"]

FailClosed(ok) ==
    LET committed == ok /\ ExactIdentity
    IN /\ row' = IF committed THEN FailedRow(row) ELSE row
       /\ mem' = FailedMemory(IF committed THEN FailedRow(row) ELSE mem)
       /\ healthy' = FALSE
       /\ intent' = IF committed THEN 0 ELSE intent
       /\ failed' = TRUE
       /\ lost' = TRUE

(* The process is gone and so is everything it kept in memory. *)
ProcessGone ==
    /\ pc' = "down"
    /\ mem' = NoLifecycle
    /\ healthy' = FALSE
    /\ shutdown' = FALSE
    /\ firstCycle' = FALSE
    /\ cycle' = NoCycle
    /\ worker' = "none"
    /\ lost' = FALSE
    /\ scanned' = FALSE

(* Drop of ManagedStartupFailClosed, then the process is gone. *)
FailClosedAndGone(ok) ==
    LET committed == ok /\ ExactIdentity
    IN /\ row' = IF committed THEN FailedRow(row) ELSE row
       /\ intent' = IF committed THEN 0 ELSE intent
       /\ failed' = TRUE
       /\ ProcessGone

Init ==
    /\ row = NoLifecycle
    /\ mem = NoLifecycle
    /\ healthy = FALSE
    /\ pc = "down"
    /\ shutdown = FALSE
    /\ firstCycle = FALSE
    /\ cycle = NoCycle
    /\ worker = "none"
    /\ openAttempt = FALSE
    /\ unresolved = FALSE
    /\ residue = FALSE
    /\ boots = 0
    /\ epochs = 0
    /\ intent = 0
    /\ failed = FALSE
    /\ lost = FALSE
    /\ scanned = FALSE

-----------------------------------------------------------------------------
(* Boot. *)

(* begin_managed: instance lock held, restored state loaded, row rewritten. *)
BeginManaged(g) ==
    /\ pc = "down"
    /\ boots < MaxBoots
    /\ boots' = boots + 1
    /\ row' = BootRow(row, g, boots + 1)
    /\ mem' = row'
    /\ healthy' = FALSE
    /\ pc' = "begun"
    /\ intent' = IF row.gen = g THEN intent ELSE 0
    /\ UNCHANGED <<shutdown, firstCycle, cycle, worker, openAttempt, unresolved, residue,
                   epochs, failed, lost, scanned>>

(* recover_incomplete_attempts then finish_startup_recovery. An open attempt *)
(* with a delivered or PREPARED action leaves an unresolved retry block.     *)
FinishStartupRecovery(delivered) ==
    /\ pc = "begun"
    /\ ~row.draining
    /\ openAttempt' = FALSE
    /\ unresolved' = (unresolved \/ (openAttempt /\ delivered))
    /\ row' = RecoveredRow(row)
    /\ mem' = row'
    /\ healthy' = FALSE
    /\ pc' = "recovered"
    /\ UNCHANGED <<shutdown, firstCycle, cycle, worker, residue, boots, epochs, intent,
                   failed, lost, scanned>>

(* The remaining recoveries; the node cache one may have to fail closed, and *)
(* leaves run() when even that cannot be made durable.                       *)
NodeCacheDeliveryUnknown ==
    /\ pc = "recovered"
    /\ ~lost
    /\ FailClosed(TRUE)
    /\ UNCHANGED <<pc, shutdown, firstCycle, cycle, worker, openAttempt, unresolved, residue,
                   boots, epochs, scanned>>

(* IpcServer::start: from here on operator commands arrive. *)
StartServer ==
    /\ pc = "recovered"
    /\ pc' = "running"
    /\ UNCHANGED <<row, mem, healthy, shutdown, firstCycle, cycle, worker, openAttempt,
                   unresolved, residue, boots, epochs, intent, failed, lost, scanned>>

(* Any ? of run() before the first successful cycle: the guard fails closed. *)
StartupError(ok) ==
    /\ pc \in {"begun", "recovered", "running"}
    /\ ~firstCycle
    /\ cycle = NoCycle
    /\ FailClosedAndGone(ok)
    /\ UNCHANGED <<openAttempt, unresolved, residue, boots, epochs>>

-----------------------------------------------------------------------------
(* Observation cycles. *)

(* run_cycle_inner collects a worker that settled and freezes the            *)
(* enforcement epoch, before its first snapshot.                             *)
BeginCycle ==
    /\ pc = "running"
    /\ cycle = NoCycle
    /\ ~shutdown /\ ~mem.draining
    /\ worker # "joinable"
    /\ worker' = IF worker = "settled" THEN "none" ELSE worker
    /\ cycle' = mem.epoch
    /\ UNCHANGED <<row, mem, healthy, pc, shutdown, firstCycle, openAttempt,
                   unresolved, residue, boots, epochs, intent, failed, lost, scanned>>

(* complete_successful_cycle on an instance that already failed: the durable *)
(* fail-close is retried and the error leaves the first-cycle guard armed.   *)
CompleteCycleFailed(ok) ==
    LET committed == ok /\ ExactIdentity
    IN /\ mem.phase = "failed"
       /\ row' = IF committed THEN FailedRow(row) ELSE row
       /\ mem' = IF committed THEN FailedRow(row) ELSE FailedMemory(mem)
       /\ intent' = IF committed THEN 0 ELSE intent
       /\ healthy' = FALSE
       /\ UNCHANGED <<epochs, failed, lost, scanned, firstCycle>>

(* ... on an instance awaiting its first scan: arm, or become report-only.   *)
CompleteFirstScan ==
    /\ mem.phase = "first_scan_report_only" /\ ~mem.draining /\ ~mem.ready
    /\ row.requested /\ ~ManagedArmBlocker => epochs < MaxEpochs
    /\ ExactIdentity /\ ~row.draining /\ row.phase = "first_scan_report_only"
    /\ row' = FirstScanRow(row, epochs + 1)
    /\ mem' = row'
    /\ epochs' = IF row'.effective THEN epochs + 1 ELSE epochs
    /\ healthy' = TRUE
    /\ scanned' = TRUE
    /\ firstCycle' = TRUE
    /\ UNCHANGED <<intent, failed, lost>>

(* Mutant: the failed first-scan write is dropped and tried again next cycle. *)
FirstScanErrorIgnored(ok) ==
    /\ ~mem.draining /\ ~mem.ready /\ mem.phase # "failed"
    /\ StoreMayFail \/ mem.phase # "first_scan_report_only"
    /\ UNCHANGED <<row, mem, healthy, intent, failed, lost, epochs, scanned, firstCycle>>

(* ... the first-scan write failed, or the phase is not one a cycle may end  *)
(* in: fail closed.                                                          *)
CompleteFirstScanError(ok) ==
    /\ ~mem.draining /\ ~mem.ready /\ mem.phase # "failed"
    /\ StoreMayFail \/ mem.phase # "first_scan_report_only"
    /\ FailClosed(ok)
    /\ UNCHANGED <<epochs, scanned, firstCycle>>

(* ... otherwise only the projection of health and phase is refreshed.       *)
CompleteLaterCycle ==
    /\ mem.phase # "failed"
    /\ mem.draining \/ mem.ready
    /\ healthy' = ~mem.draining
    /\ mem' = [mem EXCEPT !.phase = IF mem.draining THEN "draining"
                                    ELSE IF mem.effective THEN "ready_enforce"
                                    ELSE "ready_report_only"]
    /\ firstCycle' = TRUE
    /\ UNCHANGED <<row, epochs, intent, failed, lost, scanned>>

CycleSucceeds ==
    /\ cycle # NoCycle
    /\ cycle' = NoCycle
    /\ \/ \E ok \in StoreOutcome : CompleteCycleFailed(ok)
       \/ CompleteFirstScan
       \/ \E ok \in StoreOutcome : CompleteFirstScanError(ok)
       \/ CompleteLaterCycle
    /\ UNCHANGED <<pc, shutdown, worker, openAttempt, unresolved, residue, boots>>

(* run_cycle_at_until, Err arm: snapshot, store or settlement errors. *)
CycleFails(ok) ==
    /\ cycle # NoCycle
    /\ cycle' = NoCycle
    /\ FailClosed(ok)
    /\ UNCHANGED <<pc, shutdown, firstCycle, worker, openAttempt, unresolved, residue, boots,
                   epochs, scanned>>

-----------------------------------------------------------------------------
(* The background cleanup worker, as the lifecycle sees it. *)

(* begin_cleanup_attempt_if_armed and spawn, inside a cycle. *)
BeginCleanupAttempt ==
    /\ cycle \in 1..MaxEpochs
    /\ SignalGateMatches(cycle)
    /\ ~shutdown
    /\ worker = "none"
    /\ ~openAttempt
    /\ openAttempt' = TRUE
    /\ worker' = "running"
    /\ UNCHANGED <<row, mem, healthy, pc, shutdown, firstCycle, cycle, unresolved, residue,
                   boots, epochs, intent, failed, lost, scanned>>

(* complete_cleanup_attempt committed and nothing is owed: cleared, failed    *)
(* before any delivery, or cleared with a known artifact residue, whose       *)
(* retry block still blocks the next Arm.                                     *)
WorkerSettles(withResidue) ==
    /\ worker = "running"
    /\ worker' = "settled"
    /\ openAttempt' = FALSE
    /\ residue' = (residue \/ withResidue)
    /\ UNCHANGED <<row, mem, healthy, pc, shutdown, firstCycle, cycle, unresolved,
                   boots, epochs, intent, failed, lost, scanned>>

(* The receipt is committed but needs the global fail-close, or settlement   *)
(* itself failed and the attempt stays open.                                 *)
WorkerErrs(settled, delivered) ==
    /\ worker = "running"
    /\ worker' = "owes_fail_close"
    /\ openAttempt' = ~settled
    /\ unresolved' = (unresolved \/ (settled /\ delivered))
    /\ UNCHANGED <<row, mem, healthy, pc, shutdown, firstCycle, cycle, residue, boots,
                   epochs, intent, failed, lost, scanned>>

(* The worker thread's own fail_closed, before its handle can be joined. *)
WorkerFailsClosed(ok) ==
    /\ worker = "owes_fail_close"
    /\ worker' = "joinable"
    /\ FailClosed(ok)
    /\ UNCHANGED <<pc, shutdown, firstCycle, cycle, openAttempt, unresolved, residue, boots,
                   epochs, scanned>>

(* collect_background_cleanup after the join, as the first step of a cycle   *)
(* that ends there or of the shutdown: fail closed again, then recover.      *)
(* recovered = FALSE: the recovery transaction itself failed.                *)
CollectWorker(ok, recovered, delivered) ==
    /\ worker = "joinable"
    /\ pc = "running" /\ cycle = NoCycle
    /\ worker' = "none"
    /\ FailClosed(ok)
    /\ openAttempt' = (openAttempt /\ ~recovered)
    /\ unresolved' = (unresolved \/ (openAttempt /\ recovered /\ delivered))
    /\ UNCHANGED <<pc, shutdown, firstCycle, cycle, residue, boots, epochs, scanned>>

(* authorize_retry, or the retention of a retry block whose processes are    *)
(* proved absent, deletes the block.                                         *)
ResolveBlock(kind) ==
    /\ ServerUp
    /\ unresolved' = (unresolved /\ kind # "uncertain")
    /\ residue' = (residue /\ kind # "residue")
    /\ UNCHANGED <<row, mem, healthy, pc, shutdown, firstCycle, cycle, worker,
                   openAttempt, boots, epochs, intent, failed, lost, scanned>>

(* Storage and cache workers fail the daemon closed from their own threads. *)
MaintenanceFailsClosed(ok) ==
    /\ ServerUp
    /\ FailClosed(ok)
    /\ UNCHANGED <<pc, shutdown, firstCycle, cycle, worker, openAttempt, unresolved, residue,
                   boots, epochs, scanned>>

-----------------------------------------------------------------------------
(* Operator commands of handle_at; a store error leaves everything as it was. *)

Arm ==
    LET already == /\ row.effective /\ row.armedGen = mem.gen /\ row.epoch # 0
    IN /\ ServerUp
       /\ healthy /\ mem.ready /\ ~mem.draining
       /\ \/ /\ mem.phase = "ready_report_only"
             /\ ~mem.effective /\ mem.armedGen = 0 /\ mem.epoch = 0
          \/ /\ mem.phase = "ready_enforce"
             /\ mem.effective /\ mem.armedGen = mem.gen /\ mem.epoch # 0
       /\ ExactIdentity
       /\ \/ already /\ UNCHANGED <<row, epochs>>
          \/ /\ ~already /\ ~row.draining /\ row.ready /\ ~ManagedArmBlocker
             /\ epochs < MaxEpochs
             /\ epochs' = epochs + 1
             /\ row' = ArmedRow(row, epochs + 1)
       /\ mem' = row'
       /\ healthy' = TRUE
       /\ intent' = row.gen
       /\ failed' = FALSE
       /\ UNCHANGED <<pc, shutdown, firstCycle, cycle, worker, openAttempt, unresolved, residue,
                      boots, lost, scanned>>

(* Mutant: Disarm writes the disarmed row whatever the phase was. *)
DisarmForgetsFailure ==
    /\ ServerUp
    /\ ExactIdentity
    /\ row' = [Closed(row) EXCEPT !.requested = FALSE, !.ready = TRUE,
                                 !.phase = "ready_report_only"]
    /\ mem' = row'
    /\ healthy' = TRUE
    /\ intent' = 0
    /\ UNCHANGED <<pc, shutdown, firstCycle, cycle, worker, openAttempt, unresolved, residue,
                   boots, epochs, failed, lost, scanned>>

Disarm ==
    LET wasFailed == mem.phase = "failed"
    IN /\ ServerUp
       /\ ExactIdentity
       /\ row' = IF wasFailed THEN FailedRow(row) ELSE DisarmedRow(row)
       /\ mem' = row'
       /\ healthy' = (healthy /\ ~wasFailed)
       /\ intent' = 0
       /\ UNCHANGED <<pc, shutdown, firstCycle, cycle, worker, openAttempt, unresolved, residue,
                      boots, epochs, failed, lost, scanned>>

(* Mutant: the drained row is committed but not applied to DaemonStatus. *)
BeginDrainRowOnly ==
    /\ ServerUp
    /\ ExactIdentity
    /\ row' = DrainingRow(row)
    /\ mem' = [mem EXCEPT !.phase = "draining"]
    /\ healthy' = TRUE
    /\ intent' = 0
    /\ lost' = TRUE
    /\ UNCHANGED <<pc, shutdown, firstCycle, cycle, worker, openAttempt, unresolved, residue,
                   boots, epochs, failed, scanned>>

BeginDrain ==
    /\ ServerUp
    /\ ExactIdentity
    /\ row' = DrainingRow(row)
    /\ mem' = row'
    /\ healthy' = TRUE
    /\ intent' = 0
    /\ lost' = TRUE
    /\ UNCHANGED <<pc, shutdown, firstCycle, cycle, worker, openAttempt, unresolved, residue,
                   boots, epochs, failed, scanned>>

(* clear_managed_enforce_request_offline: the service proved the daemon absent. *)
ClearEnforceOffline(g) ==
    /\ pc = "down"
    /\ row.gen = g
    /\ row' = OfflineRow(row)
    /\ intent' = 0
    /\ UNCHANGED <<process, openAttempt, unresolved, residue, boots, epochs, failed>>

-----------------------------------------------------------------------------
(* Exit. *)

(* SIGTERM or SIGINT. *)
RequestShutdown ==
    /\ pc \in {"begun", "recovered", "running"}
    /\ ~shutdown
    /\ shutdown' = TRUE
    /\ UNCHANGED <<row, mem, healthy, pc, firstCycle, cycle, worker, openAttempt,
                   unresolved, residue, boots, epochs, intent, failed, lost, scanned>>

(* The loop ends between cycles; shutdown_background_cleanup has joined. *)
LeaveLoop ==
    /\ pc = "running"
    /\ shutdown \/ mem.draining
    /\ cycle = NoCycle
    /\ worker \in {"none", "settled"}
    /\ worker' = "none"
    /\ pc' = "exiting"
    /\ UNCHANGED <<row, mem, healthy, shutdown, firstCycle, cycle, openAttempt,
                   unresolved, residue, boots, epochs, intent, failed, lost, scanned>>

MustPreserve == shutdown /\ ~mem.draining /\ ~firstCycle

(* preserve_managed_pre_ready_restart_intent, on a raw signal before ready. *)
PreservePreReadyIntent ==
    /\ pc = "exiting"
    /\ MustPreserve
    /\ ExactIdentity /\ ~row.draining /\ ~row.ready
    /\ row.phase \in {"recovering", "first_scan_report_only"}
    /\ row' = PreservedRow(row)
    /\ mem' = row'
    /\ pc' = "exited"
    /\ UNCHANGED <<healthy, shutdown, firstCycle, cycle, worker, openAttempt, unresolved, residue,
                   boots, epochs, intent, failed, lost, scanned>>

(* ... refused or failed: the ? leaves through the fail-closed guard. *)
PreserveRefused(ok) ==
    /\ pc = "exiting"
    /\ MustPreserve
    /\ \/ StoreMayFail
       \/ row.draining \/ row.ready
       \/ row.phase \notin {"recovering", "first_scan_report_only"}
    /\ FailClosedAndGone(ok)
    /\ UNCHANGED <<openAttempt, unresolved, residue, boots, epochs>>

OrdinaryExit ==
    /\ \/ pc = "exiting" /\ ~MustPreserve
       \/ pc = "exited"
    /\ ProcessGone
    /\ UNCHANGED <<durable, boots, epochs, intent, failed>>

(* A kill, a power loss, or an error exit after the first cycle. *)
Crash ==
    /\ pc # "down"
    /\ ProcessGone
    /\ UNCHANGED <<durable, boots, epochs, intent, failed>>

Next ==
    \/ \E g \in Generations : BeginManaged(g) \/ ClearEnforceOffline(g)
    \/ \E delivered \in BOOLEAN : FinishStartupRecovery(delivered)
    \/ NodeCacheDeliveryUnknown
    \/ StartServer
    \/ BeginCycle
    \/ CycleSucceeds
    \/ BeginCleanupAttempt
    \/ \E withResidue \in BOOLEAN : WorkerSettles(withResidue)
    \/ \E settled, delivered \in BOOLEAN : WorkerErrs(settled, delivered)
    \/ \E ok \in StoreOutcome :
          \/ StartupError(ok)
          \/ CycleFails(ok)
          \/ WorkerFailsClosed(ok)
          \/ MaintenanceFailsClosed(ok)
          \/ PreserveRefused(ok)
          \/ \E recovered \in StoreOutcome, delivered \in BOOLEAN :
                CollectWorker(ok, recovered, delivered)
    \/ \E kind \in {"uncertain", "residue"} : ResolveBlock(kind)
    \/ Arm
    \/ Disarm
    \/ BeginDrain
    \/ RequestShutdown
    \/ LeaveLoop
    \/ PreservePreReadyIntent
    \/ OrdinaryExit
    \/ Crash

Spec == Init /\ [][Next]_vars

(* run() is sequential code: each of its steps is eventually taken. The      *)
(* operator, launchd, crashes and faults owe nothing.                        *)
BootStep ==
    \/ \E delivered \in BOOLEAN : FinishStartupRecovery(delivered)
    \/ StartServer
    \/ BeginCycle
CycleEnds == CycleSucceeds \/ \E ok \in StoreOutcome : CycleFails(ok)
ExitStep ==
    \/ LeaveLoop
    \/ PreservePreReadyIntent
    \/ \E ok \in StoreOutcome : PreserveRefused(ok)
    \/ OrdinaryExit
Fairness == WF_vars(BootStep) /\ WF_vars(CycleEnds) /\ WF_vars(ExitStep)
FairSpec == Spec /\ Fairness

-----------------------------------------------------------------------------
(* Properties. *)

(* The CHECK constraint of the managed_lifecycle table, for the row and for  *)
(* its mirror: an effective lifecycle is requested, armed for its own        *)
(* generation under an epoch, ready and not draining.                        *)
EnforceShape(l) ==
    IF l.effective
    THEN l.requested /\ l.gen # 0 /\ l.armedGen = l.gen /\ l.epoch # 0 /\ l.ready
         /\ ~l.draining
    ELSE l.armedGen = 0 /\ l.epoch = 0

(* The running process never holds more authority than SQLite granted it:    *)
(* while its volatile signal gate is open, the durable row is armed for the  *)
(* same instance, generation and epoch, whatever writes failed before        *)
(* (apply_managed_lifecycle, fail_closed).                                   *)
GateBackedByRow ==
    GateOpen => /\ row.effective
                /\ row.inst = mem.inst /\ row.gen = mem.gen /\ row.epoch = mem.epoch

(* Failed and draining are terminal for an instance: no later cycle, Disarm, *)
(* Arm or shutdown write makes it ready or opens its gate again              *)
(* (complete_successful_cycle, handle_at, docs/SAFETY.md "Failed is terminal"). *)
LostStaysClosed == lost => ~GateOpen /\ ~mem.ready

(* A durable enforce request is always an operator's standing Arm of that    *)
(* generation: boots, first scans and preserved shutdowns only carry it, and *)
(* Disarm, drain, a committed fail-close, the offline clear and a change of  *)
(* generation drop it (begin_managed_boot).                                  *)
RequestIsOperators == row.requested => intent = row.gen

(* The first scan of an instance is signal-free: neither an open gate nor a  *)
(* cleanup worker exists before this instance has committed its first scan,  *)
(* however strong the intent it carried over from its predecessor            *)
(* (begin_managed_boot, finish_managed_first_scan, run_cycle_inner).         *)
FirstScanSignalFree == GateOpen \/ worker # "none" => scanned

(* An attempt that delivered without a proved result, or may have, keeps     *)
(* enforcement closed until it is resolved: the gate is open beside one only *)
(* while the worker that settled it still owes its fail_closed. A cleared    *)
(* tree with a known residue does not close the gate (managed_arm_blocker,   *)
(* receipt_requires_global_fail_close, docs/SAFETY.md).                      *)
UnresolvedClosesGate == unresolved /\ GateOpen => worker = "owes_fail_close"

(* After a managed failure only a new operator Arm opens the gate again:     *)
(* "Disarm, BeginDrain, managed failure, and a generation change clear that  *)
(* intent" (docs/SAFETY.md). True when the store accepts the fail-close;     *)
(* refuted when it does not.                                                 *)
FailureClearsIntent == failed => ~GateOpen

(* A booted instance does not linger between recovery and readiness: it      *)
(* commits its first scan, fails, drains or is gone (run, main.rs).          *)
BootSettles == (pc # "down") ~> (scanned \/ lost \/ pc = "down")

=============================================================================
