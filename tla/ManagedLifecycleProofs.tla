---------------------- MODULE ManagedLifecycleProofs ----------------------
(***************************************************************************)
(* Proofs about ManagedLifecycle, for every number of generations, boots   *)
(* and epochs, with SQLite writes that may fail.                           *)
(***************************************************************************)
EXTENDS ManagedLifecycle, TLAPS

(* The phases the transactions leave a row in. *)
PhaseShape(l) ==
    /\ l.effective => l.phase = "ready_enforce"
    /\ l.ready /\ ~l.effective => l.phase = "ready_report_only"
    /\ l.draining <=> l.phase = "draining"
    /\ l.draining => ~l.ready

(* The status fields of a live instance against its row. *)
MirrorInv ==
    /\ pc = "down" => mem = NoLifecycle /\ ~scanned
    /\ pc \in {"down", "begun"} => ~lost
    /\ pc # "down" => ExactIdentity /\ row.gen # 0
    /\ pc # "down" /\ ~lost => mem = row
    /\ mem.draining => row.draining
    /\ mem.phase = "draining" => mem.draining
    /\ mem.ready => ~lost
    /\ mem.draining \/ mem.phase = "failed" => lost
    /\ mem.effective => mem.ready

LostInv ==
    lost => \/ mem.phase = "failed"
            \/ mem.draining
            \/ pc = "exited" /\ ~row.ready

ProgressInv ==
    /\ cycle # NoCycle => pc = "running"
    /\ worker # "none" => scanned /\ pc = "running"
    /\ pc # "down" /\ row.ready => scanned
    /\ scanned => ServerUp
    /\ unresolved /\ mem.effective => worker = "owes_fail_close"

(* The inductive invariant. *)
LifecycleInv ==
    /\ TypeOK
    /\ EnforceShape(row)
    /\ EnforceShape(mem)
    /\ PhaseShape(row)
    /\ MirrorInv
    /\ LostInv
    /\ ProgressInv
    /\ RequestIsOperators

-----------------------------------------------------------------------------
(* What the transactions of store.rs preserve, whatever row they start from. *)

(* Every transaction of store.rs leaves a well-typed row. *)
LEMMA RowTypes ==
    ASSUME NEW l \in Lifecycle
    PROVE  /\ RecoveredRow(l) \in Lifecycle
           /\ PreservedRow(l) \in Lifecycle
           /\ \A e \in 0..MaxEpochs : ArmedRow(l, e) \in Lifecycle
           /\ \A b \in BOOLEAN : ReportOnlyRow(l, b) \in Lifecycle
           /\ DisarmedRow(l) \in Lifecycle
           /\ DrainingRow(l) \in Lifecycle
           /\ FailedRow(l) \in Lifecycle
           /\ FailedMemory(l) \in Lifecycle
           /\ OfflineRow(l) \in Lifecycle
<1>a. 0 \in 0..MaxGeneration /\ 0 \in 0..MaxEpochs
  BY LifecycleConstants
<1>0. Closed(l) \in Lifecycle
  BY <1>a DEF Lifecycle, Closed
<1> USE <1>0, LifecycleConstants DEF Lifecycle, Phases
<1>1. RecoveredRow(l) \in Lifecycle
  BY DEF RecoveredRow
<1>2. PreservedRow(l) \in Lifecycle
  BY DEF PreservedRow
<1>3. \A e \in 0..MaxEpochs : ArmedRow(l, e) \in Lifecycle
  BY DEF ArmedRow
<1>4. \A b \in BOOLEAN : ReportOnlyRow(l, b) \in Lifecycle
  BY DEF ReportOnlyRow
<1>5. DisarmedRow(l) \in Lifecycle
  BY DEF DisarmedRow
<1>6. DrainingRow(l) \in Lifecycle
  BY DEF DrainingRow
<1>7. FailedRow(l) \in Lifecycle
  BY DEF FailedRow
<1>8. FailedMemory(l) \in Lifecycle
  BY DEF FailedMemory
<1>9. OfflineRow(l) \in Lifecycle
  BY DEF OfflineRow
<1> QED
  BY <1>1, <1>2, <1>3, <1>4, <1>5, <1>6, <1>7, <1>8, <1>9

(* Every transaction leaves a row the CHECK constraint of the table accepts. *)
LEMMA RowShapes ==
    ASSUME NEW l \in Lifecycle, EnforceShape(l), PhaseShape(l)
    PROVE  /\ EnforceShape(RecoveredRow(l)) /\ (~l.draining => PhaseShape(RecoveredRow(l)))
           /\ EnforceShape(PreservedRow(l)) /\ PhaseShape(PreservedRow(l))
           /\ EnforceShape(DisarmedRow(l)) /\ PhaseShape(DisarmedRow(l))
           /\ EnforceShape(DrainingRow(l)) /\ PhaseShape(DrainingRow(l))
           /\ EnforceShape(FailedRow(l)) /\ PhaseShape(FailedRow(l))
           /\ EnforceShape(OfflineRow(l)) /\ PhaseShape(OfflineRow(l))
           /\ \A b \in BOOLEAN : EnforceShape(ReportOnlyRow(l, b)) /\ PhaseShape(ReportOnlyRow(l, b))
           /\ \A e \in 1..MaxEpochs : l.gen # 0 =>
                 EnforceShape(ArmedRow(l, e)) /\ PhaseShape(ArmedRow(l, e))
  BY LifecycleConstants DEF Lifecycle, Closed, RecoveredRow, PreservedRow, ArmedRow, ReportOnlyRow,
         DisarmedRow, DrainingRow, FailedRow, OfflineRow, EnforceShape, PhaseShape

-----------------------------------------------------------------------------
(* The absent lifecycle is well typed and carries no authority. *)
LEMMA NoLifecycleFacts ==
    /\ NoLifecycle \in Lifecycle
    /\ EnforceShape(NoLifecycle) /\ PhaseShape(NoLifecycle)
    /\ ~NoLifecycle.ready /\ ~NoLifecycle.effective /\ ~NoLifecycle.draining
    /\ ~NoLifecycle.requested
    /\ NoLifecycle.phase = "absent"
<1>1. 0 \in 0..MaxGeneration /\ 0 \in 0..MaxEpochs /\ 0 \in 0..MaxBoots
  BY LifecycleConstants
<1> QED
  BY <1>1 DEF NoLifecycle, Lifecycle, Phases, EnforceShape, PhaseShape

(* The value for "no cycle" is in the range of cycle. *)
LEMMA NoCycleType == NoCycle \in 0..NoCycle
  BY LifecycleConstants DEF NoCycle

(* A daemon that never booted satisfies the invariant. *)
LEMMA InitEstablishes == Init => LifecycleInv
<1> SUFFICES ASSUME Init PROVE LifecycleInv
  OBVIOUS
<1> USE NoLifecycleFacts
<1>1. NoCycle \in 0..NoCycle /\ 0 \in 0..MaxGeneration /\ 0 \in 0..MaxEpochs /\ 0 \in 0..MaxBoots
  BY LifecycleConstants DEF NoCycle
<1>2. TypeOK
  BY <1>1 DEF Init, TypeOK
<1>3. EnforceShape(row) /\ EnforceShape(mem) /\ PhaseShape(row)
  BY DEF Init
<1>4. MirrorInv /\ LostInv /\ ProgressInv /\ RequestIsOperators
  BY DEF Init, MirrorInv, LostInv, ProgressInv, RequestIsOperators
<1> QED
  BY <1>2, <1>3, <1>4 DEF LifecycleInv

(* What every step that fails closed leaves behind. *)
FailClosedFacts ==
    /\ row' \in Lifecycle /\ mem' \in Lifecycle
    /\ EnforceShape(row') /\ EnforceShape(mem') /\ PhaseShape(row')
    /\ row'.gen = row.gen
    /\ row'.gen = mem'.gen /\ row'.inst = mem'.inst
    /\ mem'.draining => row'.draining
    /\ ~mem'.ready /\ ~mem'.effective /\ mem'.phase = "failed"
    /\ row'.ready => row.ready
    /\ row'.requested => intent' = row'.gen
    /\ intent' \in 0..MaxGeneration
    /\ healthy' = FALSE /\ failed' = TRUE /\ lost' = TRUE

(* fail_closed, committed or not, ends in a closed, failed memory. *)
LEMMA FailClosedStep ==
    ASSUME LifecycleInv, pc # "down", NEW ok \in BOOLEAN, FailClosed(ok)
    PROVE  FailClosedFacts
<1> DEFINE committed == ok /\ ExactIdentity
<1>1. row \in Lifecycle /\ mem \in Lifecycle /\ ExactIdentity
  BY DEF LifecycleInv, TypeOK, MirrorInv
<1>2. /\ row' = IF committed THEN FailedRow(row) ELSE row
      /\ mem' = FailedMemory(IF committed THEN FailedRow(row) ELSE mem)
      /\ healthy' = FALSE
      /\ intent' = IF committed THEN 0 ELSE intent
      /\ failed' = TRUE
      /\ lost' = TRUE
  BY DEF FailClosed
<1>3. row' \in Lifecycle /\ mem' \in Lifecycle
  BY <1>1, <1>2, RowTypes
<1>4. EnforceShape(row') /\ PhaseShape(row')
  BY <1>1, <1>2, RowShapes DEF LifecycleInv
<1>5. \A l \in Lifecycle :
        /\ ~FailedMemory(l).ready /\ ~FailedMemory(l).effective
        /\ FailedMemory(l).phase = "failed"
        /\ FailedMemory(l).draining = l.draining
        /\ FailedMemory(l).gen = l.gen /\ FailedMemory(l).inst = l.inst
        /\ EnforceShape(FailedMemory(l))
  BY DEF FailedMemory, Closed, Lifecycle, EnforceShape
<1>6. /\ FailedRow(row).gen = row.gen /\ FailedRow(row).inst = row.inst
      /\ ~FailedRow(row).ready /\ ~FailedRow(row).requested
  BY <1>1 DEF FailedRow, Closed, Lifecycle
<1>7. row'.gen = row.gen /\ row'.gen = mem'.gen /\ row'.inst = mem'.inst
  BY <1>1, <1>2, <1>5, <1>6, RowTypes DEF ExactIdentity
<1>8. mem'.draining => row'.draining
  BY <1>1, <1>2, <1>5, RowTypes DEF LifecycleInv, MirrorInv
<1>9. ~mem'.ready /\ ~mem'.effective /\ mem'.phase = "failed" /\ EnforceShape(mem')
  BY <1>1, <1>2, <1>5, RowTypes
<1>10. (row'.ready => row.ready) /\ (row'.requested => intent' = row'.gen)
  BY <1>1, <1>2, <1>6 DEF LifecycleInv, RequestIsOperators
<1>11. intent' \in 0..MaxGeneration
  BY <1>2, LifecycleConstants DEF LifecycleInv, TypeOK
<1> QED
  BY <1>2, <1>3, <1>4, <1>7, <1>8, <1>9, <1>10, <1>11 DEF FailClosedFacts

-----------------------------------------------------------------------------
(* Steps that end in fail_closed. *)

(* A failed cycle preserves the invariant. *)
LEMMA CycleFailsStep ==
    ASSUME LifecycleInv, NEW ok \in BOOLEAN, CycleFails(ok)
    PROVE  LifecycleInv'
<1> USE LifecycleConstants
<1>f. pc # "down"
  BY DEF CycleFails, LifecycleInv, ProgressInv, ServerUp
<1>h. FailClosedFacts
  BY <1>f, FailClosedStep DEF CycleFails
<1>1. TypeOK'
  BY <1>f, <1>h, NoCycleType DEF FailClosedFacts, CycleFails, LifecycleInv, TypeOK
<1>2. EnforceShape(row') /\ EnforceShape(mem') /\ PhaseShape(row')
  BY <1>f, <1>h DEF FailClosedFacts, CycleFails, LifecycleInv
<1>3. MirrorInv'
  BY <1>f, <1>h DEF FailClosedFacts, CycleFails, LifecycleInv, MirrorInv, LostInv, ProgressInv, ExactIdentity, ServerUp
<1>4. LostInv'
  BY <1>f, <1>h DEF FailClosedFacts, CycleFails, LifecycleInv, LostInv, MirrorInv
<1>5. ProgressInv'
  BY <1>f, <1>h DEF FailClosedFacts, CycleFails, LifecycleInv, TypeOK, ProgressInv, MirrorInv, ServerUp, NoCycle
<1>6. RequestIsOperators'
  BY <1>f, <1>h DEF FailClosedFacts, CycleFails, LifecycleInv, RequestIsOperators
<1> QED
  BY <1>1, <1>2, <1>3, <1>4, <1>5, <1>6 DEF LifecycleInv, EnforceShape, PhaseShape

(* The fail-close of the worker thread preserves the invariant. *)
LEMMA WorkerFailsClosedStep ==
    ASSUME LifecycleInv, NEW ok \in BOOLEAN, WorkerFailsClosed(ok)
    PROVE  LifecycleInv'
<1> USE LifecycleConstants
<1>f. pc # "down"
  BY DEF WorkerFailsClosed, LifecycleInv, ProgressInv, ServerUp
<1>h. FailClosedFacts
  BY <1>f, FailClosedStep DEF WorkerFailsClosed
<1>1. TypeOK'
  BY <1>f, <1>h DEF FailClosedFacts, WorkerFailsClosed, LifecycleInv, TypeOK, NoCycle
<1>2. EnforceShape(row') /\ EnforceShape(mem') /\ PhaseShape(row')
  BY <1>f, <1>h DEF FailClosedFacts, WorkerFailsClosed, LifecycleInv
<1>3. MirrorInv'
  BY <1>f, <1>h DEF FailClosedFacts, WorkerFailsClosed, LifecycleInv, MirrorInv, LostInv, ProgressInv, ExactIdentity, ServerUp
<1>4. LostInv'
  BY <1>f, <1>h DEF FailClosedFacts, WorkerFailsClosed, LifecycleInv, LostInv, MirrorInv
<1>5. ProgressInv'
  BY <1>f, <1>h DEF FailClosedFacts, WorkerFailsClosed, LifecycleInv, TypeOK, ProgressInv, MirrorInv, ServerUp, NoCycle
<1>6. RequestIsOperators'
  BY <1>f, <1>h DEF FailClosedFacts, WorkerFailsClosed, LifecycleInv, RequestIsOperators
<1> QED
  BY <1>1, <1>2, <1>3, <1>4, <1>5, <1>6 DEF LifecycleInv, EnforceShape, PhaseShape

(* A fail-close by a maintenance worker preserves the invariant. *)
LEMMA MaintenanceFailsClosedStep ==
    ASSUME LifecycleInv, NEW ok \in BOOLEAN, MaintenanceFailsClosed(ok)
    PROVE  LifecycleInv'
<1> USE LifecycleConstants
<1>f. pc # "down"
  BY DEF MaintenanceFailsClosed, LifecycleInv, ProgressInv, ServerUp
<1>h. FailClosedFacts
  BY <1>f, FailClosedStep DEF MaintenanceFailsClosed
<1>1. TypeOK'
  BY <1>f, <1>h DEF FailClosedFacts, MaintenanceFailsClosed, LifecycleInv, TypeOK, NoCycle
<1>2. EnforceShape(row') /\ EnforceShape(mem') /\ PhaseShape(row')
  BY <1>f, <1>h DEF FailClosedFacts, MaintenanceFailsClosed, LifecycleInv
<1>3. MirrorInv'
  BY <1>f, <1>h DEF FailClosedFacts, MaintenanceFailsClosed, LifecycleInv, MirrorInv, LostInv, ProgressInv, ExactIdentity, ServerUp
<1>4. LostInv'
  BY <1>f, <1>h DEF FailClosedFacts, MaintenanceFailsClosed, LifecycleInv, LostInv, MirrorInv
<1>5. ProgressInv'
  BY <1>f, <1>h DEF FailClosedFacts, MaintenanceFailsClosed, LifecycleInv, TypeOK, ProgressInv, MirrorInv, ServerUp, NoCycle
<1>6. RequestIsOperators'
  BY <1>f, <1>h DEF FailClosedFacts, MaintenanceFailsClosed, LifecycleInv, RequestIsOperators
<1> QED
  BY <1>1, <1>2, <1>3, <1>4, <1>5, <1>6 DEF LifecycleInv, EnforceShape, PhaseShape

(* Joining the worker and recovering its attempt preserves the invariant. *)
LEMMA CollectWorkerStep ==
    ASSUME LifecycleInv, NEW ok \in BOOLEAN, NEW recovered \in BOOLEAN, NEW delivered \in BOOLEAN,
           CollectWorker(ok, recovered, delivered)
    PROVE  LifecycleInv'
<1> USE LifecycleConstants
<1>f. pc # "down"
  BY DEF CollectWorker, LifecycleInv, ProgressInv, ServerUp
<1>h. FailClosedFacts
  BY <1>f, FailClosedStep DEF CollectWorker
<1>1. TypeOK'
  BY <1>f, <1>h DEF FailClosedFacts, CollectWorker, LifecycleInv, TypeOK, NoCycle
<1>2. EnforceShape(row') /\ EnforceShape(mem') /\ PhaseShape(row')
  BY <1>f, <1>h DEF FailClosedFacts, CollectWorker, LifecycleInv
<1>3. MirrorInv'
  BY <1>f, <1>h DEF FailClosedFacts, CollectWorker, LifecycleInv, MirrorInv, LostInv, ProgressInv, ExactIdentity, ServerUp
<1>4. LostInv'
  BY <1>f, <1>h DEF FailClosedFacts, CollectWorker, LifecycleInv, LostInv, MirrorInv
<1>5. ProgressInv'
  BY <1>f, <1>h DEF FailClosedFacts, CollectWorker, LifecycleInv, TypeOK, ProgressInv, MirrorInv, ServerUp, NoCycle
<1>6. RequestIsOperators'
  BY <1>f, <1>h DEF FailClosedFacts, CollectWorker, LifecycleInv, RequestIsOperators
<1> QED
  BY <1>1, <1>2, <1>3, <1>4, <1>5, <1>6 DEF LifecycleInv, EnforceShape, PhaseShape

(* An unknown node-cache delivery found at boot preserves the invariant. *)
LEMMA NodeCacheStep ==
    ASSUME LifecycleInv, NodeCacheDeliveryUnknown
    PROVE  LifecycleInv'
<1> USE LifecycleConstants
<1>f. pc # "down"
  BY DEF NodeCacheDeliveryUnknown, LifecycleInv, ProgressInv, ServerUp
<1>h. FailClosedFacts
  BY <1>f, FailClosedStep DEF NodeCacheDeliveryUnknown
<1>1. TypeOK'
  BY <1>f, <1>h DEF FailClosedFacts, NodeCacheDeliveryUnknown, LifecycleInv, TypeOK, NoCycle
<1>2. EnforceShape(row') /\ EnforceShape(mem') /\ PhaseShape(row')
  BY <1>f, <1>h DEF FailClosedFacts, NodeCacheDeliveryUnknown, LifecycleInv
<1>3. MirrorInv'
  BY <1>f, <1>h DEF FailClosedFacts, NodeCacheDeliveryUnknown, LifecycleInv, MirrorInv, LostInv, ProgressInv, ExactIdentity, ServerUp
<1>4. LostInv'
  BY <1>f, <1>h DEF FailClosedFacts, NodeCacheDeliveryUnknown, LifecycleInv, LostInv, MirrorInv
<1>5. ProgressInv'
  BY <1>f, <1>h DEF FailClosedFacts, NodeCacheDeliveryUnknown, LifecycleInv, TypeOK, ProgressInv, MirrorInv, ServerUp, NoCycle
<1>6. RequestIsOperators'
  BY <1>f, <1>h DEF FailClosedFacts, NodeCacheDeliveryUnknown, LifecycleInv, RequestIsOperators
<1> QED
  BY <1>1, <1>2, <1>3, <1>4, <1>5, <1>6 DEF LifecycleInv, EnforceShape, PhaseShape

-----------------------------------------------------------------------------
(* Steps that leave the row and its mirror alone. *)

(* Starting the IPC server preserves the invariant. *)
LEMMA StartServerStep ==
    ASSUME LifecycleInv, StartServer
    PROVE  LifecycleInv'
<1> USE LifecycleConstants
<1>1. TypeOK'
  BY NoCycleType DEF StartServer, LifecycleInv, TypeOK
<1>2. EnforceShape(row') /\ EnforceShape(mem') /\ PhaseShape(row')
  BY NoCycleType DEF StartServer, LifecycleInv
<1>3. MirrorInv'
  BY NoCycleType DEF StartServer, LifecycleInv, MirrorInv, LostInv, ProgressInv,
     ExactIdentity, ServerUp
<1>4. LostInv'
  BY NoCycleType DEF StartServer, LifecycleInv, LostInv, MirrorInv
<1>5. ProgressInv'
  BY NoCycleType DEF StartServer, LifecycleInv, TypeOK, ProgressInv, MirrorInv, ServerUp
<1>6. RequestIsOperators'
  BY NoCycleType DEF StartServer, LifecycleInv, RequestIsOperators
<1> QED
  BY <1>1, <1>2, <1>3, <1>4, <1>5, <1>6 DEF LifecycleInv, EnforceShape, PhaseShape

(* Freezing the epoch of a cycle preserves the invariant. *)
LEMMA BeginCycleStep ==
    ASSUME LifecycleInv, BeginCycle
    PROVE  LifecycleInv'
<1> USE LifecycleConstants
<1>a. mem.epoch \in 0..NoCycle
  BY DEF LifecycleInv, TypeOK, Lifecycle, NoCycle
<1>1. TypeOK'
  BY <1>a DEF BeginCycle, LifecycleInv, TypeOK
<1>2. EnforceShape(row') /\ EnforceShape(mem') /\ PhaseShape(row')
  BY NoCycleType DEF BeginCycle, LifecycleInv
<1>3. MirrorInv'
  BY NoCycleType DEF BeginCycle, LifecycleInv, MirrorInv, LostInv, ProgressInv,
     ExactIdentity, ServerUp
<1>4. LostInv'
  BY NoCycleType DEF BeginCycle, LifecycleInv, LostInv, MirrorInv
<1>5. ProgressInv'
  BY NoCycleType DEF BeginCycle, LifecycleInv, TypeOK, ProgressInv, MirrorInv, ServerUp
<1>6. RequestIsOperators'
  BY NoCycleType DEF BeginCycle, LifecycleInv, RequestIsOperators
<1> QED
  BY <1>1, <1>2, <1>3, <1>4, <1>5, <1>6 DEF LifecycleInv, EnforceShape, PhaseShape

(* An attempt begins only behind an open gate, so after the first scan. *)
LEMMA BeginCleanupAttemptStep ==
    ASSUME LifecycleInv, BeginCleanupAttempt
    PROVE  LifecycleInv'
<1> USE LifecycleConstants
<1>1. TypeOK'
  BY NoCycleType DEF BeginCleanupAttempt, SignalGateMatches, NoCycle, LifecycleInv, TypeOK
<1>2. EnforceShape(row') /\ EnforceShape(mem') /\ PhaseShape(row')
  BY NoCycleType DEF BeginCleanupAttempt, SignalGateMatches, NoCycle, LifecycleInv
<1>3. MirrorInv'
  BY NoCycleType DEF BeginCleanupAttempt, SignalGateMatches, NoCycle, LifecycleInv, MirrorInv, LostInv, ProgressInv,
     ExactIdentity, ServerUp
<1>4. LostInv'
  BY NoCycleType DEF BeginCleanupAttempt, SignalGateMatches, NoCycle, LifecycleInv, LostInv, MirrorInv
<1>5. ProgressInv'
  BY NoCycleType DEF BeginCleanupAttempt, SignalGateMatches, NoCycle, LifecycleInv, TypeOK, ProgressInv, MirrorInv, ServerUp
<1>6. RequestIsOperators'
  BY NoCycleType DEF BeginCleanupAttempt, SignalGateMatches, NoCycle, LifecycleInv, RequestIsOperators
<1> QED
  BY <1>1, <1>2, <1>3, <1>4, <1>5, <1>6 DEF LifecycleInv, EnforceShape, PhaseShape

(* A settled attempt that owes nothing preserves the invariant. *)
LEMMA WorkerSettlesStep ==
    ASSUME LifecycleInv, NEW withResidue \in BOOLEAN, WorkerSettles(withResidue)
    PROVE  LifecycleInv'
<1> USE LifecycleConstants
<1>1. TypeOK'
  BY NoCycleType DEF WorkerSettles, LifecycleInv, TypeOK
<1>2. EnforceShape(row') /\ EnforceShape(mem') /\ PhaseShape(row')
  BY NoCycleType DEF WorkerSettles, LifecycleInv
<1>3. MirrorInv'
  BY NoCycleType DEF WorkerSettles, LifecycleInv, MirrorInv, LostInv, ProgressInv,
     ExactIdentity, ServerUp
<1>4. LostInv'
  BY NoCycleType DEF WorkerSettles, LifecycleInv, LostInv, MirrorInv
<1>5. ProgressInv'
  BY NoCycleType DEF WorkerSettles, LifecycleInv, TypeOK, ProgressInv, MirrorInv, ServerUp
<1>6. RequestIsOperators'
  BY NoCycleType DEF WorkerSettles, LifecycleInv, RequestIsOperators
<1> QED
  BY <1>1, <1>2, <1>3, <1>4, <1>5, <1>6 DEF LifecycleInv, EnforceShape, PhaseShape

(* An attempt that ends in doubt leaves its worker owing the fail-close. *)
LEMMA WorkerErrsStep ==
    ASSUME LifecycleInv, NEW settled \in BOOLEAN, NEW delivered \in BOOLEAN,
           WorkerErrs(settled, delivered)
    PROVE  LifecycleInv'
<1> USE LifecycleConstants
<1>1. TypeOK'
  BY NoCycleType DEF WorkerErrs, LifecycleInv, TypeOK
<1>2. EnforceShape(row') /\ EnforceShape(mem') /\ PhaseShape(row')
  BY NoCycleType DEF WorkerErrs, LifecycleInv
<1>3. MirrorInv'
  BY NoCycleType DEF WorkerErrs, LifecycleInv, MirrorInv, LostInv, ProgressInv,
     ExactIdentity, ServerUp
<1>4. LostInv'
  BY NoCycleType DEF WorkerErrs, LifecycleInv, LostInv, MirrorInv
<1>5. ProgressInv'
  BY NoCycleType DEF WorkerErrs, LifecycleInv, TypeOK, ProgressInv, MirrorInv, ServerUp
<1>6. RequestIsOperators'
  BY NoCycleType DEF WorkerErrs, LifecycleInv, RequestIsOperators
<1> QED
  BY <1>1, <1>2, <1>3, <1>4, <1>5, <1>6 DEF LifecycleInv, EnforceShape, PhaseShape

(* Deleting a retry block preserves the invariant. *)
LEMMA ResolveBlockStep ==
    ASSUME LifecycleInv, NEW kind, ResolveBlock(kind)
    PROVE  LifecycleInv'
<1> USE LifecycleConstants
<1>1. TypeOK'
  BY NoCycleType DEF ResolveBlock, LifecycleInv, TypeOK
<1>2. EnforceShape(row') /\ EnforceShape(mem') /\ PhaseShape(row')
  BY NoCycleType DEF ResolveBlock, LifecycleInv
<1>3. MirrorInv'
  BY NoCycleType DEF ResolveBlock, LifecycleInv, MirrorInv, LostInv, ProgressInv,
     ExactIdentity, ServerUp
<1>4. LostInv'
  BY NoCycleType DEF ResolveBlock, LifecycleInv, LostInv, MirrorInv
<1>5. ProgressInv'
  BY NoCycleType DEF ResolveBlock, LifecycleInv, TypeOK, ProgressInv, MirrorInv, ServerUp
<1>6. RequestIsOperators'
  BY NoCycleType DEF ResolveBlock, LifecycleInv, RequestIsOperators
<1> QED
  BY <1>1, <1>2, <1>3, <1>4, <1>5, <1>6 DEF LifecycleInv, EnforceShape, PhaseShape

(* The shutdown flag does not touch authority. *)
LEMMA RequestShutdownStep ==
    ASSUME LifecycleInv, RequestShutdown
    PROVE  LifecycleInv'
<1> USE LifecycleConstants
<1>1. TypeOK'
  BY NoCycleType DEF RequestShutdown, LifecycleInv, TypeOK
<1>2. EnforceShape(row') /\ EnforceShape(mem') /\ PhaseShape(row')
  BY NoCycleType DEF RequestShutdown, LifecycleInv
<1>3. MirrorInv'
  BY NoCycleType DEF RequestShutdown, LifecycleInv, MirrorInv, LostInv, ProgressInv,
     ExactIdentity, ServerUp
<1>4. LostInv'
  BY NoCycleType DEF RequestShutdown, LifecycleInv, LostInv, MirrorInv
<1>5. ProgressInv'
  BY NoCycleType DEF RequestShutdown, LifecycleInv, TypeOK, ProgressInv, MirrorInv, ServerUp
<1>6. RequestIsOperators'
  BY NoCycleType DEF RequestShutdown, LifecycleInv, RequestIsOperators
<1> QED
  BY <1>1, <1>2, <1>3, <1>4, <1>5, <1>6 DEF LifecycleInv, EnforceShape, PhaseShape

(* Leaving the loop does not touch authority. *)
LEMMA LeaveLoopStep ==
    ASSUME LifecycleInv, LeaveLoop
    PROVE  LifecycleInv'
<1> USE LifecycleConstants
<1>1. TypeOK'
  BY NoCycleType DEF LeaveLoop, LifecycleInv, TypeOK
<1>2. EnforceShape(row') /\ EnforceShape(mem') /\ PhaseShape(row')
  BY NoCycleType DEF LeaveLoop, LifecycleInv
<1>3. MirrorInv'
  BY NoCycleType DEF LeaveLoop, LifecycleInv, MirrorInv, LostInv, ProgressInv,
     ExactIdentity, ServerUp
<1>4. LostInv'
  BY NoCycleType DEF LeaveLoop, LifecycleInv, LostInv, MirrorInv
<1>5. ProgressInv'
  BY NoCycleType DEF LeaveLoop, LifecycleInv, TypeOK, ProgressInv, MirrorInv, ServerUp
<1>6. RequestIsOperators'
  BY NoCycleType DEF LeaveLoop, LifecycleInv, RequestIsOperators
<1> QED
  BY <1>1, <1>2, <1>3, <1>4, <1>5, <1>6 DEF LifecycleInv, EnforceShape, PhaseShape

-----------------------------------------------------------------------------
(* Steps in which the process goes away. *)

(* An ordinary exit forgets memory and keeps the row. *)
LEMMA OrdinaryExitStep ==
    ASSUME LifecycleInv, OrdinaryExit
    PROVE  LifecycleInv'
<1> USE LifecycleConstants
<1>1. TypeOK'
  BY NoLifecycleFacts, NoCycleType DEF OrdinaryExit, ProcessGone, durable, LifecycleInv, TypeOK
<1>2. EnforceShape(row') /\ EnforceShape(mem') /\ PhaseShape(row')
  BY NoLifecycleFacts, NoCycleType DEF OrdinaryExit, ProcessGone, durable, LifecycleInv
<1>3. MirrorInv'
  BY NoLifecycleFacts, NoCycleType DEF OrdinaryExit, ProcessGone, durable, LifecycleInv, MirrorInv, LostInv, ProgressInv,
     ExactIdentity, ServerUp
<1>4. LostInv'
  BY NoLifecycleFacts, NoCycleType DEF OrdinaryExit, ProcessGone, durable, LifecycleInv, LostInv, MirrorInv
<1>5. ProgressInv'
  BY NoLifecycleFacts, NoCycleType DEF OrdinaryExit, ProcessGone, durable, LifecycleInv, TypeOK, ProgressInv, MirrorInv, ServerUp
<1>6. RequestIsOperators'
  BY NoLifecycleFacts, NoCycleType DEF OrdinaryExit, ProcessGone, durable, LifecycleInv, RequestIsOperators
<1> QED
  BY <1>1, <1>2, <1>3, <1>4, <1>5, <1>6 DEF LifecycleInv, EnforceShape, PhaseShape

(* A crash forgets memory and keeps the row. *)
LEMMA CrashStep ==
    ASSUME LifecycleInv, Crash
    PROVE  LifecycleInv'
<1> USE LifecycleConstants
<1>1. TypeOK'
  BY NoLifecycleFacts, NoCycleType DEF Crash, ProcessGone, durable, LifecycleInv, TypeOK
<1>2. EnforceShape(row') /\ EnforceShape(mem') /\ PhaseShape(row')
  BY NoLifecycleFacts, NoCycleType DEF Crash, ProcessGone, durable, LifecycleInv
<1>3. MirrorInv'
  BY NoLifecycleFacts, NoCycleType DEF Crash, ProcessGone, durable, LifecycleInv, MirrorInv, LostInv, ProgressInv,
     ExactIdentity, ServerUp
<1>4. LostInv'
  BY NoLifecycleFacts, NoCycleType DEF Crash, ProcessGone, durable, LifecycleInv, LostInv, MirrorInv
<1>5. ProgressInv'
  BY NoLifecycleFacts, NoCycleType DEF Crash, ProcessGone, durable, LifecycleInv, TypeOK, ProgressInv, MirrorInv, ServerUp
<1>6. RequestIsOperators'
  BY NoLifecycleFacts, NoCycleType DEF Crash, ProcessGone, durable, LifecycleInv, RequestIsOperators
<1> QED
  BY <1>1, <1>2, <1>3, <1>4, <1>5, <1>6 DEF LifecycleInv, EnforceShape, PhaseShape

(* A startup error fails closed, durably or not, and exits. *)
LEMMA StartupErrorStep ==
    ASSUME LifecycleInv, NEW ok \in BOOLEAN, StartupError(ok)
    PROVE  LifecycleInv'
<1> USE LifecycleConstants
<1>a. /\ FailedRow(row) \in Lifecycle /\ EnforceShape(FailedRow(row))
      /\ PhaseShape(FailedRow(row)) /\ ~FailedRow(row).requested
  <2>1. row \in Lifecycle
    BY DEF LifecycleInv, TypeOK
  <2>2. ~FailedRow(row).requested
    BY <2>1 DEF FailedRow, Closed, Lifecycle
  <2> QED
    BY <2>1, <2>2, RowTypes, RowShapes DEF LifecycleInv
<1>b. intent' \in 0..MaxGeneration
  BY DEF StartupError, FailClosedAndGone, LifecycleInv, TypeOK
<1>1. TypeOK'
  BY <1>a, <1>b, NoLifecycleFacts, NoCycleType
     DEF StartupError, FailClosedAndGone, ProcessGone, LifecycleInv, TypeOK
<1>2. EnforceShape(row') /\ EnforceShape(mem') /\ PhaseShape(row')
  BY <1>a, NoLifecycleFacts, NoCycleType DEF StartupError, FailClosedAndGone, ProcessGone, LifecycleInv
<1>3. MirrorInv'
  BY <1>a, NoLifecycleFacts, NoCycleType DEF StartupError, FailClosedAndGone, ProcessGone, LifecycleInv, MirrorInv, LostInv, ProgressInv,
     ExactIdentity, ServerUp
<1>4. LostInv'
  BY <1>a, NoLifecycleFacts, NoCycleType DEF StartupError, FailClosedAndGone, ProcessGone, LifecycleInv, LostInv, MirrorInv
<1>5. ProgressInv'
  BY <1>a, NoLifecycleFacts, NoCycleType DEF StartupError, FailClosedAndGone, ProcessGone, LifecycleInv, TypeOK, ProgressInv, MirrorInv, ServerUp
<1>6. RequestIsOperators'
  BY <1>a, NoLifecycleFacts, NoCycleType DEF StartupError, FailClosedAndGone, ProcessGone, LifecycleInv, RequestIsOperators
<1> QED
  BY <1>1, <1>2, <1>3, <1>4, <1>5, <1>6 DEF LifecycleInv, EnforceShape, PhaseShape

(* A refused preservation fails closed and exits. *)
LEMMA PreserveRefusedStep ==
    ASSUME LifecycleInv, NEW ok \in BOOLEAN, PreserveRefused(ok)
    PROVE  LifecycleInv'
<1> USE LifecycleConstants
<1>a. /\ FailedRow(row) \in Lifecycle /\ EnforceShape(FailedRow(row))
      /\ PhaseShape(FailedRow(row)) /\ ~FailedRow(row).requested
  <2>1. row \in Lifecycle
    BY DEF LifecycleInv, TypeOK
  <2>2. ~FailedRow(row).requested
    BY <2>1 DEF FailedRow, Closed, Lifecycle
  <2> QED
    BY <2>1, <2>2, RowTypes, RowShapes DEF LifecycleInv
<1>b. intent' \in 0..MaxGeneration
  BY DEF PreserveRefused, FailClosedAndGone, LifecycleInv, TypeOK
<1>1. TypeOK'
  BY <1>a, <1>b, NoLifecycleFacts, NoCycleType
     DEF PreserveRefused, FailClosedAndGone, ProcessGone, LifecycleInv, TypeOK
<1>2. EnforceShape(row') /\ EnforceShape(mem') /\ PhaseShape(row')
  BY <1>a, NoLifecycleFacts, NoCycleType DEF PreserveRefused, FailClosedAndGone, ProcessGone, LifecycleInv
<1>3. MirrorInv'
  BY <1>a, NoLifecycleFacts, NoCycleType DEF PreserveRefused, FailClosedAndGone, ProcessGone, LifecycleInv, MirrorInv, LostInv, ProgressInv,
     ExactIdentity, ServerUp
<1>4. LostInv'
  BY <1>a, NoLifecycleFacts, NoCycleType DEF PreserveRefused, FailClosedAndGone, ProcessGone, LifecycleInv, LostInv, MirrorInv
<1>5. ProgressInv'
  BY <1>a, NoLifecycleFacts, NoCycleType DEF PreserveRefused, FailClosedAndGone, ProcessGone, LifecycleInv, TypeOK, ProgressInv, MirrorInv, ServerUp
<1>6. RequestIsOperators'
  BY <1>a, NoLifecycleFacts, NoCycleType DEF PreserveRefused, FailClosedAndGone, ProcessGone, LifecycleInv, RequestIsOperators
<1> QED
  BY <1>1, <1>2, <1>3, <1>4, <1>5, <1>6 DEF LifecycleInv, EnforceShape, PhaseShape

-----------------------------------------------------------------------------
(* Steps that rewrite the row. *)

(* The fields each transaction leaves, for a well-shaped row. *)
LEMMA RowFields ==
    ASSUME NEW l \in Lifecycle
    PROVE  /\ LET r == RecoveredRow(l) IN
              /\ r.gen = l.gen /\ r.inst = l.inst /\ r.requested = l.requested
              /\ ~r.effective /\ ~r.ready /\ r.draining = l.draining
              /\ r.phase = "first_scan_report_only"
           /\ LET r == PreservedRow(l) IN
              /\ r.gen = l.gen /\ r.inst = l.inst /\ r.requested = l.requested
              /\ ~r.effective /\ ~r.ready /\ ~r.draining /\ r.phase = "ready_report_only"
           /\ LET r == DisarmedRow(l) IN
              /\ r.gen = l.gen /\ r.inst = l.inst /\ ~r.requested
              /\ ~r.effective /\ r.ready = l.ready /\ r.draining = l.draining
              /\ r.phase \in {"draining", "ready_report_only", l.phase}
           /\ LET r == DrainingRow(l) IN
              /\ r.gen = l.gen /\ r.inst = l.inst /\ ~r.requested
              /\ ~r.effective /\ ~r.ready /\ r.draining /\ r.phase = "draining"
           /\ LET r == FailedRow(l) IN
              /\ r.gen = l.gen /\ r.inst = l.inst /\ ~r.requested
              /\ ~r.effective /\ ~r.ready /\ r.draining = l.draining
              /\ r.phase = IF l.draining THEN "draining" ELSE "failed"
           /\ LET r == OfflineRow(l) IN
              /\ r.gen = l.gen /\ r.inst = l.inst /\ ~r.requested /\ ~r.effective /\ ~r.ready
           /\ \A e \in 1..MaxEpochs : LET r == ArmedRow(l, e) IN
              /\ r.gen = l.gen /\ r.inst = l.inst /\ r.effective /\ r.ready /\ ~r.draining
              /\ r.phase = "ready_enforce"
           /\ \A b \in BOOLEAN : LET r == ReportOnlyRow(l, b) IN
              /\ r.gen = l.gen /\ r.inst = l.inst /\ (r.requested => l.requested /\ ~b)
              /\ ~r.effective /\ r.ready /\ ~r.draining /\ r.phase = "ready_report_only"
<1> USE DEF Lifecycle, Closed
<1> QED
  BY DEF RecoveredRow, PreservedRow, DisarmedRow, DrainingRow, FailedRow, OfflineRow,
         ArmedRow, ReportOnlyRow

(* Recovery settles open attempts and stays closed. *)
LEMMA FinishStartupRecoveryStep ==
    ASSUME LifecycleInv, NEW delivered \in BOOLEAN, FinishStartupRecovery(delivered)
    PROVE  LifecycleInv'
<1> USE LifecycleConstants
<1>t. row \in Lifecycle /\ mem \in Lifecycle
  BY DEF LifecycleInv, TypeOK
<1>1. TypeOK'
  BY <1>t, RowTypes, RowShapes, RowFields, NoCycleType DEF FinishStartupRecovery, LifecycleInv, TypeOK
<1>2. EnforceShape(row') /\ EnforceShape(mem') /\ PhaseShape(row')
  BY <1>t, RowTypes, RowShapes, RowFields DEF FinishStartupRecovery, LifecycleInv
<1>3. MirrorInv'
  <2>1. /\ row'.gen = row.gen /\ row'.inst = row.inst /\ ~row'.effective /\ ~row'.ready
        /\ ~row'.draining /\ row'.phase = "first_scan_report_only"
    BY <1>t, RowFields DEF FinishStartupRecovery
  <2>2. mem' = row' /\ pc' = "recovered" /\ lost' = lost /\ row.gen # 0
    BY DEF FinishStartupRecovery, LifecycleInv, MirrorInv
  <2> QED
    BY <2>1, <2>2 DEF MirrorInv, ExactIdentity
<1>4. LostInv'
  BY DEF FinishStartupRecovery, LifecycleInv, LostInv, MirrorInv
<1>5. ProgressInv'
  BY <1>t, RowTypes, RowShapes, RowFields DEF FinishStartupRecovery, LifecycleInv, TypeOK, ProgressInv, MirrorInv, ServerUp
<1>6. RequestIsOperators'
  <2>1. RecoveredRow(row).requested = row.requested /\ RecoveredRow(row).gen = row.gen
    BY <1>t, RowFields
  <2> QED
    BY <2>1 DEF FinishStartupRecovery, LifecycleInv, RequestIsOperators
<1> QED
  BY <1>1, <1>2, <1>3, <1>4, <1>5, <1>6 DEF LifecycleInv, EnforceShape, PhaseShape

(* BeginDrain closes row and mirror together. *)
LEMMA BeginDrainStep ==
    ASSUME LifecycleInv, BeginDrain
    PROVE  LifecycleInv'
<1> USE LifecycleConstants
<1>t. row \in Lifecycle /\ mem \in Lifecycle
  BY DEF LifecycleInv, TypeOK
<1>1. TypeOK'
  BY <1>t, RowTypes, RowShapes, RowFields, NoCycleType DEF BeginDrain, LifecycleInv, TypeOK
<1>2. EnforceShape(row') /\ EnforceShape(mem') /\ PhaseShape(row')
  BY <1>t, RowTypes, RowShapes, RowFields DEF BeginDrain, LifecycleInv
<1>3. MirrorInv'
  BY <1>t, RowTypes, RowShapes, RowFields DEF BeginDrain, LifecycleInv, MirrorInv, LostInv, ProgressInv,
     ExactIdentity, ServerUp
<1>4. LostInv'
  BY <1>t, RowTypes, RowShapes, RowFields DEF BeginDrain, LifecycleInv, LostInv, MirrorInv
<1>5. ProgressInv'
  BY <1>t, RowTypes, RowShapes, RowFields DEF BeginDrain, LifecycleInv, TypeOK, ProgressInv, MirrorInv, ServerUp
<1>6. RequestIsOperators'
  BY <1>t, RowTypes, RowShapes, RowFields DEF BeginDrain, LifecycleInv, RequestIsOperators
<1> QED
  BY <1>1, <1>2, <1>3, <1>4, <1>5, <1>6 DEF LifecycleInv, EnforceShape, PhaseShape

(* Disarm closes row and mirror together and keeps a failure. *)
LEMMA DisarmStep ==
    ASSUME LifecycleInv, Disarm
    PROVE  LifecycleInv'
<1> USE LifecycleConstants
<1>t. row \in Lifecycle /\ mem \in Lifecycle
  BY DEF LifecycleInv, TypeOK
<1>1. TypeOK'
  BY <1>t, RowTypes, RowShapes, RowFields, NoCycleType DEF Disarm, LifecycleInv, TypeOK
<1>2. EnforceShape(row') /\ EnforceShape(mem') /\ PhaseShape(row')
  BY <1>t, RowTypes, RowShapes, RowFields DEF Disarm, LifecycleInv
<1>3. MirrorInv'
  <2>1. /\ row'.gen = row.gen /\ row'.inst = row.inst /\ ~row'.effective
        /\ row'.draining = row.draining /\ (row'.ready => row.ready)
        /\ row'.ready => mem.phase # "failed"
    BY <1>t, RowFields DEF Disarm
  <2>2. row'.ready => ~lost
    BY <2>1 DEF Disarm, LifecycleInv, LostInv, MirrorInv, PhaseShape
  <2>3. row'.phase = "draining" => row'.draining
    BY <1>2 DEF PhaseShape
  <2>4. row'.draining \/ row'.phase = "failed" => lost
    <3>1. SUFFICES ASSUME ~lost PROVE ~row'.draining /\ row'.phase # "failed"
      OBVIOUS
    <3>2. mem = row /\ ~row.draining /\ row.phase # "failed" /\ mem.phase # "failed"
      BY <3>1 DEF Disarm, ServerUp, LifecycleInv, MirrorInv
    <3> QED
      BY <1>t, <2>1, <2>3, <3>2, RowFields DEF Disarm
  <2>5. mem' = row' /\ lost' = lost /\ pc' = pc /\ pc \notin {"down", "begun"}
    BY DEF Disarm, ServerUp
  <2> QED
    BY <2>1, <2>2, <2>3, <2>4, <2>5 DEF LifecycleInv, MirrorInv, ExactIdentity
<1>4. LostInv'
  <2>1. CASE mem.phase = "failed"
    BY <2>1, <1>t, RowFields DEF Disarm, LostInv
  <2>2. CASE mem.phase # "failed"
    <3>1. row'.draining = row.draining /\ row'.ready = row.ready /\ mem' = row'
      BY <2>2, <1>t, RowFields DEF Disarm
    <3> QED
      BY <2>2, <3>1 DEF Disarm, LifecycleInv, LostInv, MirrorInv
  <2> QED
    BY <2>1, <2>2
<1>5. ProgressInv'
  BY <1>t, RowTypes, RowShapes, RowFields DEF Disarm, LifecycleInv, TypeOK, ProgressInv, MirrorInv, ServerUp
<1>6. RequestIsOperators'
  BY <1>t, RowTypes, RowShapes, RowFields DEF Disarm, LifecycleInv, RequestIsOperators
<1> QED
  BY <1>1, <1>2, <1>3, <1>4, <1>5, <1>6 DEF LifecycleInv, EnforceShape, PhaseShape

(* Preserving the request of an unready instance opens nothing. *)
LEMMA PreserveStep ==
    ASSUME LifecycleInv, PreservePreReadyIntent
    PROVE  LifecycleInv'
<1> USE LifecycleConstants
<1>t. row \in Lifecycle /\ mem \in Lifecycle
  BY DEF LifecycleInv, TypeOK
<1>1. TypeOK'
  BY <1>t, RowTypes, RowShapes, RowFields, NoCycleType DEF PreservePreReadyIntent, LifecycleInv, TypeOK
<1>2. EnforceShape(row') /\ EnforceShape(mem') /\ PhaseShape(row')
  BY <1>t, RowTypes, RowShapes, RowFields DEF PreservePreReadyIntent, LifecycleInv
<1>3. MirrorInv'
  <2>1. /\ row'.gen = row.gen /\ row'.inst = row.inst /\ ~row'.effective /\ ~row'.ready
        /\ ~row'.draining /\ row'.phase = "ready_report_only"
    BY <1>t, RowFields DEF PreservePreReadyIntent
  <2>2. mem' = row' /\ pc' = "exited" /\ row.gen # 0
    BY DEF PreservePreReadyIntent, LifecycleInv, MirrorInv
  <2> QED
    BY <2>1, <2>2 DEF MirrorInv, ExactIdentity
<1>4. LostInv'
  BY <1>t, RowTypes, RowShapes, RowFields DEF PreservePreReadyIntent, LifecycleInv, LostInv, MirrorInv
<1>5. ProgressInv'
  BY <1>t, RowTypes, RowShapes, RowFields DEF PreservePreReadyIntent, LifecycleInv, TypeOK, ProgressInv, MirrorInv, ServerUp
<1>6. RequestIsOperators'
  <2>1. PreservedRow(row).requested = row.requested /\ PreservedRow(row).gen = row.gen
    BY <1>t, RowFields
  <2> QED
    BY <2>1 DEF PreservePreReadyIntent, LifecycleInv, RequestIsOperators
<1> QED
  BY <1>1, <1>2, <1>3, <1>4, <1>5, <1>6 DEF LifecycleInv, EnforceShape, PhaseShape

(* The offline clear drops the request of an absent daemon. *)
LEMMA ClearEnforceOfflineStep ==
    ASSUME LifecycleInv, NEW g \in Generations, ClearEnforceOffline(g)
    PROVE  LifecycleInv'
<1> USE LifecycleConstants
<1>t. row \in Lifecycle /\ mem \in Lifecycle
  BY DEF LifecycleInv, TypeOK
<1>1. TypeOK'
  BY <1>t, RowTypes, RowShapes, RowFields, NoCycleType DEF ClearEnforceOffline, process, LifecycleInv, TypeOK
<1>2. EnforceShape(row') /\ EnforceShape(mem') /\ PhaseShape(row')
  BY <1>t, RowTypes, RowShapes, RowFields DEF ClearEnforceOffline, process, LifecycleInv
<1>3. MirrorInv'
  BY NoLifecycleFacts DEF ClearEnforceOffline, process, LifecycleInv, MirrorInv
<1>4. LostInv'
  BY <1>t, RowTypes, RowShapes, RowFields DEF ClearEnforceOffline, process, LifecycleInv, LostInv, MirrorInv
<1>5. ProgressInv'
  BY <1>t, RowTypes, RowShapes, RowFields DEF ClearEnforceOffline, process, LifecycleInv, TypeOK, ProgressInv, MirrorInv, ServerUp
<1>6. RequestIsOperators'
  BY <1>t, RowTypes, RowShapes, RowFields DEF ClearEnforceOffline, process, LifecycleInv, RequestIsOperators
<1> QED
  BY <1>1, <1>2, <1>3, <1>4, <1>5, <1>6 DEF LifecycleInv, EnforceShape, PhaseShape

(* A boot carries a request only within its generation. *)
LEMMA BeginManagedStep ==
    ASSUME LifecycleInv, NEW g \in Generations, BeginManaged(g)
    PROVE  LifecycleInv'
<1> USE LifecycleConstants
<1>a. BootRow(row, g, boots + 1).requested => row.requested /\ row.gen = g
  BY DEF BootRow, CarryRequestedEnforce
<1>b. /\ BootRow(row, g, boots + 1) \in Lifecycle
      /\ EnforceShape(BootRow(row, g, boots + 1)) /\ PhaseShape(BootRow(row, g, boots + 1))
  <2>1. CarryRequestedEnforce(row, g) \in BOOLEAN
    BY DEF CarryRequestedEnforce, LifecycleInv, TypeOK, Lifecycle
  <2>2. boots + 1 \in 0..MaxBoots /\ g \in 0..MaxGeneration /\ 0 \in 0..MaxGeneration
        /\ 0 \in 0..MaxEpochs
    BY DEF BeginManaged, LifecycleInv, TypeOK, Generations
  <2> QED
    BY <2>1, <2>2 DEF BootRow, Lifecycle, Phases, EnforceShape, PhaseShape
<1>c. LET r == BootRow(row, g, boots + 1)
      IN /\ ~r.effective /\ ~r.ready /\ ~r.draining /\ r.phase = "recovering"
         /\ r.gen = g /\ g # 0
  BY DEF BootRow, Generations
<1>d. boots + 1 \in 0..MaxBoots /\ intent' \in 0..MaxGeneration
  BY DEF BeginManaged, LifecycleInv, TypeOK
<1>1. TypeOK'
  BY <1>b, <1>d DEF BeginManaged, LifecycleInv, TypeOK
<1>2. EnforceShape(row') /\ EnforceShape(mem') /\ PhaseShape(row')
  BY <1>a, <1>b, <1>c DEF BeginManaged, LifecycleInv
<1>3. MirrorInv'
  BY <1>a, <1>b, <1>c DEF BeginManaged, LifecycleInv, MirrorInv, LostInv, ProgressInv,
     ExactIdentity, ServerUp
<1>4. LostInv'
  BY <1>a, <1>b, <1>c DEF BeginManaged, LifecycleInv, LostInv, MirrorInv
<1>5. ProgressInv'
  BY <1>a, <1>b, <1>c DEF BeginManaged, LifecycleInv, TypeOK, ProgressInv, MirrorInv, ServerUp
<1>6. RequestIsOperators'
  BY <1>a, <1>b, <1>c DEF BeginManaged, LifecycleInv, RequestIsOperators
<1> QED
  BY <1>1, <1>2, <1>3, <1>4, <1>5, <1>6 DEF LifecycleInv, EnforceShape, PhaseShape

(* A cycle that ends after a failure (complete_successful_cycle) revives nothing: the invariant is kept. *)
LEMMA CompleteCycleFailedStep ==
    ASSUME LifecycleInv, NEW ok \in BOOLEAN, CompleteCycleFailed(ok), cycle # NoCycle, cycle' = NoCycle,
           UNCHANGED <<pc, shutdown, worker, openAttempt, unresolved, residue, boots>>
    PROVE  LifecycleInv'
<1> USE LifecycleConstants
<1>t. row \in Lifecycle /\ mem \in Lifecycle
  BY DEF LifecycleInv, TypeOK
<1>c. pc = "running"
  BY DEF LifecycleInv, ProgressInv
<1>e. ExactIdentity /\ row.gen # 0 /\ lost /\ pc = "running"
  BY <1>c DEF CompleteCycleFailed, LifecycleInv, MirrorInv
<1>r. /\ row' \in Lifecycle /\ mem' \in Lifecycle
      /\ EnforceShape(row') /\ EnforceShape(mem') /\ PhaseShape(row')
      /\ row'.gen = row.gen /\ row'.gen = mem'.gen /\ row'.inst = mem'.inst /\ row'.gen # 0
      /\ ~mem'.ready /\ ~mem'.effective /\ (mem'.draining => row'.draining)
      /\ (mem'.phase = "draining" <=> mem'.draining) \/ mem'.phase = "failed"
      /\ mem'.phase = "failed" \/ mem'.draining
      /\ row'.ready => row.ready
      /\ row'.requested => intent' = row'.gen
      /\ lost' /\ pc' = "running" /\ intent' \in 0..MaxGeneration
  <2>1. CASE ok
    <3>1. row' = FailedRow(row) /\ mem' = FailedRow(row) /\ intent' = 0 /\ lost' /\ pc' = "running"
      BY <1>e, <2>1 DEF CompleteCycleFailed
    <3>2. LET r == FailedRow(row)
          IN /\ r \in Lifecycle /\ EnforceShape(r) /\ PhaseShape(r)
      BY <1>t, RowTypes, RowShapes DEF LifecycleInv
    <3>3. LET r == FailedRow(row)
          IN /\ r.gen = row.gen /\ r.inst = row.inst /\ ~r.requested /\ ~r.effective /\ ~r.ready
             /\ r.phase \in {"failed", "draining"} /\ (r.phase = "draining" <=> r.draining)
      BY <1>t, RowFields DEF Lifecycle
    <3>4. 0 \in 0..MaxGeneration
      OBVIOUS
    <3> QED
      BY <1>e, <3>1, <3>2, <3>3, <3>4
  <2>2. CASE ~ok
    <3>1. row' = row /\ mem' = FailedMemory(mem) /\ intent' = intent /\ lost' /\ pc' = "running"
      BY <1>e, <2>2 DEF CompleteCycleFailed
    <3>2. LET m == FailedMemory(mem)
          IN /\ m.gen = mem.gen /\ m.inst = mem.inst /\ ~m.ready /\ ~m.effective
             /\ m.draining = mem.draining /\ m.phase = "failed" /\ EnforceShape(m)
      BY <1>t DEF FailedMemory, Closed, Lifecycle, EnforceShape
    <3> QED
      BY <1>e, <1>t, <3>1, <3>2, RowTypes
         DEF LifecycleInv, TypeOK, MirrorInv, ExactIdentity, RequestIsOperators
  <2> QED
    BY <2>1, <2>2
<1>1. TypeOK'
  BY <1>r, NoCycleType DEF CompleteCycleFailed, LifecycleInv, TypeOK
<1>2. EnforceShape(row') /\ EnforceShape(mem') /\ PhaseShape(row')
  BY <1>r
<1>3. MirrorInv'
  BY <1>r DEF CompleteCycleFailed, LifecycleInv, MirrorInv, LostInv, ExactIdentity
<1>4. LostInv'
  BY <1>r DEF CompleteCycleFailed, LifecycleInv, LostInv, MirrorInv
<1>5. ProgressInv'
  BY <1>r DEF CompleteCycleFailed, LifecycleInv, TypeOK, ProgressInv, MirrorInv, ServerUp
<1>6. RequestIsOperators'
  BY <1>r DEF CompleteCycleFailed, LifecycleInv, RequestIsOperators
<1> QED
  BY <1>1, <1>2, <1>3, <1>4, <1>5, <1>6 DEF LifecycleInv, EnforceShape, PhaseShape

(* A first scan whose store write is refused fails the instance and keeps the invariant. *)
LEMMA CompleteFirstScanErrorStep ==
    ASSUME LifecycleInv, NEW ok \in BOOLEAN, CompleteFirstScanError(ok), cycle # NoCycle, cycle' = NoCycle,
           UNCHANGED <<pc, shutdown, worker, openAttempt, unresolved, residue, boots>>
    PROVE  LifecycleInv'
<1> USE LifecycleConstants
<1>f. pc # "down"
  BY DEF LifecycleInv, ProgressInv
<1>h. FailClosedFacts
  BY <1>f, FailClosedStep DEF CompleteFirstScanError
<1>1. TypeOK'
  BY <1>f, <1>h, NoCycleType DEF CompleteFirstScanError, FailClosedFacts, LifecycleInv, TypeOK
<1>2. EnforceShape(row') /\ EnforceShape(mem') /\ PhaseShape(row')
  BY <1>f, <1>h DEF CompleteFirstScanError, FailClosedFacts, LifecycleInv
<1>3. MirrorInv'
  BY <1>f, <1>h DEF CompleteFirstScanError, FailClosedFacts, LifecycleInv, MirrorInv, LostInv, ProgressInv,
     ExactIdentity, ServerUp
<1>4. LostInv'
  BY <1>f, <1>h DEF CompleteFirstScanError, FailClosedFacts, LifecycleInv, LostInv, MirrorInv
<1>5. ProgressInv'
  BY <1>f, <1>h DEF CompleteFirstScanError, FailClosedFacts, LifecycleInv, TypeOK, ProgressInv, MirrorInv, ServerUp
<1>6. RequestIsOperators'
  BY <1>f, <1>h DEF CompleteFirstScanError, FailClosedFacts, LifecycleInv, RequestIsOperators
<1> QED
  BY <1>1, <1>2, <1>3, <1>4, <1>5, <1>6 DEF LifecycleInv, EnforceShape, PhaseShape

(* The first scan opens the gate only for the row it commits; the invariant is kept. *)
LEMMA CompleteFirstScanStep ==
    ASSUME LifecycleInv, CompleteFirstScan, cycle # NoCycle, cycle' = NoCycle,
           UNCHANGED <<pc, shutdown, worker, openAttempt, unresolved, residue, boots>>
    PROVE  LifecycleInv'
<1> USE LifecycleConstants
<1>t. row \in Lifecycle /\ mem \in Lifecycle
  BY DEF LifecycleInv, TypeOK
<1>c. pc = "running"
  BY DEF LifecycleInv, ProgressInv
<1>e. ~lost /\ row.gen # 0 /\ mem = row
  BY <1>c DEF CompleteFirstScan, LifecycleInv, MirrorInv, LostInv
<1>r. /\ row' \in Lifecycle /\ mem' = row'
      /\ EnforceShape(row') /\ EnforceShape(mem') /\ PhaseShape(row')
      /\ row'.gen = row.gen /\ row'.gen # 0
      /\ row'.ready /\ ~row'.draining /\ row'.phase \notin {"failed", "draining"}
      /\ row'.requested => row.requested
      /\ row'.effective => ~unresolved
      /\ ~lost' /\ scanned' /\ pc' = "running" /\ pc = "running" /\ unresolved' = unresolved
      /\ epochs' \in 0..MaxEpochs
  <2>0. mem' = row' /\ lost' = lost /\ scanned' /\ unresolved' = unresolved
    BY DEF CompleteFirstScan
  <2>1. CASE row.requested /\ ~ManagedArmBlocker
    <3>1. row' = ArmedRow(row, epochs + 1) /\ epochs + 1 \in 1..MaxEpochs /\ ~unresolved
      BY <2>1 DEF CompleteFirstScan, FirstScanRow, ManagedArmBlocker, LifecycleInv, TypeOK
    <3>e. epochs + 1 \in 0..MaxEpochs
      BY <3>1 DEF LifecycleInv, TypeOK
    <3>2. ArmedRow(row, epochs + 1) \in Lifecycle
      BY <1>t, <3>e, RowTypes
    <3>3. epochs' \in 0..MaxEpochs
      BY <3>1 DEF CompleteFirstScan, LifecycleInv, TypeOK
    <3> QED
      BY <1>c, <1>e, <1>t, <2>0, <2>1, <3>1, <3>2, <3>3, RowShapes, RowFields DEF LifecycleInv
  <2>2. CASE ~(row.requested /\ ~ManagedArmBlocker)
    <3>1. row' = ReportOnlyRow(row, row.requested) /\ row.requested \in BOOLEAN
      BY <2>2, <1>t DEF CompleteFirstScan, FirstScanRow, Lifecycle
    <3>2. ~row'.effective
      BY <3>1, <1>t, RowFields
    <3>3. epochs' \in 0..MaxEpochs
      BY <3>2 DEF CompleteFirstScan, LifecycleInv, TypeOK
    <3>4. row' \in Lifecycle /\ EnforceShape(row') /\ PhaseShape(row')
      BY <1>t, <3>1, RowTypes, RowShapes DEF LifecycleInv
    <3>5. /\ row'.gen = row.gen /\ row'.ready /\ ~row'.draining
          /\ row'.phase = "ready_report_only" /\ ~row'.requested
      BY <1>t, <3>1, RowFields
    <3> QED
      BY <1>c, <1>e, <2>0, <3>2, <3>3, <3>4, <3>5
  <2> QED
    BY <2>1, <2>2
<1>1. TypeOK'
  BY <1>r, NoCycleType DEF CompleteFirstScan, LifecycleInv, TypeOK
<1>2. EnforceShape(row') /\ EnforceShape(mem') /\ PhaseShape(row')
  BY <1>r
<1>3. MirrorInv'
  BY <1>r DEF CompleteFirstScan, LifecycleInv, MirrorInv, LostInv, ExactIdentity
<1>4. LostInv'
  BY <1>r DEF CompleteFirstScan, LifecycleInv, LostInv, MirrorInv
<1>5. ProgressInv'
  BY <1>r DEF CompleteFirstScan, LifecycleInv, TypeOK, ProgressInv, MirrorInv, ServerUp
<1>6. RequestIsOperators'
  BY <1>r DEF CompleteFirstScan, LifecycleInv, RequestIsOperators
<1> QED
  BY <1>1, <1>2, <1>3, <1>4, <1>5, <1>6 DEF LifecycleInv, EnforceShape, PhaseShape

(* A later successful cycle changes health and phase only; the invariant is kept. *)
LEMMA CompleteLaterCycleStep ==
    ASSUME LifecycleInv, CompleteLaterCycle, cycle # NoCycle, cycle' = NoCycle,
           UNCHANGED <<pc, shutdown, worker, openAttempt, unresolved, residue, boots>>
    PROVE  LifecycleInv'
<1> USE LifecycleConstants
<1>t. row \in Lifecycle /\ mem \in Lifecycle
  BY DEF LifecycleInv, TypeOK
<1>c. pc = "running"
  BY DEF LifecycleInv, ProgressInv
<1>e. pc # "down" /\ ExactIdentity /\ row.gen # 0
  BY <1>c DEF LifecycleInv, MirrorInv
<1>r. /\ row' = row /\ mem' \in Lifecycle /\ EnforceShape(mem') /\ EnforceShape(row')
      /\ PhaseShape(row')
      /\ mem'.gen = mem.gen /\ mem'.inst = mem.inst /\ mem'.ready = mem.ready
      /\ mem'.effective = mem.effective /\ mem'.draining = mem.draining
      /\ mem'.phase # "failed" /\ (mem'.phase = "draining" <=> mem.draining)
      /\ ~lost => mem' = row
      /\ lost' = lost /\ pc = "running" /\ intent' = intent
  <2>1. row' = row /\ lost' = lost /\ intent' = intent /\ row \in Lifecycle /\ mem \in Lifecycle
    BY <1>t DEF CompleteLaterCycle
  <2>2. /\ mem' \in Lifecycle
        /\ mem'.gen = mem.gen /\ mem'.inst = mem.inst /\ mem'.ready = mem.ready
        /\ mem'.effective = mem.effective /\ mem'.draining = mem.draining
        /\ mem'.armedGen = mem.armedGen /\ mem'.epoch = mem.epoch
        /\ mem'.requested = mem.requested
        /\ mem'.phase # "failed" /\ (mem'.phase = "draining" <=> mem.draining)
    BY <2>1 DEF CompleteLaterCycle, Lifecycle, Phases
  <2>3. EnforceShape(mem')
    BY <2>2 DEF LifecycleInv, EnforceShape
  <2>4. ASSUME ~lost PROVE mem' = row
    <3>1. mem = row /\ ~mem.draining /\ mem.ready
      BY <2>4, <1>e DEF CompleteLaterCycle, LifecycleInv, MirrorInv
    <3>2. mem' = [mem EXCEPT !.phase = mem.phase]
      BY <3>1, <2>1 DEF CompleteLaterCycle, LifecycleInv, PhaseShape, Lifecycle
    <3> QED
      BY <2>1, <3>1, <3>2 DEF Lifecycle
  <2> QED
    BY <1>c, <2>1, <2>2, <2>3, <2>4 DEF LifecycleInv
<1>1. TypeOK'
  BY <1>r, NoCycleType DEF CompleteLaterCycle, LifecycleInv, TypeOK
<1>2. EnforceShape(row') /\ EnforceShape(mem') /\ PhaseShape(row')
  BY <1>r
<1>3. MirrorInv'
  BY <1>r DEF CompleteLaterCycle, LifecycleInv, MirrorInv, LostInv, ExactIdentity
<1>4. LostInv'
  BY <1>r DEF CompleteLaterCycle, LifecycleInv, LostInv, MirrorInv
<1>5. ProgressInv'
  BY <1>r DEF CompleteLaterCycle, LifecycleInv, TypeOK, ProgressInv, MirrorInv, ServerUp
<1>6. RequestIsOperators'
  BY <1>r DEF CompleteLaterCycle, LifecycleInv, RequestIsOperators
<1> QED
  BY <1>1, <1>2, <1>3, <1>4, <1>5, <1>6 DEF LifecycleInv, EnforceShape, PhaseShape

(* Arm mints its epoch in the row and in memory together; the invariant is kept. *)
LEMMA ArmStep ==
    ASSUME LifecycleInv, Arm
    PROVE  LifecycleInv'
<1> USE LifecycleConstants
<1>t. row \in Lifecycle /\ mem \in Lifecycle
  BY DEF LifecycleInv, TypeOK
<1>e. ~lost /\ pc # "down" /\ row.gen # 0 /\ mem = row /\ ServerUp
  BY DEF Arm, LifecycleInv, MirrorInv, ServerUp
<1>r. /\ row' \in Lifecycle /\ mem' = row'
      /\ EnforceShape(row') /\ EnforceShape(mem') /\ PhaseShape(row')
      /\ row'.gen = row.gen /\ row'.gen # 0 /\ row'.inst = row.inst
      /\ row'.ready /\ ~row'.draining /\ row'.phase \notin {"failed", "draining"}
      /\ intent' = row'.gen /\ intent' \in 0..MaxGeneration
      /\ row'.effective => ~unresolved \/ mem.effective
      /\ ~lost' /\ pc' = pc /\ ServerUp
      /\ row.ready
      /\ epochs' \in 0..MaxEpochs
  <2>0. /\ mem' = row' /\ lost' = lost /\ pc' = pc /\ intent' = row.gen
        /\ row.gen \in 0..MaxGeneration
        /\ row.ready /\ ~row.draining /\ row.phase \notin {"failed", "draining"}
    BY <1>t, <1>e DEF Arm, Lifecycle
  <2>1. CASE row' = row /\ epochs' = epochs
    BY <1>e, <1>t, <2>0, <2>1 DEF LifecycleInv, TypeOK
  <2>2. CASE /\ row' = ArmedRow(row, epochs + 1) /\ epochs < MaxEpochs /\ ~unresolved
             /\ epochs' = epochs + 1
    <3>1. epochs + 1 \in 1..MaxEpochs /\ epochs + 1 \in 0..MaxEpochs
      BY <2>2 DEF LifecycleInv, TypeOK
    <3>2. ArmedRow(row, epochs + 1) \in Lifecycle
      BY <1>t, <3>1, RowTypes
    <3> QED
      BY <1>e, <1>t, <2>0, <2>2, <3>1, <3>2, RowShapes, RowFields DEF LifecycleInv
  <2> QED
    BY <2>1, <2>2 DEF Arm, ManagedArmBlocker
<1>1. TypeOK'
  BY <1>r, NoCycleType DEF Arm, LifecycleInv, TypeOK
<1>2. EnforceShape(row') /\ EnforceShape(mem') /\ PhaseShape(row')
  BY <1>r
<1>3. MirrorInv'
  <2>1. pc' \notin {"down", "begun"}
    BY <1>r DEF ServerUp
  <2> QED
    BY <1>r, <2>1 DEF MirrorInv, ExactIdentity
<1>4. LostInv'
  BY <1>r DEF Arm, LifecycleInv, LostInv, MirrorInv
<1>5. ProgressInv'
  BY <1>r DEF Arm, LifecycleInv, TypeOK, ProgressInv, MirrorInv, ServerUp
<1>6. RequestIsOperators'
  BY <1>r DEF Arm, LifecycleInv, RequestIsOperators
<1> QED
  BY <1>1, <1>2, <1>3, <1>4, <1>5, <1>6 DEF LifecycleInv, EnforceShape, PhaseShape

-----------------------------------------------------------------------------
(* Every way a successful cycle is completed keeps the invariant. *)
LEMMA CycleSucceedsStep ==
    ASSUME LifecycleInv, CycleSucceeds
    PROVE  LifecycleInv'
<1>0. /\ cycle # NoCycle /\ cycle' = NoCycle
      /\ UNCHANGED <<pc, shutdown, worker, openAttempt, unresolved, residue, boots>>
  BY DEF CycleSucceeds
<1>1. ASSUME NEW ok \in StoreOutcome, CompleteCycleFailed(ok) PROVE LifecycleInv'
  BY <1>0, <1>1, CompleteCycleFailedStep DEF StoreOutcome
<1>2. CASE CompleteFirstScan
  BY <1>0, <1>2, CompleteFirstScanStep
<1>3. ASSUME NEW ok \in StoreOutcome, CompleteFirstScanError(ok) PROVE LifecycleInv'
  BY <1>0, <1>3, CompleteFirstScanErrorStep DEF StoreOutcome
<1>4. CASE CompleteLaterCycle
  BY <1>0, <1>4, CompleteLaterCycleStep
<1> QED
  BY <1>1, <1>2, <1>3, <1>4 DEF CycleSucceeds

(* A step that changes none of the variables keeps the invariant. *)
LEMMA StutterStep ==
    ASSUME LifecycleInv, UNCHANGED vars
    PROVE  LifecycleInv'
<1>1. /\ UNCHANGED <<row, openAttempt, unresolved, residue>>
      /\ UNCHANGED <<mem, healthy, pc, shutdown, firstCycle, cycle, worker, lost, scanned>>
      /\ UNCHANGED <<boots, epochs, intent, failed>>
  BY DEF vars, durable, process
<1>2. TypeOK' /\ EnforceShape(row') /\ EnforceShape(mem') /\ PhaseShape(row')
  BY <1>1 DEF LifecycleInv, TypeOK
<1>3. MirrorInv' /\ LostInv' /\ ProgressInv' /\ RequestIsOperators'
  BY <1>1 DEF LifecycleInv, MirrorInv, LostInv, ProgressInv, RequestIsOperators,
     ExactIdentity, ServerUp
<1> QED
  BY <1>2, <1>3 DEF LifecycleInv, EnforceShape, PhaseShape

(* Every step of the specification keeps the invariant: one case per action. *)
LEMMA NextPreserves ==
    ASSUME LifecycleInv, [Next]_vars
    PROVE  LifecycleInv'
<1>1. ASSUME NEW g \in Generations, BeginManaged(g) \/ ClearEnforceOffline(g)
      PROVE  LifecycleInv'
  BY <1>1, BeginManagedStep, ClearEnforceOfflineStep
<1>2. ASSUME NEW delivered \in BOOLEAN, FinishStartupRecovery(delivered)
      PROVE  LifecycleInv'
  BY <1>2, FinishStartupRecoveryStep
<1>3. CASE NodeCacheDeliveryUnknown
  BY <1>3, NodeCacheStep
<1>4. CASE StartServer \/ BeginCycle \/ CycleSucceeds
  BY <1>4, StartServerStep, BeginCycleStep, CycleSucceedsStep
<1>5. CASE BeginCleanupAttempt \/ \E withResidue \in BOOLEAN : WorkerSettles(withResidue)
  BY <1>5, BeginCleanupAttemptStep, WorkerSettlesStep
<1>6. ASSUME NEW settled \in BOOLEAN, NEW delivered \in BOOLEAN,
             WorkerErrs(settled, delivered)
      PROVE  LifecycleInv'
  BY <1>6, WorkerErrsStep
<1>7. ASSUME NEW ok \in StoreOutcome,
             \/ StartupError(ok) \/ CycleFails(ok) \/ WorkerFailsClosed(ok)
             \/ MaintenanceFailsClosed(ok) \/ PreserveRefused(ok)
      PROVE  LifecycleInv'
  <2>1. ok \in BOOLEAN
    BY DEF StoreOutcome
  <2> QED
    BY <1>7, <2>1, StartupErrorStep, CycleFailsStep, WorkerFailsClosedStep,
       MaintenanceFailsClosedStep, PreserveRefusedStep
<1>8. ASSUME NEW ok \in StoreOutcome, NEW recovered \in StoreOutcome,
             NEW delivered \in BOOLEAN, CollectWorker(ok, recovered, delivered)
      PROVE  LifecycleInv'
  BY <1>8, CollectWorkerStep DEF StoreOutcome
<1>9. CASE \/ \E kind \in {"uncertain", "residue"} : ResolveBlock(kind)
           \/ Arm \/ Disarm \/ BeginDrain
  BY <1>9, ResolveBlockStep, ArmStep, DisarmStep, BeginDrainStep
<1>10. CASE RequestShutdown \/ LeaveLoop \/ PreservePreReadyIntent
  BY <1>10, RequestShutdownStep, LeaveLoopStep, PreserveStep
<1>11. CASE OrdinaryExit \/ Crash
  BY <1>11, OrdinaryExitStep, CrashStep
<1>12. CASE UNCHANGED vars
  BY <1>12, StutterStep
<1> QED
  BY <1>1, <1>2, <1>3, <1>4, <1>5, <1>6, <1>7, <1>8, <1>9, <1>10, <1>11, <1>12 DEF Next

(* LifecycleInv implies what the runs check. *)
LEMMA InvImplies ==
    LifecycleInv => /\ TypeOK /\ GateBackedByRow /\ LostStaysClosed /\ RequestIsOperators
                    /\ FirstScanSignalFree /\ UnresolvedClosesGate
<1> SUFFICES ASSUME LifecycleInv
             PROVE  /\ TypeOK /\ GateBackedByRow /\ LostStaysClosed /\ RequestIsOperators
                    /\ FirstScanSignalFree /\ UnresolvedClosesGate
  OBVIOUS
<1>1. GateOpen => mem.effective /\ mem.ready
  BY DEF GateOpen, SignalGateMatches
<1>2. mem.effective => pc # "down" /\ ~lost /\ mem = row
  BY NoLifecycleFacts DEF LifecycleInv, MirrorInv
<1> QED
  BY <1>1, <1>2 DEF LifecycleInv, GateBackedByRow, LostStaysClosed, FirstScanSignalFree,
     UnresolvedClosesGate, MirrorInv, LostInv, ProgressInv, EnforceShape, ExactIdentity

-----------------------------------------------------------------------------
(* The inductive invariant holds in every reachable state of the lifecycle.  *)
THEOREM LifecycleInvariant == Spec => []LifecycleInv
<1>1. Init => LifecycleInv
  BY InitEstablishes
<1>2. LifecycleInv /\ [Next]_vars => LifecycleInv'
  BY NextPreserves
<1> QED
  BY <1>1, <1>2, PTL DEF Spec

(* Type correctness of the row, its mirror and the process. *)
THEOREM TypeCorrect == Spec => []TypeOK
  BY LifecycleInvariant, InvImplies, PTL

(* signal_gate_matches never answers yes on authority SQLite does not hold.  *)
THEOREM VolatileAuthorityIsDurable == Spec => []GateBackedByRow
  BY LifecycleInvariant, InvImplies, PTL

(* Failed and draining instances never become ready or open their gate again. *)
THEOREM FailedIsTerminal == Spec => []LostStaysClosed
  BY LifecycleInvariant, InvImplies, PTL

(* requested_enforce is always an operator's standing Arm of that generation. *)
THEOREM CarriedIntentIsOperators == Spec => []RequestIsOperators
  BY LifecycleInvariant, InvImplies, PTL

(* No cleanup worker exists before the instance's first scan is committed.   *)
THEOREM FirstScanIsSignalFree == Spec => []FirstScanSignalFree
  BY LifecycleInvariant, InvImplies, PTL

(* Unresolved deliveries keep the gate closed but for the owed fail_closed.  *)
THEOREM UnresolvedKeepsGateClosed == Spec => []UnresolvedClosesGate
  BY LifecycleInvariant, InvImplies, PTL

-----------------------------------------------------------------------------
(* With a store that accepts every write, a failure clears the request. *)
FailureInv == failed => ~row.requested

(* Without lost writes, every step keeps the link between a failure and the cleared request. *)
LEMMA FailureInvStep ==
    ASSUME ~StoreMayFail, LifecycleInv, FailureInv, [Next]_vars
    PROVE  FailureInv'
<1>t. row \in Lifecycle /\ row' \in Lifecycle /\ StoreOutcome = {TRUE}
  BY NextPreserves DEF LifecycleInv, TypeOK, StoreOutcome
<1>f. ASSUME pc # "down", FailClosed(TRUE) \/ FailClosedAndGone(TRUE) PROVE ~row'.requested
  BY <1>f, <1>t, RowFields DEF FailClosed, FailClosedAndGone, LifecycleInv, MirrorInv
<1>r. cycle # NoCycle \/ worker # "none" \/ ServerUp => pc # "down"
  BY DEF LifecycleInv, ProgressInv, ServerUp
<1>1. ASSUME NEW g \in Generations, BeginManaged(g) \/ ClearEnforceOffline(g)
      PROVE  FailureInv'
  <2>1. CASE BeginManaged(g)
    <3>1. BootRow(row, g, boots + 1).requested => row.requested
      BY DEF BootRow, CarryRequestedEnforce
    <3> QED
      BY <2>1, <3>1 DEF BeginManaged, FailureInv
  <2>2. CASE ClearEnforceOffline(g)
    BY <2>2, <1>t, RowFields DEF ClearEnforceOffline, FailureInv
  <2> QED
    BY <1>1, <2>1, <2>2
<1>2. ASSUME NEW delivered \in BOOLEAN, FinishStartupRecovery(delivered) PROVE FailureInv'
  <2>1. RecoveredRow(row).requested = row.requested
    BY <1>t, RowFields
  <2> QED
    BY <1>2, <2>1 DEF FinishStartupRecovery, FailureInv
<1>3. CASE NodeCacheDeliveryUnknown
  BY <1>3, <1>f DEF NodeCacheDeliveryUnknown, FailureInv
<1>4. CASE CycleSucceeds
  <2>1. pc # "down" /\ ExactIdentity
    BY <1>4, <1>r DEF CycleSucceeds, LifecycleInv, MirrorInv
  <2>2. CASE CompleteCycleFailed(TRUE)
    BY <2>1, <2>2, <1>t, RowFields DEF CompleteCycleFailed, FailureInv
  <2>3. CASE CompleteFirstScan
    <3>1. CASE row.requested
      BY <3>1, <2>3 DEF CompleteFirstScan, FailureInv
    <3>2. CASE ~row.requested
      <4>1. row' = ReportOnlyRow(row, row.requested) /\ row.requested \in BOOLEAN
        BY <3>2, <2>3, <1>t DEF CompleteFirstScan, FirstScanRow, Lifecycle
      <4> QED
        BY <3>2, <4>1, <1>t, RowFields DEF FailureInv
    <3> QED
      BY <3>1, <3>2
  <2>4. CASE CompleteFirstScanError(TRUE)
    BY <2>1, <2>4, <1>f DEF CompleteFirstScanError, FailureInv
  <2>5. CASE CompleteLaterCycle
    BY <2>5 DEF CompleteLaterCycle, FailureInv
  <2> QED
    BY <1>4, <1>t, <2>2, <2>3, <2>4, <2>5 DEF CycleSucceeds
<1>5. CASE \/ StartupError(TRUE) \/ CycleFails(TRUE) \/ WorkerFailsClosed(TRUE)
           \/ MaintenanceFailsClosed(TRUE) \/ PreserveRefused(TRUE)
  BY <1>5, <1>f, <1>r
  DEF StartupError, CycleFails, WorkerFailsClosed, MaintenanceFailsClosed, PreserveRefused,
      FailureInv
<1>6. ASSUME NEW recovered \in BOOLEAN, NEW delivered \in BOOLEAN,
             CollectWorker(TRUE, recovered, delivered)
      PROVE  FailureInv'
  BY <1>6, <1>f, <1>r DEF CollectWorker, FailureInv
<1>7. CASE Arm
  BY <1>7 DEF Arm, FailureInv
<1>8. CASE Disarm \/ BeginDrain
  <2>1. ~row'.requested
    BY <1>8, <1>t, RowFields DEF Disarm, BeginDrain
  <2> QED
    BY <2>1 DEF FailureInv
<1>9. CASE PreservePreReadyIntent
  <2>1. PreservedRow(row).requested = row.requested
    BY <1>t, RowFields
  <2> QED
    BY <1>9, <2>1 DEF PreservePreReadyIntent, FailureInv
<1>10. ASSUME UNCHANGED <<row, failed>> PROVE FailureInv'
  BY <1>10 DEF FailureInv
<1>11. ASSUME \/ StartServer \/ BeginCycle \/ BeginCleanupAttempt
              \/ \E withResidue \in BOOLEAN : WorkerSettles(withResidue)
              \/ \E settled, delivered \in BOOLEAN : WorkerErrs(settled, delivered)
              \/ \E kind \in {"uncertain", "residue"} : ResolveBlock(kind)
              \/ RequestShutdown \/ LeaveLoop \/ OrdinaryExit \/ Crash
              \/ UNCHANGED vars
       PROVE  UNCHANGED <<row, failed>>
  BY <1>11
  DEF StartServer, BeginCycle, BeginCleanupAttempt, WorkerSettles, WorkerErrs, ResolveBlock,
      RequestShutdown, LeaveLoop, OrdinaryExit, Crash, vars, durable
<1> QED
  BY <1>t, <1>1, <1>2, <1>3, <1>4, <1>5, <1>6, <1>7, <1>8, <1>9, <1>10, <1>11 DEF Next

(* When every SQLite write commits, a managed failure closes enforcement     *)
(* until the operator arms again, across any number of restarts.             *)
THEOREM DurableFailureClearsIntent ==
    ASSUME ~StoreMayFail PROVE Spec => []FailureClearsIntent
<1>1. Init => FailureInv
  BY DEF Init, FailureInv
<1>2. LifecycleInv /\ FailureInv /\ [Next]_vars => FailureInv'
  BY FailureInvStep
<1>3. LifecycleInv /\ FailureInv => FailureClearsIntent
  BY InvImplies DEF LifecycleInv, FailureInv, FailureClearsIntent, GateBackedByRow, EnforceShape
<1> QED
  BY <1>1, <1>2, <1>3, LifecycleInvariant, PTL DEF Spec

=============================================================================
