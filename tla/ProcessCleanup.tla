--------------------------- MODULE ProcessCleanup ---------------------------
(***************************************************************************)
(* One cleanup attempt of unlingerd: CleanupExecutor::execute (cleanup.rs) *)
(* run by the background worker through GatedRuntime (engine.rs), the      *)
(* durable action journal and its recovery (store.rs), and the world that  *)
(* moves meanwhile: processes exit, pids are reused, facts drift, the      *)
(* session revives, files are replaced, the operator revokes authority,    *)
(* calls fail, threads panic, the daemon dies and restarts.                *)
(*                                                                         *)
(* Every step touches one of the shared things once: a snapshot with its   *)
(* targeted lookups, one SQLite transaction, or one native call under the  *)
(* status lock. A pid is not reused between the exact lookup and the kill  *)
(* of signal_exact: that window is the operating system's.                 *)
(***************************************************************************)
EXTENDS Naturals

CONSTANT Machines   \* the instances explored, records:
                    \*   controllers, roots, members  frozen identities by role
                    \*   artifact  the plan names a runtime artifact
                    \*   windows   policy.revival_windows.len()
                    \*   epochs    bound: enforcement epochs minted
                    \*   attempts  bound: attempts on the incident
                    \*   faults    a journal or settlement write may fail

Signals == {"term", "kill"}

ASSUME CleanupConstants ==
    \A m \in Machines : /\ m.controllers \cup m.roots # {}
                        /\ m.artifact \in BOOLEAN /\ m.faults \in BOOLEAN
                        /\ {m.windows, m.epochs, m.attempts} \subseteq Nat \ {0}

VARIABLES
    (* the world *)
    os,          \* what each frozen pid is now: the exact process, nothing, another
    drift,       \* classification facts no longer support the frozen incident
    revived,     \* the session is back under identities outside the plan
    disk,        \* what lies at the artifact path
    (* authority, in memory *)
    up,          \* the daemon process runs
    armed,       \* epoch of the open signal gate, 0 when closed
    failedInst,  \* this instance failed closed
    policyMoved, \* the memory policy revision differs from the frozen one
    cancelled,   \* the worker's cancellation flag
    (* the worker *)
    pc,          \* the step it is about to take
    result,      \* what the executor returned
    frame,       \* the executor's locals; NoFrame when it does not run
    plan,        \* targets frozen by CleanupPlan::from_confirmed
    frozen,      \* enforcement epoch of the plan
    artFrozen,   \* what freeze_artifact found when the plan was frozen
    (* SQLite *)
    attempt,     \* terminal_state of the latest cleanup_attempts row
    rows,        \* its cleanup_actions: disposition, "prepared" for NULL, "none"
    artRow,      \* its cleanup_artifact_actions row
    retryBlock,  \* cleanup_retry_blocks has the incident
    (* history *)
    minted, attempts,
    delivered,   \* signals that really reached the exact process in this attempt
    unlinked,    \* an artifact was really removed in this attempt
    revoked,     \* the gate of the plan's epoch closed since the plan was frozen
    fresh,       \* the facts supported the plan at some instant since PREPARED
    machine      \* the instance explored; never changes

world == <<os, drift, revived, disk>>
authority == <<up, armed, failedInst, policyMoved, cancelled>>
worker == <<pc, result, frame, plan, frozen, artFrozen>>
durable == <<attempt, rows, artRow, retryBlock>>
history == <<minted, attempts, delivered, unlinked, revoked, fresh>>
vars == <<world, authority, worker, durable, history, machine>>

Controllers == machine.controllers
BrowserRoots == machine.roots
Targets == Controllers \cup BrowserRoots \cup machine.members
HasArtifact == machine.artifact
RevivalWindows == machine.windows
MaxEpochs == machine.epochs
MaxAttempts == machine.attempts

SignalDispositions == {"delivered", "already_exited", "identity_mismatch", "rejected",
                       "cancelled", "delivery_unknown"}
ArtifactDispositions == {"removed", "already_absent", "identity_mismatch", "referenced",
                         "unsafe", "rejected", "cancelled", "delivery_unknown"}
Executing == {"begin", "loop", "prepared", "checked", "effected", "windows", "artifact",
              "artifact_prepared", "artifact_effected", "post"}

(* The locals of execute() and signal(): the stage, the targets its loop has *)
(* left, the target at hand with its disposition and what follows it,        *)
(* term_attempted and the revival windows done.                              *)
Frame == [stage: {"primary", "member", "kill"}, todo: SUBSET Targets, current: Targets,
          disp: SignalDispositions \cup ArtifactDispositions \cup {"none"},
          after: {"next", "failed", "runtime"}, attempted: SUBSET Targets,
          window: 0..RevivalWindows]
NoFrame == [stage |-> "primary", todo |-> {}, current |-> CHOOSE t \in Targets : TRUE,
            disp |-> "none", after |-> "next", attempted |-> {}, window |-> 0]

TypeOK ==
    /\ os \in [Targets -> {"alive", "gone", "reused"}]
    /\ drift \in BOOLEAN /\ revived \in BOOLEAN
    /\ disk \in {"absent", "exact", "other"}
    /\ up \in BOOLEAN /\ failedInst \in BOOLEAN
    /\ armed \in 0..MaxEpochs
    /\ policyMoved \in BOOLEAN /\ cancelled \in BOOLEAN
    /\ pc \in Executing \cup {"idle", "return", "err", "joinable"}
    /\ frame \in Frame
    /\ result \in {"none", "cleared", "failed", "revived", "residue", "runtime", "open"}
    /\ plan \subseteq Targets
    /\ frozen \in 0..MaxEpochs
    /\ artFrozen \in {"absent", "exact", "unsafe"}
    /\ attempt \in {"none", "open", "cleared", "failed", "revived", "residue"}
    /\ rows \in [Targets \X Signals -> SignalDispositions \cup {"none", "prepared"}]
    /\ artRow \in ArtifactDispositions \cup {"none", "prepared"}
    /\ retryBlock \in BOOLEAN
    /\ minted \in 0..MaxEpochs
    /\ attempts \in 0..MaxAttempts
    /\ delivered \in SUBSET (Targets \X Signals)
    /\ unlinked \in BOOLEAN /\ revoked \in BOOLEAN /\ fresh \in BOOLEAN
    /\ machine \in Machines

StoreOutcome == {TRUE} \cup (IF machine.faults THEN {FALSE} ELSE {})

-----------------------------------------------------------------------------
(* What the worker can observe. *)

Alive == {t \in plan : os[t] = "alive"}
Reused == {t \in plan : os[t] = "reused"}

(* Mutant: liveness is read from the process table alone. *)
ListedSurvivors(listed) == listed

(* observe_exact_target_liveness: a frozen pid the process table omitted is  *)
(* looked up on its own, so survivors never depend on what was listed.       *)
Survivors(listed) == listed \cup {t \in Alive : t \notin listed}
MissingLive(listed) == Alive \ listed

(* Analyzer::revalidate, BeforeSignal. *)
Eligible == ~drift /\ ~revived

(* validate_stage: TRUE when it returns the survivors. *)
StageValid(listed) ==
    /\ Reused = {}
    /\ MissingLive(listed) = {}
    /\ Survivors(listed) = {} \/ Eligible

(* Analyzer::revalidate, RevivalCheck: a live frozen remainder may or may    *)
(* not still be classified as the session.                                   *)
RevivalStatus(listed) ==
    (IF drift THEN {"blocked"} ELSE {})
    \cup (IF revived \/ listed # {} THEN {"revived"} ELSE {})
    \cup (IF revived THEN {} ELSE {"gone"})

(* signal_gate_matches and the policy revision, read under the status lock. *)
GateMatches == up /\ armed = frozen /\ armed # 0 /\ ~policyMoved
ShouldStop == cancelled \/ ~GateMatches

PrimaryTargets ==
    IF plan \cap Controllers # {} THEN plan \cap Controllers ELSE plan \cap BrowserRoots

(* The targets a stage signals, out of the survivors validated before it. *)
StageTargets(s, survivors, attempted) ==
    CASE s = "primary" -> survivors \cap PrimaryTargets
      [] s = "member"  -> survivors \ attempted
      [] s = "kill"    -> survivors
NextStage == [primary |-> "member", member |-> "kill", kill |-> "kill"]
SignalOf(s) == IF s = "kill" THEN "kill" ELSE "term"
Row == <<frame.current, SignalOf(frame.stage)>>

(* A delivered or possibly delivered side effect recorded by the journal. *)
Uncertain ==
    \/ \E r \in Targets \X Signals : rows[r] = "delivery_unknown"
    \/ artRow = "delivery_unknown"
SideEffect ==
    \/ \E r \in Targets \X Signals : rows[r] = "delivered"
    \/ artRow = "removed"
HasPrepared == artRow = "prepared" \/ \E r \in Targets \X Signals : rows[r] = "prepared"

(* managed_arm_blocker *)
ArmBlocked == attempt = "open" \/ (retryBlock /\ (Uncertain \/ SideEffect))

-----------------------------------------------------------------------------
Init ==
    /\ machine \in Machines
    /\ os = [t \in Targets |-> "alive"]
    /\ drift = FALSE
    /\ revived = FALSE
    /\ disk \in (IF HasArtifact THEN {"absent", "exact"} ELSE {"absent"})
    /\ up = TRUE
    /\ armed = 0
    /\ failedInst = FALSE
    /\ policyMoved = FALSE
    /\ cancelled = FALSE
    /\ pc = "idle"
    /\ frame = NoFrame
    /\ result = "none"
    /\ plan = {}
    /\ frozen = 0
    /\ artFrozen = "absent"
    /\ attempt = "none"
    /\ rows = [r \in Targets \X Signals |-> "none"]
    /\ artRow = "none"
    /\ retryBlock = FALSE
    /\ minted = 0
    /\ attempts = 0
    /\ delivered = {}
    /\ unlinked = FALSE
    /\ revoked = FALSE
    /\ fresh = FALSE

(* The executor hands a receipt or an error back to execute_cleanup. *)
Return(r) == pc' = "return" /\ result' = r /\ frame' = NoFrame
Go(where, locals) == pc' = where /\ frame' = locals /\ UNCHANGED result

-----------------------------------------------------------------------------
(* The attempt: begin_cleanup_attempt_if_armed and the plan it freezes. *)

BeginAttempt ==
    /\ up /\ armed # 0 /\ pc = "idle"
    /\ attempts < MaxAttempts
    /\ ~retryBlock /\ attempt # "open"
    /\ plan' = {t \in Targets : os[t] = "alive"}
    /\ plan' \cap (Controllers \cup BrowserRoots) # {}
    /\ attempt' = "open"
    /\ rows' = [r \in Targets \X Signals |-> "none"]
    /\ artRow' = "none"
    /\ frozen' = armed
    /\ policyMoved' = FALSE
    /\ cancelled' = FALSE
    /\ pc' = "begin"
    /\ attempts' = attempts + 1
    /\ delivered' = {}
    /\ unlinked' = FALSE
    /\ revoked' = FALSE
    /\ UNCHANGED <<world, up, armed, failedInst, result, frame, artFrozen, retryBlock,
                   minted, fresh>>

StartStage(s, survivors) ==
    Go(IF survivors = {} THEN "windows" ELSE "loop",
       [frame EXCEPT !.stage = s,
                     !.todo = StageTargets(s, survivors, frame.attempted)])

(* First check, first observation, artifact freeze. *)
Start ==
    /\ pc = "begin"
    /\ \/ /\ ShouldStop
          /\ Return("failed") /\ UNCHANGED artFrozen
       \/ /\ ~ShouldStop
          /\ \E r \in {"runtime", "failed"} : Return(r)  \* snapshot, lookup, freeze
          /\ UNCHANGED artFrozen
       \/ \E listed \in SUBSET Alive :
             /\ ~ShouldStop
             /\ ~StageValid(listed)
             /\ Return("failed") /\ UNCHANGED artFrozen
       \/ \E listed \in SUBSET Alive :
             /\ ~ShouldStop
             /\ StageValid(listed)
             /\ StartStage("primary", Survivors(listed))
             /\ artFrozen' \in (IF disk = "absent" THEN {"absent"} ELSE {"exact", "unsafe"})
    /\ UNCHANGED <<world, authority, durable, history, plan, frozen>>

-----------------------------------------------------------------------------
(* signal(): prepare, recheck, deliver, complete. *)

PrepareAction(t) ==
    /\ pc = "loop" /\ t \in frame.todo
    /\ \/ /\ (frame.stage = "kill" /\ t \notin frame.attempted) \/ ShouldStop
          /\ Return("failed")        \* kill_without_term, drain_requested
          /\ UNCHANGED <<rows, fresh>>
       \/ /\ machine.faults
          /\ frame.stage = "kill" => t \in frame.attempted
          /\ ~ShouldStop
          /\ Return("runtime")       \* the clock or prepare_action failed
          /\ UNCHANGED <<rows, fresh>>
       \/ /\ frame.stage = "kill" => t \in frame.attempted
          /\ ~ShouldStop
          /\ rows' = [rows EXCEPT ![<<t, SignalOf(frame.stage)>>] = "prepared"]
          /\ fresh' = Eligible
          /\ Go("prepared", [frame EXCEPT !.current = t, !.todo = @ \ {t}])
    /\ UNCHANGED <<world, authority, plan, frozen, artFrozen, attempt, artRow, retryBlock,
                   minted, attempts, delivered, unlinked, revoked>>

(* The action is to be completed with disposition d; what follows is a. *)
Settled(d, a) == Go("effected", [frame EXCEPT !.disp = d, !.after = a])

(* Mutant: liveness is rechecked after PREPARED, the classification is not. *)
RecheckLivenessOnly ==
    /\ pc = "prepared"
    /\ \/ ShouldStop /\ Settled("cancelled", "failed")
       \/ ~ShouldStop /\ Reused # {} /\ Settled("identity_mismatch", "failed")
       \/ /\ ~ShouldStop /\ Reused = {}
          /\ IF frame.current \in Alive THEN Go("checked", frame)
             ELSE Settled("already_exited", "next")
    /\ UNCHANGED <<world, authority, durable, history, plan, frozen, artFrozen>>

RecheckAction ==
    /\ pc = "prepared"
    /\ \/ ShouldStop /\ Settled("cancelled", "failed")
       \/ ~ShouldStop /\ Settled("cancelled", "runtime")       \* snapshot error
       \/ ~ShouldStop /\ Settled("rejected", "failed")         \* lookup incomplete
       \/ \E listed \in SUBSET Alive :
             /\ ~ShouldStop
             /\ ~StageValid(listed)
             /\ Settled(IF Reused # {} THEN "identity_mismatch" ELSE "rejected", "failed")
       \/ \E listed \in SUBSET Alive :
             /\ ~ShouldStop
             /\ StageValid(listed)
             /\ IF frame.current \in Survivors(listed)
                THEN Go("checked", frame)
                ELSE Settled("already_exited", "next")
    /\ UNCHANGED <<world, authority, durable, history, plan, frozen, artFrozen>>

(* Mutant: authority was checked by should_stop, the delivery trusts it. *)
OutcomesUngated ==
    CASE os[frame.current] = "gone" -> {<<"already_exited", FALSE>>}
      [] os[frame.current] = "reused" -> {<<"identity_mismatch", FALSE>>}
      [] OTHER -> {<<"delivered", TRUE>>}

(* MacosRuntime::signal_exact inside deliver_signal_if_armed; the second     *)
(* component is whether the signal really reached the exact process.         *)
ExactOutcomes ==
    IF ShouldStop THEN {<<"cancelled", FALSE>>}
    ELSE {<<"rejected", FALSE>>, <<"delivery_unknown", FALSE>>} \cup  \* refused, panicked
         CASE os[frame.current] = "gone" -> {<<"already_exited", FALSE>>}
           [] os[frame.current] = "reused" -> {<<"identity_mismatch", FALSE>>}
           [] os[frame.current] = "alive" ->
                 {<<"delivered", TRUE>>, <<"delivery_unknown", TRUE>>}

SignalExact ==
    /\ pc = "checked"
    /\ \E o \in ExactOutcomes :
          /\ Settled(o[1], IF o[1] \in {"delivered", "already_exited"} THEN "next"
                           ELSE "failed")
          /\ delivered' = IF o[2] THEN delivered \cup {Row} ELSE delivered
    /\ UNCHANGED <<world, authority, durable, plan, frozen, artFrozen, minted, attempts,
                   unlinked, revoked, fresh>>

(* Mutant: one TERM marks the whole plan as attempted. *)
CompleteMarksPlan ==
    /\ pc = "effected"
    /\ rows' = [rows EXCEPT ![Row] = frame.disp]
    /\ IF frame.after = "next"
       THEN Go("loop", [frame EXCEPT !.disp = "none", !.attempted = plan])
       ELSE Return(frame.after)
    /\ fresh' = FALSE
    /\ UNCHANGED <<world, authority, plan, frozen, artFrozen, attempt, artRow, retryBlock,
                   minted, attempts, delivered, unlinked, revoked>>

(* complete_prepared, and term_attempted.insert after a TERM that went on.   *)
CompleteAction ==
    /\ pc = "effected"
    /\ rows' = [rows EXCEPT ![Row] = frame.disp]
    /\ IF frame.after = "next"
       THEN Go("loop", [frame EXCEPT !.disp = "none",
                                     !.attempted = IF frame.stage = "kill" THEN @
                                                   ELSE @ \cup {frame.current}])
       ELSE Return(frame.after)
    /\ fresh' = FALSE
    /\ UNCHANGED <<world, authority, plan, frozen, artFrozen, attempt, artRow, retryBlock,
                   minted, attempts, delivered, unlinked, revoked>>

(* The disposition cannot be persisted: the row stays PREPARED and the       *)
(* attempt open (CleanupError::AttemptOpen).                                 *)
AttemptLeftOpen ==
    /\ machine.faults
    /\ pc \in {"effected", "artifact_effected"}
    /\ Return("open")
    /\ fresh' = FALSE
    /\ UNCHANGED <<world, authority, durable, plan, frozen, artFrozen, minted, attempts,
                   delivered, unlinked, revoked>>

-----------------------------------------------------------------------------
(* Between stages: wait out the grace, observe, escalate only to survivors. *)

GraceEnds ==
    /\ pc = "loop" /\ frame.todo = {}
    /\ \/ ShouldStop /\ Return("failed")
       \/ ~ShouldStop /\ \E r \in {"runtime", "failed"} : Return(r)  \* wait, snapshot, lookup
       \/ \E listed \in SUBSET Alive :
             /\ ~ShouldStop /\ frame.stage # "kill"
             /\ IF StageValid(listed)
                THEN StartStage(NextStage[frame.stage], Survivors(listed))
                ELSE Return("failed")
       \/ \E listed \in SUBSET Alive :
             /\ ~ShouldStop /\ frame.stage = "kill"
             /\ IF Reused = {} /\ Survivors(listed) = {}
                THEN Go("windows", frame)
                ELSE Return("failed")
    /\ UNCHANGED <<world, authority, durable, history, plan, frozen, artFrozen>>

(* The verdict on an absent tree: by classification, then by exact liveness. *)
Verdict(listed, status) ==
    CASE status = "revived" -> "revived"
      [] status = "blocked" -> "failed"
      [] status = "gone" /\ (Reused # {} \/ Survivors(listed) # {}) -> "failed"
      [] OTHER -> "gone"

(* One revival window; the last one also carries the terminal proof. *)
RevivalWindow ==
    /\ pc = "windows"
    /\ \/ ShouldStop /\ Return("failed")
       \/ ~ShouldStop /\ \E r \in {"runtime", "failed"} : Return(r)
       \/ \E listed \in SUBSET Alive : \E status \in RevivalStatus(listed) :
             /\ ~ShouldStop
             /\ frame.window + 1 < RevivalWindows
             /\ CASE status = "gone" -> Go("windows", [frame EXCEPT !.window = @ + 1])
                  [] status = "revived" -> Return("revived")
                  [] status = "blocked" -> Return("failed")
       \/ \E listed \in SUBSET Alive : \E status \in RevivalStatus(listed) :
             /\ ~ShouldStop
             /\ frame.window + 1 >= RevivalWindows
             /\ CASE Verdict(listed, status) # "gone" -> Return(Verdict(listed, status))
                  [] Verdict(listed, status) = "gone" /\ HasArtifact -> Go("artifact", frame)
                  [] OTHER -> Return("cleared")
    /\ UNCHANGED <<world, authority, durable, history, plan, frozen, artFrozen>>

-----------------------------------------------------------------------------
(* execute_artifact_action. *)

(* An artifact absent at the freeze is looked at again before PREPARED, and  *)
(* whatever appeared is classified, never removed.                           *)
LateArtifact == IF disk = "absent" THEN {"already_absent"}
                ELSE {"identity_mismatch", "unsafe"}

PrepareArtifactRow == attempt = "open" /\ artRow' = "prepared"
CompleteArtifactRow(d) == artRow \in {"prepared", d} /\ artRow' = d

PrepareArtifact ==
    /\ pc = "artifact"
    /\ \/ ShouldStop /\ Return("failed") /\ UNCHANGED artRow
       \/ ~ShouldStop /\ Return("runtime") /\ UNCHANGED artRow
       \/ /\ ~ShouldStop
          /\ PrepareArtifactRow
          /\ \E d \in (CASE artFrozen = "absent" -> LateArtifact
                         [] artFrozen = "unsafe" -> {"unsafe"}
                         [] artFrozen = "exact" -> {"none"}) :
                Go("artifact_prepared", [frame EXCEPT !.disp = d])
    /\ UNCHANGED <<world, authority, history, plan, frozen, artFrozen, attempt, rows,
                   retryBlock>>

(* remove_artifact_exact under the same gate as a signal. *)
RemovalOutcomes ==
    IF ShouldStop THEN {<<"cancelled", FALSE>>}
    ELSE IF artFrozen # "exact" THEN {<<frame.disp, FALSE>>}
    ELSE {<<"referenced", FALSE>>, <<"unsafe", FALSE>>, <<"rejected", FALSE>>,
          <<"delivery_unknown", FALSE>>} \cup
         CASE disk = "absent" -> {<<"already_absent", FALSE>>}
           [] disk = "other" -> {<<"identity_mismatch", FALSE>>}
           [] disk = "exact" -> {<<"removed", TRUE>>, <<"delivery_unknown", TRUE>>}

RemoveArtifact ==
    /\ pc = "artifact_prepared"
    /\ \E o \in RemovalOutcomes :
          /\ Go("artifact_effected", [frame EXCEPT !.disp = o[1]])
          /\ unlinked' = (unlinked \/ o[2])
          /\ disk' = IF o[2] THEN "absent" ELSE disk
    /\ UNCHANGED <<os, drift, revived, authority, durable, plan, frozen, artFrozen,
                   minted, attempts, delivered, revoked, fresh>>

(* complete_artifact_prepared, then the path must be proved absent. *)
CompleteArtifact ==
    /\ pc = "artifact_effected"
    /\ CompleteArtifactRow(frame.disp)
    /\ \/ /\ frame.disp \in {"identity_mismatch", "referenced", "unsafe", "rejected"}
          /\ Return("residue")
       \/ frame.disp \in {"cancelled", "delivery_unknown"} /\ Return("failed")
       \/ /\ frame.disp \in {"removed", "already_absent"}
          /\ \/ Return("runtime")
             \/ disk # "absent" /\ Return("residue")
             \/ disk = "absent" /\ Go("post", frame)
    /\ UNCHANGED <<world, authority, history, plan, frozen, artFrozen, attempt, rows,
                   retryBlock>>

(* The last observation, after the artifact. *)
PostArtifact ==
    /\ pc = "post"
    /\ \/ \E r \in {"runtime", "failed"} : Return(r)
       \/ \E listed \in SUBSET Alive : \E status \in RevivalStatus(listed) :
             Return(IF Verdict(listed, status) = "gone" THEN "cleared"
                    ELSE Verdict(listed, status))
    /\ UNCHANGED <<world, authority, durable, history, plan, frozen, artFrozen>>

-----------------------------------------------------------------------------
(* execute_cleanup, the worker thread, and its collector. *)

(* Mutant: a delivery that ended in failure is not held against the daemon. *)
FailCloseWhenUncertain(s) == Uncertain

(* receipt_requires_global_fail_close for a receipt of terminal state s. *)
RequiresFailClose(s) ==
    Uncertain \/ (s \notin {"cleared", "residue"} /\ SideEffect)

TerminalState(r) == IF r = "runtime" THEN "failed" ELSE r

SettleAttempt(ok) ==
    /\ pc = "return"
    /\ IF result # "open" /\ ok /\ ~HasPrepared
       THEN /\ attempt' = TerminalState(result)
            /\ retryBlock' = (result # "cleared")
            /\ pc' = IF result = "runtime" \/ RequiresFailClose(TerminalState(result))
                     THEN "err" ELSE "idle"
       ELSE pc' = "err" /\ UNCHANGED <<attempt, retryBlock>>
    /\ result' = "none"
    /\ UNCHANGED <<world, authority, history, frame, plan, frozen, artFrozen, rows, artRow>>

(* Mutant: the panic unwinds the thread and nobody hears of it. *)
PanicLosesWorker ==
    /\ pc \in Executing \cup {"return"}
    /\ pc' = "idle"
    /\ frame' = NoFrame
    /\ result' = "none"
    /\ fresh' = FALSE
    /\ UNCHANGED <<world, authority, durable, plan, frozen, artFrozen, minted, attempts,
                   delivered, unlinked, revoked>>

(* A panic anywhere in the worker is caught and becomes its error. *)
WorkerPanics ==
    /\ pc \in Executing \cup {"return"}
    /\ pc' = "err"
    /\ frame' = NoFrame
    /\ result' = "none"
    /\ fresh' = FALSE
    /\ UNCHANGED <<world, authority, durable, plan, frozen, artFrozen, minted, attempts,
                   delivered, unlinked, revoked>>

FailClosed ==
    /\ armed' = 0
    /\ failedInst' = TRUE
    /\ revoked' = TRUE

WorkerFailsClosed ==
    /\ pc = "err"
    /\ pc' = "joinable"
    /\ FailClosed
    /\ UNCHANGED <<world, up, policyMoved, cancelled, durable, frame, result, plan,
                   frozen, artFrozen, minted, attempts, delivered, unlinked, fresh>>

(* Mutant: PREPARED is taken for not delivered. *)
RecoverAsCancelled == [r \in Targets \X Signals |->
                          IF rows[r] = "prepared" THEN "cancelled" ELSE rows[r]]

(* recover_incomplete_attempts *)
RecoverRows == [r \in Targets \X Signals |->
                   IF rows[r] = "prepared" THEN "delivery_unknown" ELSE rows[r]]
Recover ==
    IF attempt = "open"
    THEN /\ rows' = RecoverRows
         /\ artRow' = IF artRow = "prepared" THEN "delivery_unknown" ELSE artRow
         /\ attempt' = "failed"
         /\ retryBlock' = TRUE
    ELSE UNCHANGED durable

(* collect_background_cleanup: the thread is gone, its journal is settled. *)
CollectWorker(ok) ==
    /\ pc = "joinable"
    /\ pc' = "idle"
    /\ FailClosed
    /\ IF ok THEN Recover ELSE UNCHANGED durable
    /\ UNCHANGED <<world, up, policyMoved, cancelled, frame, result, plan, frozen,
                   artFrozen, minted, attempts, delivered, unlinked, fresh>>

-----------------------------------------------------------------------------
(* Authority: operator commands, shutdown, crash, restart. *)

Arm ==
    /\ up /\ ~failedInst /\ armed = 0
    /\ ~ArmBlocked
    /\ minted < MaxEpochs
    /\ minted' = minted + 1
    /\ armed' = minted + 1
    /\ UNCHANGED <<world, up, failedInst, policyMoved, cancelled, worker, durable,
                   attempts, delivered, unlinked, revoked, fresh>>

(* Disarm, BeginDrain, or another component's fail_closed. *)
CloseGate(fails) ==
    /\ up /\ armed # 0
    /\ armed' = 0
    /\ failedInst' = (failedInst \/ fails)
    /\ revoked' = TRUE
    /\ UNCHANGED <<world, up, policyMoved, cancelled, worker, durable, minted, attempts,
                   delivered, unlinked, fresh>>

(* A policy mutation publishes another revision, or publishes the frozen one *)
(* again (commit_public_mutation stores the revision of a replayed receipt). *)
PolicyMoves ==
    /\ up /\ pc \in Executing
    /\ policyMoved' = ~policyMoved
    /\ UNCHANGED <<world, up, armed, failedInst, cancelled, worker, durable, history>>

(* shutdown_background_cleanup *)
Cancel ==
    /\ up /\ pc \in Executing /\ ~cancelled
    /\ cancelled' = TRUE
    /\ UNCHANGED <<world, up, armed, failedInst, policyMoved, worker, durable, history>>

(* authorize_retry, or the retirement of a block whose root is proved absent. *)
ResolveBlock ==
    /\ up /\ retryBlock
    /\ retryBlock' = FALSE
    /\ UNCHANGED <<world, authority, worker, attempt, rows, artRow, history>>

Crash ==
    /\ up
    /\ up' = FALSE
    /\ armed' = 0
    /\ failedInst' = FALSE
    /\ revoked' = TRUE
    /\ pc' = "idle"
    /\ frame' = NoFrame
    /\ result' = "none"
    /\ policyMoved' = FALSE
    /\ cancelled' = FALSE
    /\ fresh' = FALSE
    /\ UNCHANGED <<world, plan, frozen, artFrozen, durable, minted, attempts, delivered,
                   unlinked>>

Restart ==
    /\ ~up
    /\ up' = TRUE
    /\ Recover
    /\ UNCHANGED <<world, armed, failedInst, policyMoved, cancelled, worker, history>>

-----------------------------------------------------------------------------
(* The world. *)

ProcessExits(t) ==
    /\ os[t] = "alive"
    /\ os' = [os EXCEPT ![t] = "gone"]
    /\ UNCHANGED <<drift, revived, disk, authority, worker, durable, history>>

PidReused(t) ==
    /\ os[t] = "gone"
    /\ os' = [os EXCEPT ![t] = "reused"]
    /\ UNCHANGED <<drift, revived, disk, authority, worker, durable, history>>

FactsChange ==
    /\ \/ drift' = ~drift /\ UNCHANGED revived
       \/ revived' = ~revived /\ UNCHANGED drift
    /\ fresh' = (fresh \/ (pc \in {"prepared", "checked"} /\ ~drift' /\ ~revived'))
    /\ UNCHANGED <<os, disk, authority, worker, durable, minted, attempts, delivered,
                   unlinked, revoked>>

FileAppears ==
    /\ HasArtifact /\ disk # "other"
    /\ disk' = "other"
    /\ UNCHANGED <<os, drift, revived, authority, worker, durable, history>>

FileVanishes ==
    /\ disk # "absent"
    /\ disk' = "absent"
    /\ UNCHANGED <<os, drift, revived, authority, worker, durable, history>>

-----------------------------------------------------------------------------
WorkerStep ==
    \/ Start
    \/ \E t \in Targets : PrepareAction(t)
    \/ RecheckAction
    \/ SignalExact
    \/ CompleteAction
    \/ AttemptLeftOpen
    \/ GraceEnds
    \/ RevivalWindow
    \/ PrepareArtifact
    \/ RemoveArtifact
    \/ CompleteArtifact
    \/ PostArtifact
    \/ \E ok \in StoreOutcome : SettleAttempt(ok)
    \/ WorkerFailsClosed
    \/ \E ok \in StoreOutcome : CollectWorker(ok)

WorldStep ==
    \/ \E t \in Targets : ProcessExits(t) \/ PidReused(t)
    \/ FactsChange
    \/ FileAppears
    \/ FileVanishes

Step ==
    \/ BeginAttempt
    \/ WorkerStep
    \/ WorkerPanics
    \/ Arm
    \/ \E fails \in BOOLEAN : CloseGate(fails)
    \/ PolicyMoves
    \/ Cancel
    \/ ResolveBlock
    \/ Crash
    \/ Restart
    \/ WorldStep

Next == Step /\ UNCHANGED machine

Spec == Init /\ [][Next]_vars

(* The worker thread and the joining engine thread keep running, and launchd *)
(* keeps the daemon alive (KeepAlive in the plist of service.rs).            *)
FairSpec == /\ Spec
            /\ WF_vars(WorkerStep /\ UNCHANGED machine)
            /\ WF_vars(Restart /\ UNCHANGED machine)

-----------------------------------------------------------------------------
(* Properties. *)

(* KILL is only for an exact process that already received TERM in the same  *)
(* attempt (execute, "KILL only for exact survivors that already received    *)
(* TERM", docs/SAFETY.md).                                                   *)
KillAfterTerm ==
    \A t \in Targets : <<t, "kill">> \in delivered => <<t, "term">> \in delivered

(* The journal never denies a side effect: whatever really happened is, at   *)
(* every instant and across crashes and recovery, a row that is PREPARED,    *)
(* delivered or delivery_unknown (signal, recover_incomplete_attempts).      *)
JournalCoversEffects ==
    /\ \A r \in delivered : rows[r] \in {"prepared", "delivered", "delivery_unknown"}
    /\ unlinked => artRow \in {"prepared", "removed", "delivery_unknown"}

(* CLEARED is a proof of absence: no exact target of the plan is alive, even *)
(* when the process table omitted it and the classifier called the session   *)
(* gone (observe_exact_target_liveness, execute).                            *)
ClearedMeansGone == attempt = "cleared" => Alive = {}

(* A plan never outlives its authority: once its gate closed, even if the    *)
(* operator arms again before the worker looks, no further signal is sent    *)
(* and no file removed (deliver_signal_if_armed; Pause/Resume is a policy    *)
(* revision and not part of this).                                           *)
RevokedPlanIsInert ==
    [][revoked /\ revoked' => /\ delivered' \subseteq delivered
                              /\ unlinked' => unlinked]_vars

(* Every signal rests on facts that held after its action was journalled,    *)
(* never on an observation made before (signal, validate_stage).             *)
SignalRestsOnFreshFacts ==
    [][\A r \in delivered' \ delivered : fresh]_vars

(* A file that was absent when the plan was frozen is never removed,         *)
(* whenever it appears (execute_artifact_action).                            *)
LateArtifactUntouched == unlinked => artFrozen = "exact"

(* Authority never reopens beside an attempt that delivered, or may have,    *)
(* and is still blocked: the gate is open there only while the worker owes   *)
(* its fail_closed or the outcome is a known residue (managed_arm_blocker,   *)
(* receipt_requires_global_fail_close).                                      *)
UnresolvedAttemptIsFenced ==
    armed # 0 /\ retryBlock /\ (Uncertain \/ SideEffect) =>
        pc = "err" \/ (attempt = "residue" /\ ~Uncertain)

(* Every attempt is settled: no stage, wait, error path, panic or crash      *)
(* leaves it open for ever (execute_cleanup, collect_background_cleanup,     *)
(* recover_incomplete_attempts). Stated for a store that accepts writes.     *)
AttemptSettles == []<>(attempt # "open" \/ machine.faults)

=============================================================================
