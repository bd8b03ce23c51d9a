--------------------------- MODULE OwnerMutations ---------------------------
(***************************************************************************)
(* The owner's ordinary mutations (pause, resume, retry, protect,          *)
(* unprotect) and the cleanup-policy revision that revokes frozen plans.   *)
(*                                                                         *)
(* Two client families reach the same durable state.  The App speaks the   *)
(* public schema: every request names a receipt-authority namespace and a  *)
(* mutation id, and one SQLite transaction changes the state, advances the *)
(* durable revision and stores the receipt.  The CLI speaks schema v1: the *)
(* state change is durable, the revision advances in memory only.  A       *)
(* cleanup cycle captures the in-memory revision, and every signal of the  *)
(* plan it freezes requires that same revision to be current.              *)
(*                                                                         *)
(* One incident stands for all of them.  Deadlines are abstracted to       *)
(* "active" and "elapsed", receipt retention to a choice of which receipts *)
(* have reached their retain-until time.  Requests that fail (conflicting  *)
(* reuse of an id, a lost namespace, a full receipt table, an unknown      *)
(* incident) return before writing anything: they are stuttering steps.    *)
(***************************************************************************)
EXTENDS Integers, FiniteSets

CONSTANTS
    MutationIds,       \* the mutation UUIDs clients use
    MaxNamespaces,     \* bound: receipt namespaces that are ever current
    MaxReceipts,       \* MAX_MUTATION_RECEIPTS, the admission limit
    MaxRevision,       \* bound: revisions, durable and in memory
    CompatClients,     \* TRUE: schema-v1 clients (the CLI) issue mutations too
    ClientsResend      \* TRUE: a client may repeat a request that was committed

ASSUME BoundsAssumption ==
    /\ MaxNamespaces \in Nat \ {0}
    /\ MaxReceipts \in Nat
    /\ MaxRevision \in Nat
    /\ CompatClients \in BOOLEAN
    /\ ClientsResend \in BOOLEAN

VARIABLES
    db,           \* durable owner policy: settings, blocks, protections, control_metadata
    receipts,     \* ordinary_mutation_receipts
    mem,          \* ControlPlane: paused_until and the cleanup_policy_revision atomic
    phase,        \* DaemonStatus, as evaluate_action and the signal gate read it
    cycle,        \* the observation cycle: its stage and the revision it captured
    plan,         \* the revision frozen into the running attempt, or NoRevision
    stale,        \* history: which of cycle and plan predate an owner mutation
    applications, \* history: how often each public mutation changed the state
    appOnly       \* history: no schema-v1 mutation and no resent request so far

vars == <<db, receipts, mem, phase, cycle, plan, stale, applications, appOnly>>

Namespaces == 1 .. MaxNamespaces

Revisions == 0 .. MaxRevision

NoRevision == -1

Idle == [stage |-> "idle", revision |-> NoRevision]

Commands == {"pause", "resume", "retry", "protect", "unprotect"}

Outcomes == {"applied", "no_change", "rejected"}

PauseStates == {"none", "active", "elapsed"}

Receipts == [namespace : Namespaces, id : MutationIds, command : Commands,
             outcome : Outcomes, revision : Revisions]

Policies == [pause : PauseStates, blocked : BOOLEAN, observed : BOOLEAN,
             protected : BOOLEAN, revision : Revisions, namespace : Namespaces]

TypeOK ==
    /\ db \in Policies
    /\ receipts \subseteq Receipts
    /\ mem \in [pause : PauseStates, revision : Revisions]
    /\ phase \in {"enforce", "draining", "failed"}
    /\ cycle \in [stage : {"idle", "observing", "confirmed"},
                  revision : Revisions \cup {NoRevision}]
    /\ plan \in Revisions \cup {NoRevision}
    /\ stale \in [{"cycle", "plan"} -> BOOLEAN]
    /\ applications \in [Namespaces \X MutationIds -> Nat]
    /\ appOnly \in BOOLEAN

Init ==
    /\ db = [pause |-> "none", blocked |-> FALSE, observed |-> FALSE,
             protected |-> FALSE, revision |-> 0, namespace |-> 1]
    /\ receipts = {}
    /\ mem = [pause |-> "none", revision |-> 0]
    /\ phase = "enforce"
    /\ cycle = Idle
    /\ plan = NoRevision
    /\ stale = [x \in {"cycle", "plan"} |-> FALSE]
    /\ applications = [m \in Namespaces \X MutationIds |-> 0]
    /\ appOnly = TRUE

-----------------------------------------------------------------------------
(***************************************************************************)
(* The shared action policy and its durable effect.                        *)
(***************************************************************************)

\* evaluate_action, the two verdicts that leave the state alone.
Refuses(command) ==
    \/ phase # "enforce"
    \/ command = "retry" /\ ~db.blocked
    \/ command = "protect" /\ ~db.observed

HasNothingToDo(command) ==
    \/ command = "resume" /\ db.pause # "active"
    \/ command = "protect" /\ db.protected
    \/ command = "unprotect" /\ ~db.protected

Decision(command) ==
    IF Refuses(command) THEN "rejected"
    ELSE IF HasNothingToDo(command) THEN "no_change" ELSE "applied"

\* The owner policy once a command has been applied to it.
Effect(policy, command) ==
    CASE command = "pause"     -> [policy EXCEPT !.pause = "active"]
      [] command = "resume"    -> [policy EXCEPT !.pause = "none"]
      [] command = "retry"     -> [policy EXCEPT !.blocked = FALSE]
      [] command = "protect"   -> [policy EXCEPT !.protected = TRUE]
      [] command = "unprotect" -> [policy EXCEPT !.protected = FALSE]

\* Mutant: only pause and resume count as policy changes.
RevisionAfterPauseOnly(command) ==
    IF Decision(command) = "applied" /\ command \in {"pause", "resume"}
    THEN db.revision + 1 ELSE db.revision

\* policy_revision_after: only an applied mutation advances the durable revision.
RevisionAfter(command) ==
    IF Decision(command) = "applied" THEN db.revision + 1 ELSE db.revision

\* What an owner mutation makes of the captured and the frozen revision.
MarkStale == stale' = [x \in {"cycle", "plan"} |-> TRUE]

-----------------------------------------------------------------------------
(***************************************************************************)
(* The public schema: commit_public_mutation under the status lock.        *)
(***************************************************************************)

Retained(n, i) == {r \in receipts : r.namespace = n /\ r.id = i}

\* Mutant: a lookup that does not ask whether its namespace is still current.
LookupIgnoresRotation(n, i) ==
    IF Retained(n, i) # {} THEN "committed" ELSE "not_found"

MutationLookup(n, i) ==
    IF Retained(n, i) # {} THEN "committed"
    ELSE IF n = db.namespace THEN "not_found" ELSE "authority_lost"

\* A request whose id has a receipt for the same command: the first receipt is
\* returned, the durable state is left alone, and the in-memory revision is
\* overwritten with the revision of that receipt.
ReplayReceipt(n, i, command) ==
    /\ ClientsResend
    /\ \E r \in Retained(n, i) :
          /\ r.command = command
          /\ mem' = [mem EXCEPT !.revision = r.revision]
    /\ UNCHANGED <<db, receipts, phase, cycle, plan, stale, applications>>

\* A request with no receipt, in the current namespace, with a slot left.
CommitMutation(i, command) ==
    /\ Retained(db.namespace, i) = {}
    /\ Cardinality(receipts) < MaxReceipts
    /\ RevisionAfter(command) <= MaxRevision
    /\ LET applied == Decision(command) = "applied"
           after == IF applied THEN Effect(db, command) ELSE db
       IN  /\ db' = [after EXCEPT !.revision = RevisionAfter(command)]
           /\ receipts' = receipts \cup
                  {[namespace |-> db.namespace, id |-> i, command |-> command,
                    outcome |-> Decision(command),
                    revision |-> RevisionAfter(command)]}
           /\ mem' = [pause |-> IF applied THEN after.pause ELSE mem.pause,
                      revision |-> RevisionAfter(command)]
           /\ IF applied
              THEN /\ MarkStale
                   /\ applications' =
                        [applications EXCEPT ![<<db.namespace, i>>] = @ + 1]
              ELSE UNCHANGED <<stale, applications>>
    /\ UNCHANGED <<phase, cycle, plan>>

(***************************************************************************)
(* Schema v1: pause and resume always succeed, retry and unprotect need    *)
(* their row, protect needs an observation or an existing protection.      *)
(* Neither a draining nor a failed daemon refuses them.  The in-memory     *)
(* revision advances, the durable one does not.                            *)
(***************************************************************************)
CompatMutation(command) ==
    /\ CompatClients
    /\ command = "retry" => db.blocked
    /\ command = "unprotect" => db.protected
    /\ command = "protect" => db.observed \/ db.protected
    /\ mem.revision < MaxRevision
    /\ db' = Effect(db, command)
    /\ mem' = [pause |-> IF command \in {"pause", "resume"}
                         THEN db'.pause ELSE mem.pause,
               revision |-> mem.revision + 1]
    /\ MarkStale
    /\ UNCHANGED <<receipts, phase, cycle, plan, applications>>

\* The pause deadline passes; expire_pause later clears both copies of it
\* without advancing the revision.
PauseElapses ==
    /\ db.pause = "active"
    /\ db' = [db EXCEPT !.pause = "elapsed"]
    /\ mem' = [mem EXCEPT !.pause = "elapsed"]
    /\ UNCHANGED <<receipts, phase, cycle, plan, stale, applications>>

ExpirePause ==
    /\ mem.pause = "elapsed"
    /\ db' = [db EXCEPT !.pause = "none"]
    /\ mem' = [mem EXCEPT !.pause = "none"]
    /\ UNCHANGED <<receipts, phase, cycle, plan, stale, applications>>

-----------------------------------------------------------------------------
(***************************************************************************)
(* Retention.                                                              *)
(***************************************************************************)

\* Mutant: receipts are dropped while the namespace that names them stays.
PruneKeepsNamespace(old, history) ==
    /\ old # {} \/ history
    /\ receipts' = receipts \ old
    /\ db' = [db EXCEPT !.observed = @ /\ ~history]
    /\ UNCHANGED <<mem, phase, cycle, plan, stale, applications>>

\* prune: the receipts past their retain-until time go, and if any went the
\* namespace is replaced by a fresh token.  The same transaction drops old
\* observation events.
Prune(old, history) ==
    /\ old # {} \/ history
    /\ old # {} => db.namespace < MaxNamespaces
    /\ receipts' = receipts \ old
    /\ db' = [db EXCEPT !.observed = @ /\ ~history,
                        !.namespace = IF old = {} THEN @ ELSE @ + 1]
    /\ UNCHANGED <<mem, phase, cycle, plan, stale, applications>>

-----------------------------------------------------------------------------
(***************************************************************************)
(* The cleanup cycle that freezes a plan, and the gate its signals pass.   *)
(***************************************************************************)

\* run_cycle_inner reads the revision before it takes its snapshots.
CaptureRevision ==
    /\ cycle = Idle
    /\ cycle' = [stage |-> "observing", revision |-> mem.revision]
    /\ stale' = [stale EXCEPT !["cycle"] = FALSE]
    /\ UNCHANGED <<db, receipts, mem, phase, plan, applications>>

\* The snapshots show the incident: record_observation_batch indexes it, and it
\* may be confirmed unless apply_owner_protection finds the owner's protection.
ObserveIncident(confirmed) ==
    /\ cycle.stage = "observing"
    /\ confirmed => ~db.protected
    /\ db' = [db EXCEPT !.observed = TRUE]
    /\ cycle' = IF confirmed THEN [cycle EXCEPT !.stage = "confirmed"] ELSE Idle
    /\ UNCHANGED <<receipts, mem, phase, plan, stale, applications>>

\* The snapshots do not show it: the reconcilers drop a retry block and a
\* protection whose exact processes have been absent long enough.
ObserveAbsence(dropBlock, dropProtection) ==
    /\ cycle.stage = "observing"
    /\ db' = [db EXCEPT !.blocked = @ /\ ~dropBlock,
                        !.protected = @ /\ ~dropProtection]
    /\ cycle' = Idle
    /\ UNCHANGED <<receipts, mem, phase, plan, stale, applications>>

\* The recheck before an attempt, without the comparison of revisions.
MayBegin ==
    /\ phase = "enforce"
    /\ cycle.stage = "confirmed"
    /\ plan = NoRevision
    /\ ~db.blocked

\* The attempt freezes the captured revision.
Freeze ==
    /\ plan' = cycle.revision
    /\ cycle' = Idle
    /\ stale' = [stale EXCEPT !["plan"] = stale["cycle"]]
    /\ UNCHANGED <<db, receipts, mem, phase, applications>>

\* Mutant: the recheck before an attempt forgets the pause.
BeginAttemptWhilePaused ==
    /\ MayBegin
    /\ mem.revision = cycle.revision
    /\ Freeze

\* The recheck that follows the second snapshot, repeated under the status lock
\* by begin_cleanup_attempt_if_armed, and the attempt it opens.
BeginAttempt ==
    /\ MayBegin
    /\ mem.pause # "active"
    /\ mem.revision = cycle.revision
    /\ Freeze

\* Nothing is begun: a recheck failed, or the cycle was stopped.
EndCycle ==
    /\ cycle.stage = "confirmed"
    /\ cycle' = Idle
    /\ UNCHANGED <<db, receipts, mem, phase, plan, stale, applications>>

\* The attempt reaches its terminal receipt; a failure leaves a retry block.
AttemptEnds(failed) ==
    /\ plan # NoRevision
    /\ plan' = NoRevision
    /\ db' = [db EXCEPT !.blocked = @ \/ failed]
    /\ UNCHANGED <<receipts, mem, phase, cycle, stale, applications>>

LeaveEnforce(p) ==
    /\ phase = "enforce"
    /\ phase' = p
    /\ UNCHANGED <<db, receipts, mem, cycle, plan, stale, applications>>

\* The process dies and a replacement restores its memory from the database;
\* recovery turns an attempt that was open into a blocked failure.
Restart ==
    /\ mem' = [pause |-> db.pause, revision |-> db.revision]
    /\ db' = [db EXCEPT !.blocked = @ \/ plan # NoRevision]
    /\ phase' = "enforce"
    /\ cycle' = Idle
    /\ plan' = NoRevision
    /\ UNCHANGED <<receipts, stale, applications>>

\* What the App, which journals its commands and never resends one, does not do.
OtherClientStep ==
    \/ \E n \in Namespaces, i \in MutationIds, c \in Commands : ReplayReceipt(n, i, c)
    \/ \E c \in Commands : CompatMutation(c)

DaemonAndAppStep ==
    \/ \E i \in MutationIds, c \in Commands : CommitMutation(i, c)
    \/ PauseElapses
    \/ ExpirePause
    \/ \E old \in SUBSET receipts, history \in BOOLEAN : Prune(old, history)
    \/ CaptureRevision
    \/ \E confirmed \in BOOLEAN : ObserveIncident(confirmed)
    \/ \E b, p \in BOOLEAN : ObserveAbsence(b, p)
    \/ BeginAttempt
    \/ EndCycle
    \/ \E failed \in BOOLEAN : AttemptEnds(failed)
    \/ \E p \in {"draining", "failed"} : LeaveEnforce(p)
    \/ Restart

Next ==
    \/ OtherClientStep /\ appOnly' = FALSE
    \/ DaemonAndAppStep /\ UNCHANGED appOnly

Spec == Init /\ [][Next]_vars

-----------------------------------------------------------------------------
(***************************************************************************)
(* Properties.                                                             *)
(***************************************************************************)

\* signal_gate_matches and the revision comparison of deliver_signal_if_armed.
GateOpenForPlan ==
    /\ plan # NoRevision
    /\ phase = "enforce"
    /\ mem.revision = plan

\* A public mutation changes the owner's state at most once, however often it
\* is sent and whatever restarts, prunes and namespace rotations intervene.
AtMostOnce ==
    \A m \in Namespaces \X MutationIds : applications[m] <= 1

\* What a status query tells the App is true of the past: not_found means the
\* mutation was never applied, and a receipt says applied exactly when it was.
LookupIsConclusive ==
    \A n \in 1 .. db.namespace, i \in MutationIds :
        /\ MutationLookup(n, i) = "not_found" => applications[<<n, i>>] = 0
        /\ \A r \in Retained(n, i) :
              (r.outcome = "applied") = (applications[<<n, i>>] = 1)

\* An owner mutation kills every plan frozen from a revision captured before
\* it: the signal gate never opens for that plan again, not even after a pause
\* has been resumed.
StalePlanStaysDead ==
    stale["plan"] => ~GateOpenForPlan

\* The same for an owner who has used nothing but the App, which never resends:
\* Pause followed by Resume cannot revive a plan (commit_public_mutation).
AppPlanStaysDead == appOnly => StalePlanStaysDead

\* While a pause asked for through the App is running, no plan can signal, the
\* one that was frozen before it included.
AppPauseStops == appOnly => (db.pause = "active" => ~GateOpenForPlan)
=============================================================================
