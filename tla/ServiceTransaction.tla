------------------------- MODULE ServiceTransaction -------------------------
(***************************************************************************)
(* The CLI's service commands: install, accept-candidate,                  *)
(* rollback-candidate, restart-report-only, set-mode and uninstall, over   *)
(* the durable files they publish one after the other, the LaunchAgent job *)
(* of launchd and the managed daemon.                                      *)
(*                                                                         *)
(* The service lock admits one command at a time.  A command is the        *)
(* sequence of steps it still has to take (cli.todo), each step one        *)
(* durable write, launchctl call, lifecycle request or wait.  Between any  *)
(* two steps the command may die, the machine restart (launchd then loads  *)
(* the LaunchAgent file at login) or the daemon crash (KeepAlive starts it *)
(* again); any step may fail, and a step whose checks do not pass can only *)
(* fail.  Every command first settles the transaction file it finds.       *)
(*                                                                         *)
(* A generation is a numbered directory, dirs gives the build it holds: a  *)
(* later install brings a newer build, which may write a history an older  *)
(* build cannot open.  Of the history only its newest writer, its          *)
(* lifecycle generation and the enforce request the next boot would carry  *)
(* matter here; ManagedLifecycle has the row itself.  Services from before *)
(* generations (legacy plists), file permissions and the evidence kept of  *)
(* an evicted history are left out.                                        *)
(***************************************************************************)
EXTENDS Integers, Sequences, FiniteSets

CONSTANTS
    MaxInstalls,         \* bound: install commands that publish a generation
    MaxFaults            \* bound: failures, crashes and restarts together

ASSUME TransactionAssumption ==
    /\ MaxInstalls \in Nat \ {0}
    /\ MaxFaults \in Nat

VARIABLES
    tx,        \* transaction.json: the InstallTransaction, or NoTx
    plist,     \* the LaunchAgent file: the generation it selects, 0 if absent
    manifest,  \* active.json: generation and desired mode, or NoManifest
    db,        \* the history database, or NoDb
    backup,    \* the rollback copy of it, or NoDb
    dirs,      \* generation directories: the build each holds, 0 if absent
    job,       \* the generation launchd has loaded, 0 if none
    daemon,    \* the running instance, or NoDaemon
    cli,       \* the running command
    installs,  \* builds shipped so far
    faults,    \* faults so far
    unclaimed  \* history: a job was unloaded that held the enforce request, and
               \* no offline clear has removed it since

durable == <<plist, manifest, backup, dirs>>
vars == <<tx, durable, db, job, daemon, cli, installs, faults, unclaimed>>

Generations == 1 .. MaxInstalls

Phases == {"prepared", "candidate_durable", "prior_drained", "database_backed_up",
           "candidate_selected", "candidate_ready_report_only",
           "acceptance_in_progress", "rollback_in_progress", "accepted"}

NoTx == [phase |-> "none", cand |-> 0, prior |-> 0, loaded |-> FALSE,
         backedUp |-> FALSE, restore |-> FALSE]

NoManifest == [gen |-> 0, mode |-> "report_only"]

NoDb == [by |-> 0, gen |-> 0, carry |-> FALSE]

NoDaemon == [gen |-> 0, state |-> "none", pending |-> FALSE]

Idle == [todo |-> <<>>, loaded |-> FALSE, exact |-> FALSE]

-----------------------------------------------------------------------------
(***************************************************************************)
(* The commands as sequences of steps.                                     *)
(***************************************************************************)

\* quiesce_loaded_service: Disarm, BeginDrain, bootout.
Stop == <<"disarm", "drain", "bootout">>

\* Mutant: the backup is retired before the transaction that needs it.
RollbackBackupFirst ==
    <<"mark">> \o Stop \o
    <<"evict", "restore", "restore_plist", "restore_manifest",
      "restart_prior", "await_ready", "drop_backup", "drop_tx">>

\* Mutant: the transaction is retired before the prior selection is complete.
RollbackDropsEarly ==
    <<"mark">> \o Stop \o
    <<"evict", "restore", "restore_plist", "drop_tx", "drop_backup", "restore_manifest">>

Rollback ==
    <<"mark">> \o Stop \o
    <<"evict", "restore", "restore_plist", "restore_manifest",
      "restart_prior", "await_ready", "drop_tx", "drop_backup">>

Finalize == <<"retire_backup", "retire_tx">>

Install ==
    <<"survey", "prepare", "publish_generation", "candidate_durable">> \o Stop \o
    <<"prior_drained", "back_up", "database_backed_up", "select_plist",
      "select_manifest", "candidate_selected", "bootstrap", "await_ready",
      "candidate_ready">>

Accept == <<"accept_begin", "accept_commit">> \o Finalize

Emergency == <<"emergency_stop", "clear_request", "bootstrap", "await_runtime">>

Restart == <<"check_restart">> \o Emergency \o <<"await_ready">>

Contain == <<"contain", "await_contained">>

SetReportOnly == Contain \o <<"publish_report_only">>

\* Mutant: the desired mode is published once the daemon has confirmed it.
SetEnforceArmFirst ==
    <<"disarm_unexpected", "preflight", "arm", "arm_answer", "publish_enforce">>

SetEnforce == <<"disarm_unexpected", "preflight", "publish_enforce", "arm", "arm_answer">>

Uninstall == Stop \o <<"remove_plist", "remove_manifest", "remove_generations">>

Commands == {"install", "accept", "rollback", "restart", "report", "enforce", "uninstall"}

Program(command) ==
    CASE command = "install"   -> Install
      [] command = "accept"    -> Accept
      [] command = "rollback"  -> Rollback
      [] command = "restart"   -> Restart
      [] command = "report"    -> SetReportOnly
      [] command = "enforce"   -> SetEnforce
      [] command = "uninstall" -> Uninstall

Steps == UNION {{p[i] : i \in DOMAIN p} : p \in {Program(c) : c \in Commands} \cup {Finalize}}

TypeOK ==
    /\ tx \in [phase : Phases \cup {"none"}, cand : 0 .. MaxInstalls,
               prior : 0 .. MaxInstalls, loaded : BOOLEAN,
               backedUp : BOOLEAN, restore : BOOLEAN]
    /\ plist \in 0 .. MaxInstalls
    /\ manifest \in [gen : 0 .. MaxInstalls, mode : {"report_only", "enforce"}]
    /\ {db, backup} \subseteq [by : 0 .. MaxInstalls, gen : 0 .. MaxInstalls,
                               carry : BOOLEAN]
    /\ dirs \in [Generations -> 0 .. MaxInstalls]
    /\ job \in 0 .. MaxInstalls
    /\ daemon \in [gen : 0 .. MaxInstalls, pending : BOOLEAN,
                   state : {"none", "recovering", "first_scan", "ready", "enforce",
                            "failed", "draining"}]
    /\ cli.todo \in Seq(Steps)
    /\ cli.loaded \in BOOLEAN /\ cli.exact \in BOOLEAN
    /\ installs \in 0 .. MaxInstalls
    /\ faults \in 0 .. MaxFaults
    /\ unclaimed \in BOOLEAN

Init ==
    /\ tx = NoTx /\ plist = 0 /\ manifest = NoManifest
    /\ db = NoDb /\ backup = NoDb
    /\ dirs = [g \in Generations |-> 0]
    /\ job = 0 /\ daemon = NoDaemon /\ cli = Idle
    /\ installs = 0 /\ faults = 0 /\ unclaimed = FALSE

-----------------------------------------------------------------------------
(***************************************************************************)
(* What a command reads.                                                   *)
(***************************************************************************)

\* Mutant: a durable acceptance is settled like an interrupted install.
DispositionForgetsAccepted(phase) ==
    CASE phase = "none" -> "none"
      [] phase = "candidate_ready_report_only" -> "hold"
      [] OTHER -> "rollback"

\* transaction_recovery_disposition.
Disposition(phase) ==
    CASE phase = "none" -> "none"
      [] phase = "candidate_ready_report_only" -> "hold"
      [] phase = "accepted" -> "finalize"
      [] OTHER -> "rollback"

\* Mutant: a candidate that was never reported ready is taken not to have run.
MayHaveChangedReadyOnly(phase) ==
    phase \in {"candidate_ready_report_only", "acceptance_in_progress",
               "rollback_in_progress"}

CandidateDatabaseMayHaveChanged(phase) ==
    phase \in {"database_backed_up", "candidate_selected",
               "candidate_ready_report_only", "acceptance_in_progress",
               "rollback_in_progress"}

Todo == {cli.todo[i] : i \in DOMAIN cli.todo}

InRollback == "drop_tx" \in Todo

InInstall == "candidate_ready" \in Todo /\ "prepare" \notin Todo

IpcUp == daemon.state \notin {"none", "recovering"}

\* The durable row or the booting instance would arm without a new request.
HoldsRequest == db.carry \/ daemon.pending

\* validate_exact_generation_selection.
Selected(g) == g # 0 /\ manifest.gen = g /\ plist = g /\ dirs[g] # 0

RuntimeReady(g) ==
    Selected(g) /\ job # 0 /\ daemon.gen = g /\ daemon.state = "ready"

BackupMatches == tx.backedUp <=> backup # NoDb

InScope(g) == g # 0 => g \in {tx.cand, tx.prior} /\ dirs[g] # 0

\* The checks of rollback_install_transaction before its first write.
RollbackValid == InScope(plist) /\ InScope(manifest.gen) /\ BackupMatches

\* inspect_acceptance_lease.
RollbackAvailable == BackupMatches /\ (tx.prior # 0 => dirs[tx.prior] # 0)

AcceptanceState ==
    RollbackAvailable /\ manifest.mode = "report_only" /\ RuntimeReady(tx.cand)

\* A loaded job whose daemon is not asked: it has no pid, or, in a rollback, no answer.
BlindStop ==
    /\ job # 0
    /\ InRollback \/ (daemon.state = "none" /\ ~InInstall)

\* The conditions under which a step of the running command returns Ok.
Able(step) ==
    CASE step = "mark" -> RollbackValid
      [] step = "disarm" ->
            /\ InRollback => /\ InScope(plist) /\ InScope(manifest.gen)
                             /\ daemon.gen \in {0, plist}
            /\ job = 0 \/ BlindStop \/ (IpcUp /\ (InInstall => cli.exact))
      [] step = "drain" -> cli.exact
      [] step \in {"evict", "restore", "back_up"} -> job = 0
      [] step = "prepare" -> /\ installs < MaxInstalls
                             /\ plist = manifest.gen /\ (cli.loaded => plist # 0)
      [] step \in {"accept_begin", "accept_commit"} -> AcceptanceState
      [] step \in {"bootstrap", "restart_prior"} -> job = 0
      [] step = "await_ready" -> manifest.mode = "report_only" /\ RuntimeReady(manifest.gen)
      [] step \in {"await_runtime", "await_contained"} -> RuntimeReady(manifest.gen)
      [] step = "contain" -> IpcUp /\ daemon.gen = manifest.gen
      [] step = "emergency_stop" -> Selected(manifest.gen) /\ daemon.gen \in {0, manifest.gen}
      [] step = "clear_request" -> /\ Selected(manifest.gen) /\ job = 0
                                   /\ db.gen = manifest.gen
      [] step = "check_restart" ->
            /\ manifest.gen # 0 /\ manifest.mode = "report_only"
            /\ tx.phase = "candidate_ready_report_only" =>
                  RollbackAvailable /\ Selected(tx.cand)
      [] step = "disarm_unexpected" -> IpcUp /\ daemon.gen = manifest.gen
      [] step = "preflight" -> RuntimeReady(manifest.gen)
      [] step = "publish_report_only" -> manifest.gen # 0
      [] step = "arm" -> cli.exact /\ daemon.state = "ready"
      [] OTHER -> TRUE

Waits == {"await_ready", "await_runtime", "await_contained"}

\* No instance is on its way to the state the step waits for.
Stuck(step) ==
    /\ ~Able(step)
    /\ step \in Waits =>
          job = 0 \/ daemon.state \notin {"none", "recovering", "first_scan", "draining"}

-----------------------------------------------------------------------------
(***************************************************************************)
(* Commands begin, fail and die.                                           *)
(***************************************************************************)

\* What a command has to do, given the transaction it finds.
Begun(command) ==
    LET disposition == Disposition(tx.phase)
        decides == command \in {"accept", "rollback"}
    IN  CASE disposition = "none" ->
               IF decides THEN <<>>
               ELSE IF command = "restart" THEN Restart
               ELSE <<"drop_backup">> \o Program(command)
          [] disposition = "hold" ->
               IF decides \/ command = "restart" THEN Program(command) ELSE <<>>
          [] disposition = "finalize" ->
               Finalize \o (IF decides THEN <<>> ELSE Program(command))
          [] disposition = "rollback" ->
               Rollback \o (IF decides \/ command = "restart" THEN <<>>
                            ELSE Program(command))

Begin(command) ==
    /\ cli.todo = <<>> /\ Begun(command) # <<>>
    /\ cli' = [Idle EXCEPT !.todo = Begun(command)]
    /\ UNCHANGED <<tx, durable, db, job, daemon, installs, faults, unclaimed>>

\* The steps of the error path: recover_incomplete_install after a failed install
\* or commit, containment after an uncertain Arm or Disarm, otherwise none.
OnFailure ==
    LET step == Head(cli.todo)
    IN  CASE InInstall \/ step = "accept_commit" -> Rollback
          [] step \in {"arm", "arm_answer"} -> SetReportOnly
          [] step = "contain" -> Emergency \o Tail(Tail(cli.todo))
          [] step = "await_contained" -> Emergency \o Tail(cli.todo)
          [] step = "disarm_unexpected" /\ daemon.state = "enforce"
                                       /\ manifest.mode = "report_only" ->
               Contain \o Tail(cli.todo)
          [] OTHER -> <<>>

Fault == faults < MaxFaults /\ faults' = faults + 1

Fail ==
    /\ cli.todo # <<>>
    /\ Fault \/ (Stuck(Head(cli.todo)) /\ UNCHANGED faults)
    /\ cli' = [Idle EXCEPT !.todo = OnFailure]
    /\ UNCHANGED <<tx, durable, db, job, daemon, installs, unclaimed>>

CommandDies ==
    /\ cli.todo # <<>> /\ Fault
    /\ cli' = Idle
    /\ UNCHANGED <<tx, durable, db, job, daemon, installs, unclaimed>>

-----------------------------------------------------------------------------
(***************************************************************************)
(* launchd and the daemon.                                                 *)
(***************************************************************************)

\* begin_managed_boot: the instance takes over the request its generation carried.
Boot ==
    /\ job # 0 /\ daemon = NoDaemon /\ db.by <= dirs[job]
    /\ daemon' = [gen |-> job, state |-> "recovering",
                  pending |-> db.carry /\ db.gen = job]
    /\ db' = [by |-> dirs[job], gen |-> job, carry |-> FALSE]
    /\ UNCHANGED <<tx, durable, job, cli, installs, faults, unclaimed>>

FinishRecovery ==
    /\ daemon.state = "recovering"
    /\ daemon' = [daemon EXCEPT !.state = "first_scan"]
    /\ UNCHANGED <<tx, durable, db, job, cli, installs, faults, unclaimed>>

\* complete_managed_first_scan: a carried request arms unless something blocks it.
CompleteFirstScan ==
    /\ daemon.state = "first_scan"
    /\ \E state \in IF daemon.pending THEN {"enforce", "ready"} ELSE {"ready"} :
          /\ daemon' = [daemon EXCEPT !.state = state, !.pending = FALSE]
          /\ db' = [db EXCEPT !.carry = state = "enforce"]
    /\ UNCHANGED <<tx, durable, job, cli, installs, faults, unclaimed>>

FailClosed ==
    /\ daemon.state \in {"recovering", "first_scan", "ready", "enforce"} /\ Fault
    /\ daemon' = [daemon EXCEPT !.state = "failed", !.pending = FALSE]
    /\ db' = [db EXCEPT !.carry = FALSE]
    /\ UNCHANGED <<tx, durable, job, cli, installs, unclaimed>>

\* The instance is gone: no request addressed to it can be answered.
Gone == daemon' = NoDaemon /\ cli' = [cli EXCEPT !.exact = FALSE]

DrainExit ==
    /\ daemon.state = "draining"
    /\ Gone
    /\ UNCHANGED <<tx, durable, db, job, installs, faults, unclaimed>>

DaemonCrashes ==
    /\ daemon # NoDaemon /\ Fault
    /\ Gone
    /\ UNCHANGED <<tx, durable, db, job, installs, unclaimed>>

\* preserve_managed_pre_ready_restart_intent, when SIGTERM stops a booting instance.
Terminated == [db EXCEPT !.carry = @ \/ daemon.pending]

Reboot ==
    /\ Fault
    /\ job' = plist /\ daemon' = NoDaemon /\ cli' = Idle
    /\ db' \in {db, Terminated}
    /\ UNCHANGED <<tx, durable, installs, unclaimed>>

-----------------------------------------------------------------------------
(***************************************************************************)
(* The steps of a command.                                                 *)
(***************************************************************************)

Do(step) == cli.todo # <<>> /\ Head(cli.todo) = step /\ Able(step)

Advance == cli' = [cli EXCEPT !.todo = Tail(@)]

\* A step that only checks or waits.
Check(step) ==
    /\ Do(step)
    /\ Advance
    /\ UNCHANGED <<tx, durable, db, job, daemon, installs, faults, unclaimed>>

Disarmed ==
    /\ daemon' = [daemon EXCEPT !.pending = FALSE,
                                !.state = IF @ = "enforce" THEN "ready" ELSE @]
    /\ db' = [db EXCEPT !.carry = FALSE]

\* Mutant: only a healthy instance may be stopped.
QuiescePolicyHealthy ==
    daemon.state \in {"ready", "enforce"} \cup
        (IF InRollback THEN {"first_scan"} ELSE {})

\* validate_quiesce_disarm_response under its two policies.
QuiescePolicy ==
    daemon.state \in {"ready", "enforce", "failed"} \cup
        (IF InRollback THEN {"first_scan"} ELSE {})

Disarm ==
    /\ Do("disarm")
    /\ \/ /\ job = 0
          /\ cli' = [cli EXCEPT !.todo = Tail(Tail(Tail(@)))]
          /\ UNCHANGED <<db, daemon>>
       \/ /\ IpcUp /\ (InInstall => cli.exact)
          /\ Disarmed
          /\ cli' = [cli EXCEPT !.todo = Tail(@), !.exact = QuiescePolicy]
       \/ /\ BlindStop
          /\ cli' = [cli EXCEPT !.todo = Tail(Tail(@))]
          /\ UNCHANGED <<db, daemon>>
    /\ UNCHANGED <<tx, durable, job, installs, faults, unclaimed>>

Drain ==
    /\ Do("drain")
    /\ daemon' = [daemon EXCEPT !.state = "draining", !.pending = FALSE]
    /\ db' = [db EXCEPT !.carry = FALSE]
    /\ Advance
    /\ UNCHANGED <<tx, durable, job, installs, faults, unclaimed>>

Unload ==
    /\ job' = 0 /\ daemon' = NoDaemon /\ db' = Terminated
    /\ unclaimed' = (unclaimed \/ HoldsRequest)

Bootout ==
    /\ Do("bootout")
    /\ Unload
    /\ cli' = [cli EXCEPT !.todo = Tail(@), !.exact = FALSE]
    /\ UNCHANGED <<tx, durable, installs, faults>>

\* emergency_restart_generation_report_only, its bootout.
EmergencyStop ==
    /\ Do("emergency_stop")
    /\ Unload
    /\ cli' = [cli EXCEPT !.todo = Tail(@), !.exact = FALSE]
    /\ UNCHANGED <<tx, durable, installs, faults>>

ClearRequest ==
    /\ Do("clear_request")
    /\ db' = [db EXCEPT !.carry = FALSE]
    /\ unclaimed' = backup.carry
    /\ Advance
    /\ UNCHANGED <<tx, durable, job, daemon, installs, faults>>

Bootstrap ==
    /\ Do("bootstrap")
    /\ job' = plist
    /\ Advance
    /\ UNCHANGED <<tx, durable, db, daemon, installs, faults, unclaimed>>

\* install before its transaction: what launchd and the daemon's status say.
Survey ==
    /\ Do("survey")
    /\ cli' = [todo |-> Tail(cli.todo), loaded |-> job # 0, exact |-> job # 0 /\ IpcUp]
    /\ IF job # 0 /\ daemon.state = "none"
       THEN Unload
       ELSE UNCHANGED <<job, daemon, db, unclaimed>>
    /\ UNCHANGED <<tx, durable, installs, faults>>

NextGeneration ==
    1 + CHOOSE m \in 0 .. MaxInstalls :
            /\ m # 0 => dirs[m] # 0
            /\ \A g \in Generations : dirs[g] # 0 => g <= m

Prepare ==
    /\ Do("prepare")
    /\ tx' = [NoTx EXCEPT !.phase = "prepared", !.cand = NextGeneration,
                          !.prior = manifest.gen, !.loaded = cli.loaded]
    /\ installs' = installs + 1
    /\ cli' = [cli EXCEPT !.todo = Tail(@), !.loaded = FALSE]
    /\ UNCHANGED <<durable, db, job, daemon, faults, unclaimed>>

\* create_generation publishes the sealed directory by its rename.
CreateGeneration ==
    /\ Do("publish_generation")
    /\ dirs' = [dirs EXCEPT ![tx.cand] = installs]
    /\ Advance
    /\ UNCHANGED <<tx, plist, manifest, backup, db, job, daemon, installs, faults, unclaimed>>

Persist(step, phase) ==
    /\ Do(step)
    /\ tx' = [tx EXCEPT !.phase = phase]
    /\ Advance
    /\ UNCHANGED <<durable, db, job, daemon, installs, faults, unclaimed>>

BackupDatabase ==
    /\ Do("back_up")
    /\ backup' = db
    /\ Advance
    /\ UNCHANGED <<tx, plist, manifest, dirs, db, job, daemon, installs, faults, unclaimed>>

\* database_backed_up and the phase become durable in one write.
CommitBackup ==
    /\ Do("database_backed_up")
    /\ tx' = [tx EXCEPT !.phase = "database_backed_up", !.backedUp = backup # NoDb]
    /\ Advance
    /\ UNCHANGED <<durable, db, job, daemon, installs, faults, unclaimed>>

WritePlist(step, g) ==
    /\ Do(step)
    /\ plist' = g
    /\ Advance
    /\ UNCHANGED <<tx, manifest, backup, dirs, db, job, daemon, installs, faults, unclaimed>>

WriteManifest(step, m) ==
    /\ Do(step)
    /\ manifest' = m
    /\ Advance
    /\ UNCHANGED <<tx, plist, backup, dirs, db, job, daemon, installs, faults, unclaimed>>

MarkRollbackInProgress ==
    /\ Do("mark")
    /\ tx' = [tx EXCEPT !.phase = "rollback_in_progress",
                        !.restore = @ \/ CandidateDatabaseMayHaveChanged(tx.phase)]
    /\ Advance
    /\ UNCHANGED <<durable, db, job, daemon, installs, faults, unclaimed>>

\* preserve_failed_database moves the history away; without a restore the backup goes.
Evict ==
    /\ Do("evict")
    /\ db' = IF tx.restore THEN NoDb ELSE db
    /\ backup' = IF tx.restore THEN backup ELSE NoDb
    /\ Advance
    /\ UNCHANGED <<tx, plist, manifest, dirs, job, daemon, installs, faults, unclaimed>>

RestoreDatabase ==
    /\ Do("restore")
    /\ db' = IF tx.restore /\ tx.backedUp THEN backup ELSE db
    /\ Advance
    /\ UNCHANGED <<tx, durable, job, daemon, installs, faults, unclaimed>>

RollbackFloor ==
    IF tx.prior = 0 THEN NoManifest ELSE [gen |-> tx.prior, mode |-> "report_only"]

RestartPrior ==
    /\ Do("restart_prior")
    /\ IF tx.loaded
       THEN job' = plist /\ Advance
       ELSE job' = job /\ cli' = [cli EXCEPT !.todo = Tail(Tail(@))]
    /\ UNCHANGED <<tx, durable, db, daemon, installs, faults, unclaimed>>

RemoveTransaction(step) ==
    /\ Do(step)
    /\ tx' = NoTx
    /\ Advance
    /\ UNCHANGED <<durable, db, job, daemon, installs, faults, unclaimed>>

RemoveBackup(step) ==
    /\ Do(step)
    /\ backup' = NoDb
    /\ Advance
    /\ UNCHANGED <<tx, plist, manifest, dirs, db, job, daemon, installs, faults, unclaimed>>

\* restore_generation_report_only on a daemon that answers.
ContainByDisarm ==
    /\ Do("contain")
    /\ Disarmed
    /\ Advance
    /\ UNCHANGED <<tx, durable, job, installs, faults, unclaimed>>

DisarmUnexpected ==
    /\ Do("disarm_unexpected")
    /\ IF manifest.mode = "report_only" /\ daemon.state = "enforce"
       THEN Disarmed
       ELSE UNCHANGED <<daemon, db>>
    /\ Advance
    /\ UNCHANGED <<tx, durable, job, installs, faults, unclaimed>>

ArmPreflight ==
    /\ Do("preflight")
    /\ cli' = [cli EXCEPT !.todo = Tail(@), !.exact = TRUE]
    /\ UNCHANGED <<tx, durable, db, job, daemon, installs, faults, unclaimed>>

Arm ==
    /\ Do("arm")
    /\ daemon' = [daemon EXCEPT !.state = "enforce"]
    /\ db' = [db EXCEPT !.carry = TRUE]
    /\ Advance
    /\ UNCHANGED <<tx, durable, job, installs, faults, unclaimed>>

RemoveGenerations ==
    /\ Do("remove_generations")
    /\ dirs' = [g \in Generations |-> 0]
    /\ Advance
    /\ UNCHANGED <<tx, plist, manifest, backup, db, job, daemon, installs, faults, unclaimed>>

-----------------------------------------------------------------------------
CommandStep ==
    \/ Disarm \/ Drain \/ Bootout \/ EmergencyStop \/ ClearRequest \/ Bootstrap
    \/ Survey \/ Prepare \/ CreateGeneration
    \/ Persist("candidate_durable", "candidate_durable")
    \/ Persist("prior_drained", "prior_drained")
    \/ BackupDatabase \/ CommitBackup
    \/ WritePlist("select_plist", tx.cand)
    \/ WriteManifest("select_manifest", [gen |-> tx.cand, mode |-> "report_only"])
    \/ Persist("candidate_selected", "candidate_selected")
    \/ Persist("candidate_ready", "candidate_ready_report_only")
    \/ Persist("accept_begin", "acceptance_in_progress")
    \/ Persist("accept_commit", "accepted")
    \/ MarkRollbackInProgress \/ Evict \/ RestoreDatabase
    \/ WritePlist("restore_plist", tx.prior)
    \/ WriteManifest("restore_manifest", RollbackFloor)
    \/ RestartPrior
    \/ RemoveTransaction("drop_tx") \/ RemoveTransaction("retire_tx")
    \/ RemoveBackup("drop_backup") \/ RemoveBackup("retire_backup")
    \/ ContainByDisarm \/ DisarmUnexpected \/ ArmPreflight \/ Arm
    \/ WriteManifest("publish_report_only", [manifest EXCEPT !.mode = "report_only"])
    \/ WriteManifest("publish_enforce", [manifest EXCEPT !.mode = "enforce"])
    \/ WritePlist("remove_plist", 0)
    \/ WriteManifest("remove_manifest", NoManifest)
    \/ RemoveGenerations
    \/ \E step \in Waits \cup {"check_restart", "arm_answer"} : Check(step)

Command == CommandStep \/ Fail \/ CommandDies \/ \E c \in Commands : Begin(c)

Environment ==
    \/ Boot \/ FinishRecovery \/ CompleteFirstScan \/ FailClosed
    \/ DrainExit \/ DaemonCrashes \/ Reboot

Next == Command \/ Environment

Spec == Init /\ [][Next]_vars

\* The operator repeats commands, launchd restarts the daemon and its scan ends.
LiveSpec ==
    /\ Spec
    /\ WF_vars(Command)
    /\ WF_vars(Boot) /\ WF_vars(FinishRecovery) /\ WF_vars(CompleteFirstScan)
    /\ WF_vars(DrainExit)

-----------------------------------------------------------------------------
(***************************************************************************)
(* Properties.                                                             *)
(***************************************************************************)

(* A daemon enforces only beside an active manifest that selects its generation *)
(* and desires enforcement: install, rollback, set-mode and uninstall never     *)
(* leave an armed instance that the published intent denies.  The exception is  *)
(* a request that was left behind when its job was unloaded without Disarm.     *)
EnforceIsDesired ==
    daemon.state = "enforce" =>
        manifest = [gen |-> daemon.gen, mode |-> "enforce"] \/ unclaimed

(* The generation launchd has loaded can open the history: whatever fails       *)
(* between the candidate's first write and the end of its rollback, no prior    *)
(* build is loaded over a database a newer build has written.                   *)
LoadedCanOpenHistory == job # 0 => db.by <= dirs[job]

UncommittedBackup == tx.phase = "prior_drained" /\ backup # NoDb

(* From the first durable write of an install until acceptance or the end of    *)
(* the rollback, a rollback finds what it validates: a selection within the     *)
(* transaction, sealed generations and exactly the committed backup.  The one   *)
(* exception is a command that stopped after publishing the backup and before   *)
(* recording it.                                                                *)
RollbackStaysPossible ==
    Disposition(tx.phase) \in {"rollback", "hold"} => RollbackValid \/ UncommittedBackup

(* What the runbook promises of every stop before a durable acceptance: the     *)
(* next command can restore the prior generation.                               *)
RollbackNeverRefused ==
    cli.todo = <<>> /\ Disposition(tx.phase) = "rollback" => RollbackValid

(* While no command runs and no transaction is pending, the LaunchAgent selects *)
(* nothing or the generation of the active manifest, and that directory exists. *)
SettledSelection ==
    cli.todo = <<>> /\ tx = NoTx => plist = 0 \/ Selected(plist)

(* Once acceptance is durable no command reinterprets it: the transaction can   *)
(* only be retired, and the candidate's selection and history stay.             *)
AcceptedIsFinal ==
    [][tx.phase = "accepted" =>
          /\ tx' \in {tx, NoTx} /\ UNCHANGED <<plist, manifest>>
          /\ db' # NoDb]_vars

(* A rollback that has begun ends, if a command is repeated and faults stop:    *)
(* replaying mark, stop, restore and restart from any cut gets through, unless  *)
(* an enforce request was left behind in the history it restores.               *)
RollbackConverges ==
    tx.phase = "rollback_in_progress" ~> tx.phase # "rollback_in_progress" \/ unclaimed

(* The same without the exception, as the comment in                            *)
(* rollback_install_transaction states it: the replay always converges.         *)
ReplayConverges ==
    tx.phase = "rollback_in_progress" ~> tx.phase # "rollback_in_progress"
=============================================================================
