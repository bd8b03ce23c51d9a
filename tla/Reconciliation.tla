--------------------------- MODULE Reconciliation ---------------------------
(***************************************************************************)
(* The engine's cycle over time: two snapshots of the process table judged *)
(* by the rules, the cooling rows that measure abandonment, the rows that  *)
(* keep an incident from being touched, the roster and overview people     *)
(* see, and the step that opens a cleanup attempt.  The processes, the     *)
(* clocks, the operator and the owner of a session change between any two  *)
(* steps.                                                                  *)
(*                                                                         *)
(* The rules are those of Rules.tla.  Owner leases are what OwnerLease.tla *)
(* promises (Ownership.tla implements it); the attempt itself is the       *)
(* subject of ProcessCleanup.tla and only begins and ends here.  A reboot  *)
(* ends every process, so the boot session of a row is left out.           *)
(***************************************************************************)
EXTENDS Rules

CONSTANTS TableOf,    \* TableOf[w]: the processes of scene w but for the owner
          Moves,      \* pairs of scenes one of which follows the other
          OwnerPid,   \* the owner's command in the table,
          OwnerEntry, \*   and its record
          Bound,      \* [pid, birth, session, version] its lease is bound to
          Self,       \* the daemon's pid
          Grace,      \* abandonment_grace
          Gap,        \* cooling_continuity_gap
          Retention,  \* exact_absence_retention
          StartTime,
          Jumps,      \* changes of the wall clock
          Machines    \* [scenes, start, led, until, upsets, kinds, clients, suspects]

Kinds == {"jump", "restart", "disarm", "protect", "retry", "other", "request",
          "hide", "blind", "fail", "fails"}
Clients == {"app", "cli"}   \* the public schema, and schema v1
Runs == {"agent"}

ASSUME ReconciliationAssumption ==
    /\ Grace \in Nat /\ Gap \in Nat /\ Retention \in Nat /\ StartTime \in Nat
    /\ \A m \in Machines : m.start \in m.scenes /\ m.scenes \subseteq DOMAIN TableOf
    /\ \A m \in Machines : m.kinds \subseteq Kinds /\ m.clients \subseteq Clients

VARIABLES machine,    \* the instance explored; never changes
          upsets,     \* exceptional events so far
          scene, owner, lease,
          time,       \* continuous clock
          skew,       \* wall clock less continuous clock
          armed, epoch, healthy, stopping,
          revision,   \* cleanup_policy_revision: [memory, durable]
          cycle,      \* what the running cycle holds
          cooling,    \* cooling_candidates
          blocks,     \* cleanup_retry_blocks: [id, members, since]
          protected,  \* incident_protections: [id, members, since]
          newest,     \* per incident the newest observation of the history
          roster,     \* RosterState and the status that goes with it
          attempt,    \* the open cleanup attempt
          streak,     \* history: unbroken observation of abandonment
          held,       \* history: incidents somebody was told stay untouched
          retried,    \* history: when a retry of an incident was granted last
          clients     \* history: who moved the revision since the process started

physical == <<scene, owner, lease, time, skew>>
control == <<armed, epoch, healthy, stopping>>
store == <<cooling, blocks, protected, newest>>
history == <<streak, held, retried, clients>>
vars == <<machine, upsets, physical, control, revision, cycle, store, roster, attempt, history>>

Owner == INSTANCE OwnerLease

Wall == time + skew
NoTime == -1
Label == IF armed THEN epoch ELSE 0   \* the epoch a cycle works under; 0 is "disarmed"

OwnerAlive == owner["agent"] \in {"gated", "running"}
TableIn(w, alive) ==
    IF alive
    THEN [p \in (DOMAIN TableOf[w]) \cup {OwnerPid} |->
            IF p = OwnerPid THEN OwnerEntry ELSE TableOf[w][p]]
    ELSE TableOf[w]
Table == TableIn(scene, OwnerAlive)

Idle == [at |-> "idle"]
NoRoster == [freshness |-> "stale", reports |-> {}, complete |-> FALSE, at |-> NoTime, really |-> <<>>]

\* An exceptional event of one of the kinds the instance allows.
Upset(kind) == /\ kind \in machine.kinds /\ upsets < machine.upsets
               /\ upsets' = upsets + 1

Init ==
    /\ machine \in Machines
    /\ upsets = 0
    /\ scene = machine.start
    /\ owner = [r \in Runs |-> IF machine.led THEN "running" ELSE "unborn"]
    /\ lease = [r \in Runs |-> IF machine.led THEN "active" ELSE "free"]
    /\ time = StartTime /\ skew = 0
    /\ armed = TRUE /\ epoch = 1 /\ healthy = TRUE /\ stopping = FALSE
    /\ revision = [memory |-> 1, durable |-> 1]
    /\ cycle = Idle
    /\ cooling = {} /\ blocks = {} /\ protected = {} /\ newest = {}
    /\ roster = NoRoster /\ attempt = {}
    /\ streak = {} /\ held = {} /\ retried = {} /\ clients = {}

-----------------------------------------------------------------------------
(* Snapshots.  A process may be unreadable, which hides it, or only its
   arguments may be, which hides what it is. *)

Unargued(x) == [x EXCEPT !.facts = FALSE, !.controllerOf = {}, !.frameworkOf = {},
                         !.recorder = {}, !.headless = FALSE, !.pipe = FALSE, !.port = FALSE,
                         !.profile = {}, !.cli = {}, !.tag = {}, !.sessionFacts = FALSE]

Sight(t, proven, classified) ==
    [table |-> t, proven |-> proven, classified |-> classified, at |-> Wall, really |-> <<scene, OwnerAlive>>]

\* A snapshot, and the mishap that befell it.
Snapshots ==
    {<<"none", Sight(Table, TRUE, TRUE)>>}
    \cup {<<"hide", Sight([q \in DOMAIN Table \ {p} |-> Table[q]], FALSE, FALSE)>> :
            p \in machine.suspects \cap DOMAIN Table}
    \cup {<<"blind", Sight([Table EXCEPT ![p] = Unargued(@)], TRUE, FALSE)>> :
            p \in machine.suspects \cap DOMAIN Table}

Taken(mishap) == IF mishap = "none" THEN UNCHANGED upsets ELSE Upset(mishap)

\* What complete coverage of the identities, or of the arguments too, proves.
AnySnapshotProves(s) == TRUE
ProvesExactIdentityCoverage(s) == s.proven
IdentitiesProve(s) == s.proven
ProvesClassificationCoverage(s) == s.proven /\ s.classified
ExactLiveIdentities(s) == {Identity(s.table, p) : p \in DOMAIN s.table}

\* analyzer_for: the leases as they are when the cycle freezes them.
Context(leases) ==
    [self |-> Self, ancestors |-> {1}, sessions |-> {},
     tasks |-> IF leases["agent"] \in {"active", "released"}
               THEN {[pid |-> Bound.pid, birth |-> Bound.birth, session |-> Bound.session,
                      version |-> Bound.version, released |-> leases["agent"] = "released"]}
               ELSE {}]

-----------------------------------------------------------------------------
(* Cooling *)

Cooled(reports) == {r \in reports : r.state = "cooling"}

WallContinuityIsPlausible(row) ==
    LET drift == (Wall - row.lastWall) - (time - row.last)
    IN drift <= Gap /\ -drift <= Gap

ContinuesAcrossGap(row, r, label) ==
    /\ row.key = r.key /\ row.root = r.root /\ row.members = r.members
    /\ row.epoch = label
    /\ time >= row.last /\ Wall >= row.lastWall

Continues(row, r, label) ==
    /\ row.key = r.key /\ row.root = r.root /\ row.members = r.members
    /\ row.epoch = label
    /\ time >= row.last /\ Wall >= row.lastWall
    /\ time - row.last <= Gap
    /\ WallContinuityIsPlausible(row)

\* The row after an observation: continued, or started afresh.
TrackCooling(r, label) ==
    LET before == {row \in cooling : Continues(row, r, label)}
        Row(first) == [key |-> r.key, root |-> r.root, members |-> r.members, epoch |-> label,
                       first |-> first, last |-> time, lastWall |-> Wall]
    IN IF before = {} THEN Row(time) ELSE Row((CHOOSE row \in before : TRUE).first)

Tracked(reports, label) ==
    {TrackCooling(r, label) : r \in Cooled(reports)}
    \cup {row \in cooling : \A r \in Cooled(reports) : r.key # row.key}

\* retain_cooling, given the keys of the last look.
RetainCooling(rows, reports) == {row \in rows : \E r \in Cooled(reports) : r.key = row.key}

Elapsed(rows) == {row.key : row \in {x \in rows : time - x.first >= Grace}}

\* The same told from outside: who was seen abandoned and unchanged, how long
\* ago for the first time, with no gap.  The last look of a cycle ends the
\* streaks it does not continue.
Streaks(reports, label, last) ==
    LET Same(s, r) == s.root = r.root /\ s.members = r.members
        On(r) == {s \in streak : Same(s, r) /\ s.epoch = label /\ time - s.last <= Gap}
        Began(r) == IF On(r) = {} THEN time ELSE (CHOOSE s \in On(r) : TRUE).since
    IN {[root |-> r.root, members |-> r.members, epoch |-> label,
         since |-> Began(r), last |-> time] : r \in Cooled(reports)}
       \cup {s \in streak : ~last /\ \A r \in Cooled(reports) : ~Same(s, r)}

-----------------------------------------------------------------------------
(* The cycle *)

\* begin_observation_cycle, the capture of epoch and revision, the first
\* snapshot.
BeginCycle ==
    /\ cycle.at = "idle" /\ ~stopping
    /\ \E shot \in Snapshots :
          /\ Taken(shot[1])
          /\ cycle' = [at |-> "first", now |-> Wall, label |-> Label,
                       revision |-> revision.memory, sight |-> shot[2]]
    /\ roster' = [roster EXCEPT !.freshness = "scanning"]
    /\ UNCHANGED <<machine, physical, control, revision, store, attempt, history>>

\* What the cycle goes on with once it has its last look.
Settling(c, reports, sight) ==
    [at |-> "settle", now |-> c.now, label |-> c.label, revision |-> c.revision,
     sight |-> sight, reports |-> reports]

\* refresh_task_ownership may release a lease whose owner is gone; the first
\* look then decides whether there is anything to look at twice.
FirstLook ==
    /\ cycle.at = "first"
    /\ \/ UNCHANGED <<owner, lease>>
       \/ lease["agent"] = "active" /\ Owner!Release("agent")
    /\ \E ctx \in {Context(lease')} :
       \E reports \in {Observe(ctx, cycle.sight.table, cycle.sight.at)} :
       LET again == Cooled(reports) # {}
       IN /\ cooling' = IF again THEN Tracked(reports, cycle.label) ELSE {}
          /\ streak' = Streaks(reports, cycle.label, ~again)
          /\ cycle' = IF again
                      THEN [at |-> "waiting", now |-> cycle.now, label |-> cycle.label,
                            revision |-> cycle.revision, ctx |-> ctx,
                            sight |-> cycle.sight, reports |-> reports]
                      ELSE Settling(cycle, reports, cycle.sight)
    /\ UNCHANGED <<machine, upsets, scene, time, skew, control, revision, blocks, protected,
                   newest, roster, attempt, held, retried, clients>>

SecondLook ==
    /\ cycle.at = "waiting" /\ ~stopping
    /\ \E shot \in Snapshots :
          /\ Taken(shot[1])
          /\ \E reports \in {Observe(cycle.ctx, shot[2].table, shot[2].at)} :
             LET rows == Tracked(reports, cycle.label)
             IN /\ cooling' = RetainCooling(rows, reports)
                /\ streak' = Streaks(reports, cycle.label, TRUE)
                /\ cycle' = Settling(cycle,
                                     Reconcile(cycle.reports, reports, Elapsed(rows)), shot[2])
    /\ UNCHANGED <<machine, physical, control, revision, blocks, protected, newest, roster,
                   attempt, held, retried, clients>>

\* A shutdown cuts the wait short: the first look is all there is.
Interrupted ==
    /\ cycle.at = "waiting" /\ stopping
    /\ cycle' = Settling(cycle, cycle.reports, cycle.sight)
    /\ UNCHANGED <<machine, upsets, physical, control, revision, store, roster, attempt, history>>

-----------------------------------------------------------------------------
(* Rows that keep an incident from being touched.  A row starts to age when a
   snapshot proves its root absent, and goes when that lasted. *)

\* incident_id: the pack, the pid and the identity of the root.
Incident(r) == [key |-> r.key, root |-> r.root]

Aged(row, seen, proven, now) ==
    IF seen \/ ~proven THEN [row EXCEPT !.since = NoTime]
    ELSE [row EXCEPT !.since = IF @ = NoTime THEN now ELSE @]

Retires(row, seen, proven, now) ==
    ~seen /\ proven /\ row.since # NoTime /\ now - row.since >= Retention

ReconcileRetryBlocks(rows, sight, reports, now) ==
    LET Seen(b) == \/ b.id.root \in ExactLiveIdentities(sight)
                   \/ \E r \in reports : Incident(r) = b.id /\ r.members = b.members
        proven == ProvesExactIdentityCoverage(sight)
    IN {Aged(b, Seen(b), proven, now) : b \in {x \in rows : ~Retires(x, Seen(x), proven, now)}}

ReconcileIncidentProtections(rows, sight, now) ==
    LET Seen(p) == p.id.root \in ExactLiveIdentities(sight)
        proven == ProvesExactIdentityCoverage(sight)
    IN {Aged(p, Seen(p), proven, now) : p \in {x \in rows : ~Retires(x, Seen(x), proven, now)}}

IsIncidentProtected(rows, r) == \E p \in rows : p.id = Incident(r) /\ p.members = r.members

ApplyOwnerProtection(r) == [r EXCEPT !.state = "protected"]

SettleRows ==
    /\ cycle.at = "settle"
    /\ blocks' = ReconcileRetryBlocks(blocks, cycle.sight, cycle.reports, cycle.now)
    /\ protected' = ReconcileIncidentProtections(protected, cycle.sight, cycle.now)
    /\ cycle' = [cycle EXCEPT !.at = "publish",
                              !.reports = {IF IsIncidentProtected(protected', r)
                                           THEN ApplyOwnerProtection(r) ELSE r : r \in @}]
    /\ UNCHANGED <<machine, upsets, physical, control, revision, cooling, newest, roster,
                   attempt, history>>

\* record_observation_batch: an observation is the newest of its incident
\* unless the wall clock says otherwise.
RecordObservations(reports, at) ==
    {IF \E n \in newest : n.id = Incident(r) /\ n.at > at
     THEN CHOOSE n \in newest : n.id = Incident(r)
     ELSE [id |-> Incident(r), members |-> r.members, at |-> at] : r \in reports}
    \cup {n \in newest : \A r \in reports : Incident(r) # n.id}

Publish ==
    /\ cycle.at = "publish"
    /\ newest' = RecordObservations(cycle.reports, cycle.sight.at)
    /\ roster' = [freshness |-> "published", at |-> cycle.sight.at,
                  reports |-> {[state |-> r.state, decision |-> r.decision] : r \in cycle.reports},
                  complete |-> ProvesClassificationCoverage(cycle.sight),
                  really |-> cycle.sight.really]
    /\ cycle' = [cycle EXCEPT !.at = "dispatch"]
    /\ UNCHANGED <<machine, upsets, physical, control, revision, cooling, blocks, protected,
                   attempt, history>>

-----------------------------------------------------------------------------
(* Dispatch *)

SignalGateMatches(label) == armed /\ healthy /\ epoch = label

Dispatchable(c) ==
    {r \in c.reports : r.state = "confirmed" /\ ~\E b \in blocks : b.id = Incident(r)}

\* The number the cycle captured is still, or again, the number in memory.
PolicyStands == cycle.revision = revision.memory

\* begin_cleanup_attempt_if_armed for the first plan; a worker runs it, and
\* while it does the cycles only observe.  The retry blocks are read again here,
\* the protections are not.
Dispatch(r) ==
    /\ cycle.at = "dispatch"
    /\ r \in Dispatchable(cycle)
    /\ SignalGateMatches(cycle.label) /\ PolicyStands /\ ~stopping /\ attempt = {}
    /\ attempt' = {r}
    /\ cycle' = [cycle EXCEPT !.at = "finish"]
    /\ UNCHANGED <<machine, upsets, physical, control, revision, store, roster, history>>

NoDispatch ==
    /\ cycle.at = "dispatch"
    /\ \/ Dispatchable(cycle) = {} \/ ~SignalGateMatches(cycle.label) \/ ~PolicyStands
       \/ stopping \/ attempt # {}
    /\ cycle' = [cycle EXCEPT !.at = "finish"]
    /\ UNCHANGED <<machine, upsets, physical, control, revision, store, roster, attempt, history>>

FinishCycle ==
    /\ cycle.at = "finish"
    /\ cycle' = Idle
    /\ roster' = [roster EXCEPT !.freshness = "current"]
    /\ UNCHANGED <<machine, upsets, physical, control, revision, store, attempt, history>>

\* A step fails: what was published stays current, anything older is stale,
\* and the daemon fails closed until it is replaced.
FailClosed == /\ healthy' = FALSE /\ armed' = FALSE
              /\ UNCHANGED <<epoch, stopping>>

CycleFails ==
    /\ cycle.at # "idle" /\ Upset("fail")
    /\ FailClosed
    /\ roster' = [roster EXCEPT !.freshness = IF @ = "published" THEN "current" ELSE "stale"]
    /\ cycle' = Idle
    /\ UNCHANGED <<machine, physical, revision, store, attempt, history>>

\* An attempt that does not clear leaves a block; one that fails after a side
\* effect also closes the daemon.
Block(r) == /\ blocks' = {b \in blocks : b.id # Incident(r)}
                         \cup {[id |-> Incident(r), members |-> r.members, since |-> NoTime]}
            /\ held' = held \cup {[id |-> Incident(r), members |-> {}]}

AttemptEnds ==
    /\ attempt # {}
    /\ attempt' = {}
    /\ \A r \in attempt :
          \/ /\ \A m \in r.members : ~ExactMatch(Table, m.pid, m.birth)
             /\ UNCHANGED <<upsets, control, blocks, held>>
          \/ Upset("fails") /\ Block(r) /\ (FailClosed \/ UNCHANGED control)
    /\ UNCHANGED <<machine, physical, revision, cycle, cooling, protected, newest, roster,
                   streak, retried, clients>>

-----------------------------------------------------------------------------
(* The operator *)

Commands == <<machine, physical, control, cycle, roster, attempt>>

\* An accepted command moves the policy revision.  Schema v1 (the CLI) adds one
\* to the number in memory and leaves the durable one alone.  The public schema
\* (the App) advances the durable number and stores it over the one in memory,
\* which need not change it: after a v1 command the two may meet.  Only the
\* public schema refuses a failed daemon.
Commit(client) ==
    /\ client \in machine.clients
    /\ client = "app" => healthy
    /\ clients' = clients \cup {client}
    /\ revision' = IF client = "cli" THEN [revision EXCEPT !.memory = @ + 1]
                   ELSE [memory |-> revision.durable + 1, durable |-> revision.durable + 1]

\* protect_incident: the row is that of the newest observation on record.  The
\* public schema takes an incident that has a row to be protected already.
ProtectIncident(n, client) ==
    /\ n \in newest /\ Upset("protect") /\ Commit(client)
    /\ client = "app" => \A p \in protected : p.id # n.id
    /\ protected' = {p \in protected : p.id # n.id \/ p.members = n.members}
                    \cup (IF \E p \in protected : p.id = n.id /\ p.members = n.members
                          THEN {} ELSE {[id |-> n.id, members |-> n.members, since |-> NoTime]})
    /\ held' = {h \in held : h.id # n.id \/ h.members = {}}
               \cup {[id |-> n.id, members |-> n.members]}
    /\ UNCHANGED <<Commands, cooling, blocks, newest, streak, retried>>

UnprotectIncident(p, client) ==
    /\ p \in protected /\ Upset("protect") /\ Commit(client)
    /\ protected' = {q \in protected : q.id # p.id}
    /\ held' = {h \in held : h.id # p.id \/ h.members = {}}
    /\ UNCHANGED <<Commands, cooling, blocks, newest, streak, retried>>

\* Mutant: the block goes, the rows stay.
RetryKeepsCredit(b, client) ==
    /\ b \in blocks /\ Upset("retry") /\ Commit(client)
    /\ blocks' = blocks \ {b}
    /\ held' = {h \in held : h.id # b.id \/ h.members # {}}
    /\ retried' = {h \in retried : h.id # b.id} \cup {[id |-> b.id, at |-> time]}
    /\ UNCHANGED <<Commands, cooling, protected, newest, streak>>

\* authorize_retry: the block goes, and so does the time that had been earned.
AuthorizeRetry(b, client) ==
    /\ b \in blocks /\ Upset("retry") /\ Commit(client)
    /\ blocks' = blocks \ {b}
    /\ cooling' = {row \in cooling : row.key # b.id.key}
    /\ held' = {h \in held : h.id # b.id \/ h.members # {}}
    /\ retried' = {h \in retried : h.id # b.id} \cup {[id |-> b.id, at |-> time]}
    /\ UNCHANGED <<Commands, protected, newest, streak>>

\* Pause and resume, as far as they show here: they move the revision.
OtherCommand(client) ==
    /\ Upset("other") /\ Commit(client)
    /\ UNCHANGED <<Commands, store, streak, held, retried>>

\* A public request that changes nothing still stores a revision in memory: the
\* durable one when it is refused or needless, that of the first receipt when it
\* is sent again.
PublicNoChange ==
    /\ "app" \in machine.clients /\ Upset("request")
    /\ \E r \in 1 .. revision.durable :
          /\ revision' = [revision EXCEPT !.memory = r]
          /\ clients' = clients \cup {IF r = revision.durable THEN "app" ELSE "resend"}
    /\ UNCHANGED <<Commands, store, streak, held, retried>>

\* The managed lifecycle seen from here: an epoch is never used twice.
Disarm ==
    /\ armed /\ Upset("disarm")
    /\ armed' = FALSE
    /\ UNCHANGED <<machine, physical, epoch, healthy, stopping, revision, cycle, store, roster,
                   attempt, history>>

Arm ==
    /\ ~armed /\ healthy /\ ~stopping /\ attempt = {}
    /\ armed' = TRUE /\ epoch' = epoch + 1
    /\ UNCHANGED <<machine, upsets, physical, healthy, stopping, revision, cycle, store, roster,
                   attempt, history>>

\* A shutdown is asked for; the cycle and the worker wind down.
Stop ==
    /\ ~stopping /\ Upset("restart")
    /\ stopping' = TRUE
    /\ UNCHANGED <<machine, physical, armed, epoch, healthy, revision, cycle, store, roster,
                   attempt, history>>

\* The next process starts with nothing but the store, after an orderly stop, a
\* failure or a crash at any point; an attempt left open is recovered as unknown.
Restart ==
    /\ \/ cycle.at = "idle" /\ (stopping \/ ~healthy) /\ UNCHANGED upsets
       \/ ~stopping /\ Upset("restart")
    /\ armed' = FALSE /\ healthy' = TRUE /\ stopping' = FALSE
    /\ cycle' = Idle /\ roster' = NoRoster /\ attempt' = {}
    /\ IF attempt = {} THEN UNCHANGED <<blocks, held>> ELSE \A r \in attempt : Block(r)
    /\ revision' = [revision EXCEPT !.memory = revision.durable] /\ clients' = {}
    /\ UNCHANGED <<machine, physical, epoch, cooling, protected, newest, streak, retried>>

-----------------------------------------------------------------------------
(* The world *)

Daemon == <<machine, control, revision, cycle, store, roster, attempt, history>>

\* What a scene adds is born as it begins: an identity never comes back.
Born(w) == \A p \in DOMAIN TableOf[w] :
              ExactMatch(Table, p, TableOf[w][p].birth) \/ TableOf[w][p].birth = Wall

SceneChanges ==
    /\ \E w \in machine.scenes : <<scene, w>> \in Moves /\ Born(w) /\ scene' = w
    /\ UNCHANGED <<Daemon, upsets, owner, lease, time, skew>>

OwnerEnds == Owner!Die("agent") /\ UNCHANGED <<Daemon, upsets, scene, time, skew>>

\* The finish handler, told by the wrapper.
OwnerFinishes == /\ lease["agent"] = "active" /\ Owner!Release("agent")
                  /\ UNCHANGED <<Daemon, upsets, scene, time, skew>>

Tick == /\ time < machine.until
        /\ time' = time + 1
        /\ UNCHANGED <<Daemon, upsets, scene, owner, lease, skew>>

ClockJumps == /\ Upset("jump")
              /\ \E j \in Jumps : skew' = skew + j
              /\ UNCHANGED <<Daemon, scene, owner, lease, time>>

Next ==
    \/ BeginCycle \/ FirstLook \/ SecondLook \/ Interrupted \/ SettleRows \/ Publish
    \/ (\E r \in IF cycle.at = "dispatch" THEN cycle.reports ELSE {} : Dispatch(r))
    \/ NoDispatch \/ FinishCycle \/ CycleFails \/ AttemptEnds
    \/ (\E client \in Clients :
          \/ \E n \in newest : ProtectIncident(n, client)
          \/ \E p \in protected : UnprotectIncident(p, client)
          \/ \E b \in blocks : AuthorizeRetry(b, client)
          \/ OtherCommand(client))
    \/ PublicNoChange
    \/ Disarm \/ Arm \/ Stop \/ Restart
    \/ SceneChanges \/ OwnerEnds \/ OwnerFinishes \/ Tick \/ ClockJumps

Spec == Init /\ [][Next]_vars

-----------------------------------------------------------------------------
(* The overview *)

Shows(state) == \E r \in roster.reports : r.state = state

Coherent == healthy /\ roster.freshness = "current" /\ roster.at # NoTime

BrowserOverviewPhase ==
    IF ~Coherent THEN "unknown"
    ELSE IF blocks # {} THEN "attention"
    ELSE IF attempt # {} THEN "reclaiming"
    ELSE IF Shows("confirmed") THEN "confirmed"
    ELSE IF Shows("cooling") THEN "verifying"
    ELSE IF Shows("active") THEN "active"
    ELSE IF Shows("protected") \/ Shows("ambiguous") THEN "protected"
    ELSE IF roster.complete THEN "clear" ELSE "unknown"

-----------------------------------------------------------------------------
(* Properties *)

\* An attempt opens only on processes that every cycle saw abandoned and
\* unchanged for the whole grace of real time, no two looks further apart than
\* the continuity gap, under one enforcement epoch, whatever the wall clock did
\* and whoever gave which commands (track_cooling, reconcile_with_abandonment).
GraceEarned ==
    [][\A r \in attempt' \ attempt :
         \E s \in streak : /\ s.root = r.root /\ s.members = r.members
                           /\ s.epoch = epoch /\ s.last - s.since >= Grace]_vars

\* The commands of this process came from one side, none of them sent twice.
\* Mixed use is the exception that commit_public_mutation makes: its revision
\* may be the one a running cycle captured after a v1 command, and that cycle
\* then goes on as if nothing had been said.
OneClient == clients \subseteq {"app"} \/ clients \subseteq {"cli"}

\* For an owner with one client, an incident that was given a retry is attempted
\* only a whole grace after that: a report confirmed before the retry, in a
\* cycle that is still running, does not count, nor does the time the rows had
\* (authorize_retry, begin_cleanup_attempt_if_armed).
RetryStartsOver ==
    [][\A r \in attempt' \ attempt : \A h \in retried :
         OneClient /\ Incident(r) = h.id => time - h.at >= Grace]_vars

\* What failed and waits for the operator is never attempted until the operator
\* says so, even when a snapshot misses its processes; nor, for an owner with
\* one client, what was protected, even when the command lands between
\* publishing and dispatch.  Under mixed use only that last case is open: the
\* retry blocks are read again when an attempt begins, the protections are not
\* (reconcile_retry_blocks, reconcile_incident_protections,
\* begin_cleanup_attempt_if_armed).
HeldStaysUntouched ==
    [][\A h \in held : \A r \in attempt' \ attempt :
         Incident(r) = h.id => h.members # {} /\ (OneClient => h.members # r.members)]_vars

\* The overview says clear only when the machine really had no automation
\* session when the roster was taken (publish_roster, browser_overview_phase).
ClearIsHonest ==
    BrowserOverviewPhase = "clear" =>
        Candidates(TableIn(roster.really[1], roster.really[2])) = {}

\* A session led by a controller is attempted only when the owner that its
\* lease names is gone, never for a process that took over the controller's
\* pid (bindings frozen by analyzer_for, owned_task_controller).
LedOnlyWithoutOwner ==
    [][\A r \in attempt' \ attempt :
         r.root.pid = Bound.pid => owner["agent"] = "gone" /\ r.root.birth = Bound.birth]_vars

=============================================================================
