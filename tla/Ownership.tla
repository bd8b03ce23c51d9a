----------------------------- MODULE Ownership -----------------------------
(***************************************************************************)
(* Who owns a Playwright session.  `unlinger task run` and `unlinger        *)
(* session run` lease an owner record in the daemon's store, start the     *)
(* command behind a closed pipe, have the daemon record the exact child    *)
(* process as owner, and only then open the pipe.  The engine's cycle      *)
(* releases the leases whose owner is exactly absent, binds the observed   *)
(* controllers to leases, prunes old leases and freezes the bindings the   *)
(* rules judge abandonment by.                                             *)
(*                                                                         *)
(* Wrapper, command, request handler and engine interleave freely; each    *)
(* may die or be cut off between any two steps.  Times are milliseconds,   *)
(* the resolution activated_at and released_at are rounded to.             *)
(***************************************************************************)
EXTENDS Integers, FiniteSets

CONSTANTS Runs,         \* wrapper invocations; a run names its lease too
          Controllers,  \* exact process identities of observed controllers
          LaneMaps,     \* which lane each run uses, if any: a set of functions
          Capacity,     \* rows each registry table admits
          Retention,    \* how long a released lease is kept
          MaxTick       \* bound on the clock, and so on daemon restarts

Lanes == {"task", "session"}

ASSUME OwnershipAssumption ==
    /\ LaneMaps \subseteq [Runs -> Lanes \cup {"unused"}]
    /\ MaxTick \in Nat /\ Retention \in Nat /\ Capacity \in Nat
    /\ "stranger" \notin Runs /\ "ordinary" \notin Runs /\ "none" \notin Runs

NoTime == -1
Times == 0..MaxTick
Ordinary == "ordinary"   \* the one ordinary session name of the instance
Stranger == "stranger"   \* a maker of controllers that holds no lease
Unbound == "none"

VARIABLES lane,       \* lane[r]: never changes
          now,        \* wall clock
          cli,        \* cli[r]: the wrapper's control point
          child,      \* child[r]: its command
          ask,        \* ask[r]: the daemon's handler of r's activation
          kept,       \* kept[r]: r's row in its registry table
          gen,        \* gen[r]: generation of a session row
          activated,  \* activated[r], released[r]: NoTime stands for NULL;
          released,   \*   owner_json is set together with activated_at
          ctl,        \* ctl[k]: controllers
          bound,      \* bound[k]: the lease k's controller row names
          phase,      \* the engine's control point
          todo,       \* scopes the engine has read and not yet judged
          snap,       \* the snapshot the cycle works from
          frozen      \* the bindings frozen into the analyzer's context

registry == <<kept, gen, activated, released, bound>>
clients == <<cli, child, ask>>
engine == <<phase, todo, snap, frozen>>
vars == <<lane, now, clients, registry, ctl, engine>>

NotSeen == [state |-> "unborn", born |-> 0, session |-> Ordinary, maker |-> Stranger]
NoSnap == [seen |-> {}, complete |-> FALSE, at |-> 0, tags |-> {}]
Bindings == [ctl : Controllers, lease : Runs, released : BOOLEAN]

TypeOK ==
    /\ lane \in LaneMaps
    /\ now \in Times
    /\ cli \in [Runs -> {"unborn", "leased", "asking", "granted",
                         "waiting", "gone"}]
    /\ child \in [Runs -> {"unborn", "gated", "running", "gone"}]
    /\ ask \in [Runs -> {"none", "sent", "checked"}]
    /\ kept \in [Runs -> {"never", "yes", "deleted"}]
    /\ gen \in [Runs -> Nat]
    /\ activated \in [Runs -> Times \cup {NoTime}]
    /\ released \in [Runs -> Times \cup {NoTime}]
    /\ ctl \in [Controllers -> [state : {"unborn", "alive", "gone"}, born : Times,
                                session : Runs \cup {Ordinary},
                                maker : Runs \cup {Stranger}]]
    /\ bound \in [Controllers -> Runs \cup {Unbound}]
    /\ phase \in {"idle", "tasks", "sessions", "freeze"}
    /\ todo \subseteq [run : Runs, owned : BOOLEAN]
    /\ snap \in [seen : SUBSET Controllers, complete : BOOLEAN, at : Times, tags : SUBSET Runs]
    /\ frozen \subseteq Bindings

Init ==
    /\ lane \in LaneMaps
    /\ now = 0
    /\ cli = [r \in Runs |-> "unborn"]
    /\ child = [r \in Runs |-> "unborn"]
    /\ ask = [r \in Runs |-> "none"]
    /\ kept = [r \in Runs |-> "never"]
    /\ gen = [r \in Runs |-> 0]
    /\ activated = [r \in Runs |-> NoTime]
    /\ released = [r \in Runs |-> NoTime]
    /\ ctl = [k \in Controllers |-> NotSeen]
    /\ bound = [k \in Controllers |-> Unbound]
    /\ phase = "idle" /\ todo = {} /\ snap = NoSnap /\ frozen = {}

-----------------------------------------------------------------------------
(* Rows and processes *)

Owned(r) == activated[r] # NoTime
Unreleased(r) == kept[r] = "yes" /\ released[r] = NoTime
WrapperAlive(r) == cli[r] \notin {"unborn", "gone"}
ChildAlive(r) == child[r] \in {"gated", "running"}

\* The phase a task's status reports.
TaskPhase(r) ==
    CASE kept[r] = "never"   -> "free"
      [] kept[r] = "deleted" -> "pruned"
      [] kept[r] = "yes" /\ released[r] # NoTime -> "released"
      [] kept[r] = "yes" /\ released[r] = NoTime /\ Owned(r) -> "active"
      [] kept[r] = "yes" /\ released[r] = NoTime /\ ~Owned(r) -> "reserved"

\* The selector a run's session is known by: a task has a name of its own, the
\* session lane shares one ordinary name.
SessionOf(r) == IF lane[r] = "task" THEN r ELSE Ordinary

SameLane(l) == {r \in Runs : lane[r] = l}
Rows(l) == {r \in SameLane(l) : kept[r] = "yes"}

\* Looking a process up can fail, which proves nothing; a pid that was reused
\* answers with another identity, which is absence of this one.
Lookup(alive) == IF alive THEN {"match", "error"} ELSE {"none", "other", "error"}
OwnerIsAbsent(answer) == answer \in {"none", "other"}

-----------------------------------------------------------------------------
(* Reserving and declaring.  A wrapper asks once; when the daemon refuses or
   its answer is lost the wrapper exits. *)

Refused(r) == /\ cli' = [cli EXCEPT ![r] = "gone"]
              /\ UNCHANGED <<child, ask, registry>>

\* Whether the wrapper hears that its lease was made, or exits without knowing.
Answered(r) == cli' \in {[cli EXCEPT ![r] = "leased"], [cli EXCEPT ![r] = "gone"]}

\* reserve_task: a fresh random task id, so no row of it exists yet.
ReserveTaskStore(r) ==
    /\ Cardinality(Rows("task")) < Capacity
    /\ kept' = [kept EXCEPT ![r] = "yes"]
    /\ UNCHANGED <<gen, activated, released, bound>>

TaskReserve(r) ==
    /\ lane[r] = "task" /\ cli[r] = "unborn"
    /\ \/ Refused(r)   \* not ready, draining or full
       \/ ReserveTaskStore(r) /\ Answered(r) /\ UNCHANGED <<child, ask>>
    /\ UNCHANGED <<lane, now, ctl, engine>>

\* declare_session_owner: an unreleased generation of another registrar is
\* never taken over; otherwise the next generation of the rows still kept.
Generations == {gen[q] : q \in Rows("session")}
NextGeneration == 1 + (IF Generations = {} THEN 0
                       ELSE CHOOSE g \in Generations : \A h \in Generations : h <= g)

DeclareSessionStore(r) ==
    /\ ~\E q \in SameLane("session") : Unreleased(q)
    /\ Cardinality(Rows("session")) < Capacity
    /\ kept' = [kept EXCEPT ![r] = "yes"]
    /\ gen' = [gen EXCEPT ![r] = NextGeneration]
    /\ UNCHANGED <<activated, released, bound>>

SessionOwnerDeclare(r) ==
    /\ lane[r] = "session" /\ cli[r] = "unborn"
    /\ \/ Refused(r)
       \/ DeclareSessionStore(r) /\ Answered(r) /\ UNCHANGED <<child, ask>>
    /\ UNCHANGED <<lane, now, ctl, engine>>

-----------------------------------------------------------------------------
(* The command behind the gate *)

\* The wrapper starts its own binary, which blocks on the pipe, and names the
\* child to the daemon.
SpawnGated(r) ==
    /\ cli[r] = "leased"
    /\ cli' = [cli EXCEPT ![r] = "asking"]
    /\ child' = [child EXCEPT ![r] = "gated"]
    /\ ask' = [ask EXCEPT ![r] = "sent"]
    /\ UNCHANGED <<lane, now, registry, ctl, engine>>

\* The answer a waiting wrapper gets; a wrapper that stopped waiting gets none.
\* A wrapper that is refused drops the gate and does nothing but wait for its
\* child, which the model takes as gone.
Hear(r, answer) == cli' = [cli EXCEPT ![r] = IF @ = "asking" THEN answer ELSE @]

\* Only the process that made a lease may name its owner.
AuthorizeTask(r) == lane[r] = "task" /\ kept[r] = "yes" /\ WrapperAlive(r)
AuthorizeSessionOwner(r) == lane[r] = "session" /\ kept[r] = "yes" /\ WrapperAlive(r)

\* The handler resolves the peer, the lease's registrar and the child before
\* it touches the store; all of that can have changed when it does.
CheckOwner(r) ==
    /\ ask[r] = "sent"
    /\ \/ /\ AuthorizeTask(r) \/ AuthorizeSessionOwner(r)
          /\ ChildAlive(r)
          /\ ask' = [ask EXCEPT ![r] = "checked"]
          /\ UNCHANGED cli
       \/ /\ ask' = [ask EXCEPT ![r] = "none"]   \* not ready, unreadable, gone
          /\ Hear(r, "gone")
    /\ UNCHANGED child

\* A released row is refused, an owner is set once, in either table.
ActivateRow(r) ==
    /\ Unreleased(r) /\ ~Owned(r)
    /\ activated' = [activated EXCEPT ![r] = now]
    /\ UNCHANGED <<kept, gen, released, bound>>

ActivateTask(r) == lane[r] = "task" /\ ActivateRow(r)
ActivateSessionOwner(r) == lane[r] = "session" /\ ActivateRow(r)

\* The answer is lost: the wrapper cannot tell and drops the gate.
StoreActivate(r) ==
    /\ ask[r] = "checked"
    /\ ask' = [ask EXCEPT ![r] = "none"]
    /\ \/ /\ ActivateTask(r) \/ ActivateSessionOwner(r)
          /\ \E answer \in {"granted", "gone"} : Hear(r, answer)
       \/ /\ ~(Unreleased(r) /\ ~Owned(r))
          /\ Hear(r, "gone")
          /\ UNCHANGED registry
    /\ UNCHANGED child

TaskActivate(r) ==
    /\ lane[r] = "task"
    /\ \/ CheckOwner(r) /\ UNCHANGED registry
       \/ StoreActivate(r)
    /\ UNCHANGED <<lane, now, ctl, engine>>

SessionOwnerActivate(r) ==
    /\ lane[r] = "session"
    /\ \/ CheckOwner(r) /\ UNCHANGED registry
       \/ StoreActivate(r)
    /\ UNCHANGED <<lane, now, ctl, engine>>

\* The request times out while the handler still works on it.
GiveUp(r) ==
    /\ cli[r] = "asking"
    /\ cli' = [cli EXCEPT ![r] = "gone"]
    /\ UNCHANGED <<lane, now, child, ask, registry, ctl, engine>>

\* One byte through the pipe lets the child exec; a child that is gone makes
\* the write fail and the wrapper exit.
OpenGate(r) ==
    /\ cli[r] = "granted"
    /\ \/ /\ child[r] = "gated"
          /\ child' = [child EXCEPT ![r] = "running"]
          /\ cli' = [cli EXCEPT ![r] = "waiting"]
       \/ /\ child[r] = "gone"
          /\ cli' = [cli EXCEPT ![r] = "gone"]
          /\ UNCHANGED child
    /\ UNCHANGED <<lane, now, ask, registry, ctl, engine>>

\* End of file on the gate: the wrapper dropped it or died.
GateCloses(r) ==
    /\ child[r] = "gated" /\ cli[r] = "gone"
    /\ child' = [child EXCEPT ![r] = "gone"]
    /\ UNCHANGED <<lane, now, cli, ask, registry, ctl, engine>>

ChildExits(r) ==
    /\ ChildAlive(r)
    /\ child' = [child EXCEPT ![r] = "gone"]
    /\ UNCHANGED <<lane, now, cli, ask, registry, ctl, engine>>

\* The wrapper is killed at any point.
WrapperDies(r) ==
    /\ WrapperAlive(r)
    /\ cli' = [cli EXCEPT ![r] = "gone"]
    /\ UNCHANGED <<lane, now, child, ask, registry, ctl, engine>>

-----------------------------------------------------------------------------
(* Releasing.  The row is released only if nobody released it before and its
   owner is still the one the caller judged. *)

ReleaseRowUnguarded(r, seenOwned) ==
    /\ released' = [released EXCEPT ![r] = IF Unreleased(r) THEN now ELSE @]
    /\ UNCHANGED <<kept, gen, activated, bound>>

ReleaseRow(r, seenOwned) ==
    /\ released' = [released EXCEPT ![r] = IF Unreleased(r) /\ Owned(r) = seenOwned
                                           THEN now ELSE @]
    /\ UNCHANGED <<kept, gen, activated, bound>>

ReleaseTask(r, seenOwned) == lane[r] = "task" /\ ReleaseRow(r, seenOwned)
ReleaseSessionOwner(r, seenOwned) == lane[r] = "session" /\ ReleaseRow(r, seenOwned)
Release(r, seenOwned) == ReleaseTask(r, seenOwned) \/ ReleaseSessionOwner(r, seenOwned)

\* The finish handler looks at the owner of the row it read.
FinishHandler(r) ==
    \/ /\ Unreleased(r)
       /\ \E answer \in Lookup(ChildAlive(r)) : Owned(r) => OwnerIsAbsent(answer)
       /\ Release(r, Owned(r))
    \/ UNCHANGED registry   \* released before, conflict, unreadable, lost

\* The wrapper saw its child exit, and exits whatever the daemon answers: the
\* engine checks by itself.
Exits(r) == /\ cli[r] = "waiting" /\ child[r] = "gone"
            /\ cli' = [cli EXCEPT ![r] = "gone"]
            /\ UNCHANGED <<lane, now, child, ask, ctl, engine>>
Finish(r) == lane[r] = "task" /\ Exits(r)
FinishSession(r) == lane[r] = "session" /\ Exits(r)

TaskFinish(r) == Finish(r) /\ FinishHandler(r)
SessionOwnerRelease(r) == FinishSession(r) /\ FinishHandler(r)

-----------------------------------------------------------------------------
(* Controllers: detached processes named after a session *)

Starts(k, session, maker) ==
    /\ ctl[k].state = "unborn"
    /\ ctl' = [ctl EXCEPT ![k] = [state |-> "alive", born |-> now,
                                  session |-> session, maker |-> maker]]
    /\ UNCHANGED <<lane, now, clients, registry, engine>>

\* A leased command opens a browser session under its own name; somebody who
\* holds no lease may use the same name at any time.
ControllerStarts(k) ==
    \/ \E r \in Runs : child[r] = "running" /\ Starts(k, SessionOf(r), r)
    \/ \E r \in Runs : Starts(k, SessionOf(r), Stranger)

ControllerExits(k) ==
    /\ ctl[k].state = "alive"
    /\ ctl' = [ctl EXCEPT ![k].state = "gone"]
    /\ UNCHANGED <<lane, now, clients, registry, engine>>

-----------------------------------------------------------------------------
(* The engine's cycle *)

OwnedScopes(l) == {[run |-> r, owned |-> TRUE] : r \in {q \in SameLane(l) : Unreleased(q) /\ Owned(q)}}
Scopes(l) == {[run |-> r, owned |-> Owned(r)] : r \in {q \in SameLane(l) : Unreleased(q)}}
TaskScopes == Scopes("task")
SessionOwnerScopes == Scopes("session")

Alive == {k \in Controllers : ctl[k].state = "alive"}

\* A snapshot may miss processes it could not inspect, and then says so.  Of
\* the commands that carry a task's name only those of ended leases matter.
Snapshots == {[seen |-> Alive, complete |-> TRUE, at |-> now,
               tags |-> {r \in SameLane("task") : released[r] # NoTime /\ ChildAlive(r)}]}
             \cup [seen : SUBSET Alive, complete : {FALSE}, at : {now}, tags : {{}}]

BeginCycle ==
    /\ phase = "idle"
    /\ snap' \in Snapshots
    /\ todo' = TaskScopes
    /\ phase' = "tasks"
    /\ UNCHANGED <<lane, now, clients, registry, ctl, frozen>>

\* Judge one scope: its owner, or the registrar while it has none.  A failed
\* lookup leaves the lease alone.
ReleaseAbsentOwner(s) ==
    /\ s \in todo
    /\ todo' = todo \ {s}
    /\ \E answer \in Lookup(IF s.owned THEN ChildAlive(s.run) ELSE WrapperAlive(s.run)) :
          IF OwnerIsAbsent(answer) THEN Release(s.run, s.owned)
                                   ELSE UNCHANGED registry
    /\ UNCHANGED <<lane, now, clients, ctl, phase, snap, frozen>>

ReleaseAbsentTaskOwners(s) == phase = "tasks" /\ ReleaseAbsentOwner(s)
ReleaseAbsentSessionOwners(s) == phase = "sessions" /\ ReleaseAbsentOwner(s)

\* A controller belongs to a lease of its session whose window it was born in.
BornInWindow(k, r) ==
    /\ Owned(r)
    /\ ctl[k].born >= activated[r]
    /\ released[r] # NoTime => ctl[k].born <= released[r]

\* A lease leaves the registry when it was released before the retention and
\* a complete snapshot shows nothing of it; its controller rows go with it.
Expired(l) == {r \in Rows(l) : /\ snap.complete
                               /\ released[r] # NoTime
                               /\ released[r] < snap.at - Retention}

\* An identity is bound once, to the lease of the pair that admits it.
BindAndPrune(pairs, pruned) ==
    LET Bound(k) == IF bound[k] = Unbound /\ \E r \in Runs : <<k, r>> \in pairs
                    THEN CHOOSE r \in Runs : <<k, r>> \in pairs
                    ELSE bound[k]
    IN /\ kept' = [r \in Runs |-> IF r \in pruned THEN "deleted" ELSE kept[r]]
       /\ bound' = [k \in Controllers |-> IF Bound(k) \in pruned THEN Unbound ELSE Bound(k)]
       /\ gen' = [r \in Runs |-> IF r \in pruned THEN 0 ELSE gen[r]]
       /\ activated' = [r \in Runs |-> IF r \in pruned THEN NoTime ELSE activated[r]]
       /\ released' = [r \in Runs |-> IF r \in pruned THEN NoTime ELSE released[r]]

AdmittedByTask == {p \in snap.seen \X Rows("task") :
                      ctl[p[1]].session = p[2] /\ BornInWindow(p[1], p[2])}

PrunedTasks == {r \in Expired("task") : /\ r \notin snap.tags
                                        /\ \A k \in snap.seen : ctl[k].session # r}

BindTaskControllers ==
    /\ phase = "tasks" /\ todo = {}
    /\ BindAndPrune(AdmittedByTask, PrunedTasks)
    /\ phase' = "sessions"
    /\ todo' = SessionOwnerScopes
    /\ UNCHANGED <<lane, now, clients, ctl, snap, frozen>>

\* Only the newest generation of a session may bind and supply evidence.
AnyGeneration == Rows("session")
CurrentSession == {r \in Rows("session") : \A q \in Rows("session") : gen[q] <= gen[r]}

AdmittedBySession == {p \in snap.seen \X CurrentSession :
                         ctl[p[1]].session = Ordinary /\ BornInWindow(p[1], p[2])}

PrunedSessions == {r \in Expired("session") : \A k \in snap.seen : ctl[k].session # Ordinary}

BindSessionControllers ==
    /\ phase = "sessions" /\ todo = {}
    /\ BindAndPrune(AdmittedBySession, PrunedSessions)
    /\ phase' = "freeze"
    /\ snap' = NoSnap
    /\ UNCHANGED <<lane, now, clients, ctl, todo, frozen>>

\* analyzer_for: the evidence every later judgement of this cycle rests on.
TaskBindings == {k \in Controllers : bound[k] \in SameLane("task")}
SessionBindings == {k \in Controllers : bound[k] \in CurrentSession}
Freeze ==
    /\ phase = "freeze"
    /\ frozen' = {[ctl |-> k, lease |-> bound[k], released |-> released[bound[k]] # NoTime] :
                     k \in TaskBindings \cup SessionBindings}
    /\ phase' = "idle"
    /\ UNCHANGED <<lane, now, clients, registry, ctl, todo, snap>>

-----------------------------------------------------------------------------
Tick == /\ now < MaxTick
        /\ now' = now + 1
        /\ UNCHANGED <<lane, clients, registry, ctl, engine>>

\* The daemon dies and starts again, which takes time: the rows stay, its
\* handlers and its cycle do not.
DaemonRestarts ==
    /\ now < MaxTick
    /\ now' = now + 1
    /\ ask' = [r \in Runs |-> "none"]
    /\ cli' = [r \in Runs |-> IF cli[r] = "asking" THEN "gone" ELSE cli[r]]
    /\ phase' = "idle" /\ todo' = {} /\ snap' = NoSnap /\ frozen' = {}
    /\ UNCHANGED <<lane, child, registry, ctl>>

RunStep(r) ==
    \/ TaskReserve(r) \/ SessionOwnerDeclare(r) \/ SpawnGated(r)
    \/ TaskActivate(r) \/ SessionOwnerActivate(r) \/ GiveUp(r) \/ OpenGate(r)
    \/ GateCloses(r) \/ ChildExits(r) \/ WrapperDies(r)
    \/ TaskFinish(r) \/ SessionOwnerRelease(r)

Judge == \E s \in todo : ReleaseAbsentTaskOwners(s) \/ ReleaseAbsentSessionOwners(s)
EngineStep == \/ BeginCycle \/ Judge \/ BindTaskControllers
              \/ BindSessionControllers \/ Freeze

Next == \/ \E r \in Runs : RunStep(r)
        \/ \E k \in Controllers : ControllerStarts(k) \/ ControllerExits(k)
        \/ EngineStep
        \/ Tick
        \/ DaemonRestarts

Spec == Init /\ [][Next]_vars

\* The main loop keeps cycling, lookups of absent owners do not fail for ever,
\* and a handler that runs finishes.
Absent(s) == ReleaseAbsentOwner(s) /\ released'[s.run] # NoTime
HandlerStep == \E r \in Runs : TaskActivate(r) \/ SessionOwnerActivate(r)
Fairness == /\ WF_vars(EngineStep)
            /\ SF_vars(\E s \in todo : Absent(s))
            /\ WF_vars(HandlerStep)

FairSpec == Spec /\ Fairness

-----------------------------------------------------------------------------
(* Properties *)

\* The registry of either lane, driven by the interleaved wrapper, command,
\* handlers and engine (cli/task.rs, ipc.rs, tasks.rs, session_owners.rs),
\* implements the owner lease: no command runs without an active lease that
\* names it, and a lease ends only when its command is gone, even when the
\* engine judged it by a row it read before the activation.
Lease == INSTANCE OwnerLease WITH owner <- child, lease <- [r \in Runs |-> TaskPhase(r)]
LeaseRefinement == Lease!Spec

\* A released binding in the analyzer's context (what the rules take as proof
\* of abandonment) never concerns a controller whose own command still runs,
\* across generations, pruning, pid reuse and the staleness of the context.
ReleasedEvidenceIsSound ==
    \A b \in frozen : b.released =>
        /\ ~ChildAlive(b.lease)
        /\ ctl[b.ctl].maker \in Runs => ~ChildAlive(ctl[b.ctl].maker)

\* A lease whose owner is gone, or that was reserved by a wrapper that is gone
\* before naming an owner, is released in the end, with no word from the
\* wrapper: the engine checks owner exit independently (cli/task.rs finish).
\* Such a lease stays orphaned until it is released, so it is enough that again
\* and again there is none.
Orphaned(r) == Unreleased(r) /\ ~WrapperAlive(r) /\ ~ChildAlive(r)
OrphanedLeaseEnds == []<>(\A r \in Runs : ~Orphaned(r))

=============================================================================
