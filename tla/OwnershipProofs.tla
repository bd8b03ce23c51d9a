-------------------------- MODULE OwnershipProofs --------------------------
(***************************************************************************)
(* Ownership implements OwnerLease, for any runs, controllers, lanes,      *)
(* capacity, retention and clock.                                          *)
(*                                                                         *)
(* The mapping alone is not inductive: that a grant finds a command, that  *)
(* the gate opens under an active lease and that a judged owner is really  *)
(* gone rest on how far the wrapper, the command, the handler and the row  *)
(* of one run can be apart.  LeaseInv says how far.                        *)
(*                                                                         *)
(* On top of it EvidenceInv shows that the evidence a cycle freezes is     *)
(* sound.  Its heart is NewestLeads: a generation that is not released is  *)
(* the newest one, so while a released generation counts as evidence no    *)
(* command of that session runs.                                           *)
(***************************************************************************)
EXTENDS Ownership, WellFoundedInduction, TLAPS

LeaseTypes ==
    /\ now \in Nat
    /\ cli \in [Runs -> {"unborn", "leased", "asking", "granted", "waiting", "gone"}]
    /\ child \in [Runs -> {"unborn", "gated", "running", "gone"}]
    /\ ask \in [Runs -> {"none", "sent", "checked"}]
    /\ kept \in [Runs -> {"never", "yes", "deleted"}]
    /\ activated \in [Runs -> Int]
    /\ released \in [Runs -> Int]
    /\ todo \subseteq [run : Runs, owned : BOOLEAN]

\* A wrapper asks for its row first.
RowFollowsWrapper(r) ==
    /\ cli[r] = "unborn" => kept[r] = "never"
    /\ kept[r] = "never" => /\ cli[r] \in {"unborn", "gone"}
                            /\ activated[r] = NoTime
                            /\ released[r] = NoTime

\* Nobody names a command before it is born.
CommandFollowsLease(r) ==
    /\ child[r] = "unborn" => /\ cli[r] \in {"unborn", "leased", "gone"}
                              /\ ask[r] = "none"
                              /\ activated[r] = NoTime
    /\ cli[r] \in {"unborn", "leased"} => child[r] = "unborn"

\* While the command of a granted wrapper waits, its lease stands.
GrantStands(r) ==
    cli[r] = "granted" /\ child[r] # "gone" => Unreleased(r) /\ Owned(r)

LeaseInv == /\ LeaseTypes
            /\ \A r \in Runs : /\ RowFollowsWrapper(r)
                               /\ CommandFollowsLease(r)
                               /\ GrantStands(r)

-----------------------------------------------------------------------------
(* The invariant *)

\* The registry is empty and nothing runs.
LEMMA InitLease == Init => LeaseInv
BY DEF Init, LeaseInv, LeaseTypes, RowFollowsWrapper, CommandFollowsLease, GrantStands, NoTime

\* Only the wrapper, the command or the handler of one run moves, and its row
\* stays as it is.
LEMMA ClientKeepsLease ==
    ASSUME LeaseInv, NEW r \in Runs,
           \/ SpawnGated(r) \/ GiveUp(r) \/ OpenGate(r) \/ GateCloses(r)
           \/ ChildExits(r) \/ WrapperDies(r)
    PROVE  LeaseInv'
<1> USE DEF LeaseInv, registry, engine
<1>1. LeaseTypes'
  BY DEF LeaseTypes, SpawnGated, GiveUp, OpenGate, GateCloses, ChildExits, WrapperDies
<1>2. ASSUME NEW q \in Runs PROVE RowFollowsWrapper(q)'
  BY DEF LeaseTypes, RowFollowsWrapper, SpawnGated, GiveUp, OpenGate, GateCloses,
         ChildExits, WrapperDies, WrapperAlive
<1>3. ASSUME NEW q \in Runs PROVE CommandFollowsLease(q)'
  BY DEF LeaseTypes, CommandFollowsLease, SpawnGated, GiveUp, OpenGate, GateCloses,
         ChildExits, WrapperDies, ChildAlive, WrapperAlive
<1>4. ASSUME NEW q \in Runs PROVE GrantStands(q)'
  BY DEF LeaseTypes, GrantStands, Unreleased, Owned, CommandFollowsLease, SpawnGated, GiveUp,
         OpenGate, GateCloses, ChildExits, WrapperDies, ChildAlive, WrapperAlive
<1> QED
  BY <1>1, <1>2, <1>3, <1>4

\* A row is made for a wrapper that has none, or the wrapper gives up.
LEMMA ReserveKeepsLease ==
    ASSUME LeaseInv, NEW r \in Runs, TaskReserve(r) \/ SessionOwnerDeclare(r)
    PROVE  LeaseInv'
<1> USE DEF LeaseInv, registry, engine
<1>0. /\ cli[r] = "unborn"
      /\ cli' = [cli EXCEPT ![r] = "leased"] \/ cli' = [cli EXCEPT ![r] = "gone"]
      /\ \/ kept' = kept /\ cli' = [cli EXCEPT ![r] = "gone"]
         \/ kept' = [kept EXCEPT ![r] = "yes"]
      /\ UNCHANGED <<now, child, ask, activated, released, todo>>
  BY DEF TaskReserve, SessionOwnerDeclare, Refused, ReserveTaskStore, DeclareSessionStore, Answered
<1>1. LeaseTypes'
  BY <1>0 DEF LeaseTypes
<1>2. ASSUME NEW q \in Runs PROVE RowFollowsWrapper(q)'
  BY <1>0 DEF LeaseTypes, RowFollowsWrapper
<1>3. ASSUME NEW q \in Runs PROVE CommandFollowsLease(q)'
  BY <1>0 DEF LeaseTypes, CommandFollowsLease
<1>4. ASSUME NEW q \in Runs PROVE GrantStands(q)'
  BY <1>0 DEF LeaseTypes, GrantStands, Unreleased, Owned
<1> QED
  BY <1>1, <1>2, <1>3, <1>4

\* The handler answers a waiting wrapper, and names the command in an
\* unreleased row at most once.
LEMMA ActivateKeepsLease ==
    ASSUME LeaseInv, NEW r \in Runs, TaskActivate(r) \/ SessionOwnerActivate(r)
    PROVE  LeaseInv'
<1> USE DEF LeaseInv, registry, engine
<1>1. CASE CheckOwner(r) /\ UNCHANGED <<registry, now, todo>>
  <2>0. /\ ask[r] = "sent"
        /\ ask' = [ask EXCEPT ![r] = "checked"] \/ ask' = [ask EXCEPT ![r] = "none"]
        /\ \/ cli' = cli
           \/ cli' = [cli EXCEPT ![r] = IF @ = "asking" THEN "gone" ELSE @]
        /\ UNCHANGED <<now, child, kept, activated, released, todo>>
    BY <1>1 DEF CheckOwner, Hear
  <2>1. LeaseTypes'
    BY <2>0 DEF LeaseTypes
  <2>2. ASSUME NEW q \in Runs PROVE RowFollowsWrapper(q)'
    BY <2>0 DEF LeaseTypes, RowFollowsWrapper
  <2>3. ASSUME NEW q \in Runs PROVE CommandFollowsLease(q)'
    BY <2>0 DEF LeaseTypes, CommandFollowsLease
  <2>4. ASSUME NEW q \in Runs PROVE GrantStands(q)'
    BY <2>0 DEF LeaseTypes, GrantStands, Unreleased, Owned
  <2> QED
    BY <2>1, <2>2, <2>3, <2>4
<1>2. CASE StoreActivate(r) /\ UNCHANGED <<now, todo>>
  <2>0. /\ ask[r] = "checked"
        /\ ask' = [ask EXCEPT ![r] = "none"]
        /\ \/ /\ kept[r] = "yes" /\ released[r] = NoTime /\ activated[r] = NoTime
              /\ activated' = [activated EXCEPT ![r] = now]
              /\ \E a \in {"granted", "gone"} :
                    cli' = [cli EXCEPT ![r] = IF @ = "asking" THEN a ELSE @]
           \/ /\ activated' = activated
              /\ cli' = [cli EXCEPT ![r] = IF @ = "asking" THEN "gone" ELSE @]
        /\ UNCHANGED <<now, child, kept, released, todo>>
    BY <1>2 DEF StoreActivate, ActivateTask, ActivateSessionOwner, ActivateRow, Hear,
                Unreleased, Owned
  <2>1. LeaseTypes'
    BY <2>0 DEF LeaseTypes
  <2>2. ASSUME NEW q \in Runs PROVE RowFollowsWrapper(q)'
    BY <2>0 DEF LeaseTypes, RowFollowsWrapper
  <2>3. ASSUME NEW q \in Runs PROVE CommandFollowsLease(q)'
    BY <2>0 DEF LeaseTypes, CommandFollowsLease
  <2>4. ASSUME NEW q \in Runs PROVE GrantStands(q)'
    BY <2>0 DEF LeaseTypes, GrantStands, Unreleased, Owned, NoTime
  <2> QED
    BY <2>1, <2>2, <2>3, <2>4
<1> QED
  BY <1>1, <1>2 DEF TaskActivate, SessionOwnerActivate

\* What releasing a judged scope does: nothing, or it ends one lease, whose
\* owner is still the one that was judged.
ReleasesOne(r) ==
    /\ Unreleased(r)
    /\ Owned(r) => ~ChildAlive(r)
    /\ released' = [released EXCEPT ![r] = now]
    /\ UNCHANGED <<kept, activated>>

\* The engine judges the owner that the row named when it read it.
LEMMA JudgeFacts ==
    ASSUME LeaseInv, NEW s \in todo, ReleaseAbsentOwner(s)
    PROVE  /\ UNCHANGED <<now, cli, child, ask>>
           /\ todo' \subseteq todo
           /\ ReleasesOne(s.run) \/ UNCHANGED <<kept, activated, released>>
<1>1. s \in [run : Runs, owned : BOOLEAN]
  BY DEF LeaseInv, LeaseTypes
<1>2. PICK answer \in Lookup(IF s.owned THEN ChildAlive(s.run) ELSE WrapperAlive(s.run)) :
          IF OwnerIsAbsent(answer) THEN Release(s.run, s.owned) ELSE UNCHANGED registry
  BY DEF ReleaseAbsentOwner
<1>3. CASE ~OwnerIsAbsent(answer)
  BY <1>2, <1>3 DEF ReleaseAbsentOwner, clients, registry
<1>4. CASE OwnerIsAbsent(answer)
  <2>1. s.owned => ~ChildAlive(s.run)
    BY <1>1, <1>2, <1>4 DEF Lookup, OwnerIsAbsent
  <2>2. ReleaseRow(s.run, s.owned)
    BY <1>2, <1>4 DEF Release, ReleaseTask, ReleaseSessionOwner
  <2>3. ReleasesOne(s.run) \/ released' = released
    BY <1>1, <2>1, <2>2 DEF ReleaseRow, ReleasesOne, LeaseInv, LeaseTypes
  <2> QED
    BY <2>2, <2>3 DEF ReleaseRow, ReleaseAbsentOwner, clients
<1> QED
  BY <1>3, <1>4

\* The wrapper that saw its command exit releases the same way.
LEMMA FinishFacts ==
    ASSUME LeaseInv, NEW r \in Runs, TaskFinish(r) \/ SessionOwnerRelease(r)
    PROVE  /\ cli[r] = "waiting" /\ child[r] = "gone"
           /\ cli' = [cli EXCEPT ![r] = "gone"]
           /\ UNCHANGED <<now, child, ask, todo>>
           /\ ReleasesOne(r) \/ UNCHANGED <<kept, activated, released>>
<1>1. /\ Exits(r) /\ FinishHandler(r)
  BY DEF TaskFinish, SessionOwnerRelease, Finish, FinishSession
<1>2. UNCHANGED registry \/ (ReleaseRow(r, Owned(r)) /\ Unreleased(r))
  BY <1>1 DEF FinishHandler, Release, ReleaseTask, ReleaseSessionOwner
<1>3. ReleasesOne(r) \/ UNCHANGED <<kept, activated, released>>
  BY <1>1, <1>2 DEF Exits, registry, ReleaseRow, ReleasesOne, ChildAlive
<1> QED
  BY <1>1, <1>3 DEF Exits, engine

\* Releasing a row keeps the invariant: no granted wrapper loses a living command.
LEMMA ReleaseKeepsLease ==
    ASSUME LeaseInv, NEW r \in Runs,
           ReleasesOne(r) \/ UNCHANGED <<kept, activated, released>>,
           \/ cli' = cli
           \/ cli[r] = "waiting" /\ child[r] = "gone" /\ cli' = [cli EXCEPT ![r] = "gone"],
           UNCHANGED <<now, child, ask>>, todo' \subseteq todo
    PROVE  LeaseInv'
<1> USE DEF LeaseInv
<1>1. LeaseTypes'
  BY DEF LeaseTypes, ReleasesOne
<1>2. ASSUME NEW q \in Runs PROVE RowFollowsWrapper(q)'
  BY DEF LeaseTypes, RowFollowsWrapper, ReleasesOne, Unreleased
<1>3. ASSUME NEW q \in Runs PROVE CommandFollowsLease(q)'
  BY DEF LeaseTypes, CommandFollowsLease, ReleasesOne
<1>4. ASSUME NEW q \in Runs PROVE GrantStands(q)'
  BY DEF LeaseTypes, CommandFollowsLease, GrantStands, ReleasesOne, Unreleased, Owned,
         ChildAlive
<1> QED
  BY <1>1, <1>2, <1>3, <1>4

\* The engine reads scopes of runs.
LEMMA ScopesType == ASSUME NEW l PROVE Scopes(l) \subseteq [run : Runs, owned : BOOLEAN]
<1> SUFFICES ASSUME NEW s \in Scopes(l) PROVE s \in [run : Runs, owned : BOOLEAN]
  OBVIOUS
<1>1. PICK r \in Runs : s = [run |-> r, owned |-> Owned(r)]
  BY DEF Scopes, SameLane
<1>2. Owned(r) \in BOOLEAN
  BY DEF Owned
<1> QED
  BY <1>1, <1>2

\* A sweep drops only rows that were released.
LEMMA PruneFacts ==
    ASSUME BindTaskControllers \/ BindSessionControllers
    PROVE  \E R \in SUBSET Runs :
              /\ \A r \in R : kept[r] = "yes" /\ released[r] # NoTime
              /\ kept' = [r \in Runs |-> IF r \in R THEN "deleted" ELSE kept[r]]
              /\ activated' = [r \in Runs |-> IF r \in R THEN NoTime ELSE activated[r]]
              /\ released' = [r \in Runs |-> IF r \in R THEN NoTime ELSE released[r]]
              /\ UNCHANGED <<now, cli, child, ask>>
              /\ todo' \subseteq [run : Runs, owned : BOOLEAN] \/ todo' = todo
<1>1. CASE BindTaskControllers
  <2>1. PrunedTasks \in SUBSET Runs /\ \A r \in PrunedTasks : kept[r] = "yes" /\ released[r] # NoTime
    BY DEF PrunedTasks, Expired, Rows, SameLane
  <2>2. todo' \subseteq [run : Runs, owned : BOOLEAN]
    BY <1>1, ScopesType DEF BindTaskControllers, SessionOwnerScopes
  <2> QED
    BY <1>1, <2>1, <2>2 DEF BindTaskControllers, BindAndPrune, clients
<1>2. CASE BindSessionControllers
  <2>1. /\ PrunedSessions \in SUBSET Runs
        /\ \A r \in PrunedSessions : kept[r] = "yes" /\ released[r] # NoTime
    BY DEF PrunedSessions, Expired, Rows, SameLane
  <2> QED
    BY <1>2, <2>1 DEF BindSessionControllers, BindAndPrune, clients
<1> QED
  BY <1>1, <1>2

\* So a sweep keeps the invariant.
LEMMA PruneKeepsLease ==
    ASSUME LeaseInv, BindTaskControllers \/ BindSessionControllers
    PROVE  LeaseInv'
<1> USE DEF LeaseInv
<1>0. PICK R \in SUBSET Runs :
         /\ \A r \in R : kept[r] = "yes" /\ released[r] # NoTime
         /\ kept' = [r \in Runs |-> IF r \in R THEN "deleted" ELSE kept[r]]
         /\ activated' = [r \in Runs |-> IF r \in R THEN NoTime ELSE activated[r]]
         /\ released' = [r \in Runs |-> IF r \in R THEN NoTime ELSE released[r]]
         /\ UNCHANGED <<now, cli, child, ask>>
         /\ todo' \subseteq [run : Runs, owned : BOOLEAN] \/ todo' = todo
  BY PruneFacts
<1>1. LeaseTypes'
  BY <1>0 DEF LeaseTypes, NoTime
<1>2. ASSUME NEW q \in Runs PROVE RowFollowsWrapper(q)'
  BY <1>0 DEF LeaseTypes, RowFollowsWrapper
<1>3. ASSUME NEW q \in Runs PROVE CommandFollowsLease(q)'
  BY <1>0 DEF LeaseTypes, CommandFollowsLease
<1>4. ASSUME NEW q \in Runs PROVE GrantStands(q)'
  BY <1>0 DEF LeaseTypes, GrantStands, Unreleased, Owned
<1> QED
  BY <1>1, <1>2, <1>3, <1>4

\* The rest of the world, the engine's reads and a restart leave every row and
\* every command alone.
Elsewhere ==
    \/ \E k \in Controllers : ControllerStarts(k) \/ ControllerExits(k)
    \/ BeginCycle \/ Freeze \/ Tick \/ DaemonRestarts
    \/ UNCHANGED vars

\* At most the clock, the scopes and the handlers move.
LEMMA ElsewhereFacts ==
    ASSUME LeaseInv, Elsewhere
    PROVE  /\ UNCHANGED <<child, kept, activated, released>>
           /\ now' \in Nat
           /\ todo' \subseteq [run : Runs, owned : BOOLEAN]
           /\ \/ cli' = cli /\ ask' = ask
              \/ /\ ask' = [r \in Runs |-> "none"]
                 /\ cli' = [r \in Runs |-> IF cli[r] = "asking" THEN "gone" ELSE cli[r]]
<1> USE DEF clients, registry, engine, LeaseInv, LeaseTypes
<1>1. CASE \E k \in Controllers : ControllerStarts(k) \/ ControllerExits(k)
  BY <1>1 DEF ControllerStarts, ControllerExits, Starts
<1>2. CASE BeginCycle
  <2>1. todo' \subseteq [run : Runs, owned : BOOLEAN]
    BY <1>2, ScopesType DEF BeginCycle, TaskScopes
  <2> QED
    BY <1>2, <2>1 DEF BeginCycle
<1>3. CASE Freeze
  BY <1>3 DEF Freeze
<1>4. CASE Tick
  BY <1>4 DEF Tick
<1>5. CASE DaemonRestarts
  BY <1>5 DEF DaemonRestarts
<1>6. CASE UNCHANGED vars
  BY <1>6 DEF vars
<1> QED
  BY <1>1, <1>2, <1>3, <1>4, <1>5, <1>6 DEF Elsewhere

\* So the rest keeps the invariant.
LEMMA ElsewhereKeepsLease == ASSUME LeaseInv, Elsewhere PROVE LeaseInv'
<1> USE ElsewhereFacts DEF LeaseInv
<1>1. LeaseTypes'
  BY DEF LeaseTypes
<1>2. ASSUME NEW q \in Runs PROVE RowFollowsWrapper(q)'
  BY DEF LeaseTypes, RowFollowsWrapper
<1>3. ASSUME NEW q \in Runs PROVE CommandFollowsLease(q)'
  BY DEF LeaseTypes, CommandFollowsLease
<1>4. ASSUME NEW q \in Runs PROVE GrantStands(q)'
  BY DEF LeaseTypes, GrantStands, Unreleased, Owned
<1> QED
  BY <1>1, <1>2, <1>3, <1>4

\* Every step keeps the invariant.
LEMMA StepKeepsLease == LeaseInv /\ [Next]_vars => LeaseInv'
<1> SUFFICES ASSUME LeaseInv, [Next]_vars PROVE LeaseInv'
  OBVIOUS
<1>1. ASSUME NEW r \in Runs, RunStep(r) PROVE LeaseInv'
  <2>1. CASE TaskReserve(r) \/ SessionOwnerDeclare(r)
    BY <2>1, ReserveKeepsLease
  <2>2. CASE TaskActivate(r) \/ SessionOwnerActivate(r)
    BY <2>2, ActivateKeepsLease
  <2>3. CASE TaskFinish(r) \/ SessionOwnerRelease(r)
    BY <2>3, FinishFacts, ReleaseKeepsLease
  <2>4. CASE \/ SpawnGated(r) \/ GiveUp(r) \/ OpenGate(r) \/ GateCloses(r)
             \/ ChildExits(r) \/ WrapperDies(r)
    BY <2>4, ClientKeepsLease
  <2> QED
    BY <1>1, <2>1, <2>2, <2>3, <2>4 DEF RunStep
<1>2. ASSUME NEW s \in todo, ReleaseAbsentOwner(s) PROVE LeaseInv'
  <2>1. s.run \in Runs
    BY DEF LeaseInv, LeaseTypes
  <2> QED
    BY <1>2, <2>1, JudgeFacts, ReleaseKeepsLease
<1>3. CASE BindTaskControllers \/ BindSessionControllers
  BY <1>3, PruneKeepsLease
<1>4. CASE Elsewhere
  BY <1>4, ElsewhereKeepsLease
<1> QED
  BY <1>1, <1>2, <1>3, <1>4
     DEF Next, EngineStep, Judge, ReleaseAbsentTaskOwners, ReleaseAbsentSessionOwners, Elsewhere

\* The invariant holds in every state.
THEOREM LeaseInvariant == Spec => []LeaseInv
<1>1. Init => LeaseInv
  BY InitLease
<1>2. LeaseInv /\ [Next]_vars => LeaseInv'
  BY StepKeepsLease
<1> QED
  BY <1>1, <1>2, PTL DEF Spec

-----------------------------------------------------------------------------
(* The refinement *)

\* The mapped lease moves for one run only, or not at all.
LEMMA PhaseMoves ==
    ASSUME LeaseInv, NEW r \in Runs,
           \A q \in Runs \ {r} : TaskPhase(q)' = TaskPhase(q)
    PROVE  [q \in Runs |-> TaskPhase(q)]' =
              [[q \in Runs |-> TaskPhase(q)] EXCEPT ![r] = TaskPhase(r)']
OBVIOUS

\* Rows that stay as they are map to the same lease.
LEMMA PhaseStays ==
    ASSUME UNCHANGED <<kept, activated, released>>
    PROVE  UNCHANGED [q \in Runs |-> TaskPhase(q)]
BY DEF TaskPhase, Owned

\* The initial registry maps to free leases.
LEMMA InitRefines == Init => Lease!Init
BY DEF Init, Lease!Init, TaskPhase

\* Making a row is Reserve.
LEMMA ReserveRefines ==
    ASSUME LeaseInv, NEW r \in Runs, TaskReserve(r) \/ SessionOwnerDeclare(r)
    PROVE  [Lease!Next]_(Lease!vars)
<1>1. /\ cli[r] = "unborn"
      /\ kept' = kept \/ kept' = [kept EXCEPT ![r] = "yes"]
      /\ UNCHANGED <<child, activated, released>>
  BY DEF TaskReserve, SessionOwnerDeclare, Refused, ReserveTaskStore, DeclareSessionStore, registry
<1>2. CASE kept' = kept
  BY <1>1, <1>2, PhaseStays DEF Lease!vars
<1>3. CASE kept' = [kept EXCEPT ![r] = "yes"]
  <2>1. kept[r] = "never" /\ activated[r] = NoTime /\ released[r] = NoTime
    BY <1>1 DEF LeaseInv, RowFollowsWrapper
  <2>2. TaskPhase(r) = "free" /\ TaskPhase(r)' = "reserved"
    BY <1>1, <1>3, <2>1 DEF TaskPhase, Owned, LeaseInv, LeaseTypes
  <2>3. \A q \in Runs \ {r} : TaskPhase(q)' = TaskPhase(q)
    BY <1>1, <1>3 DEF TaskPhase, Owned, LeaseInv, LeaseTypes
  <2>4. Lease!Reserve(r)
    BY <1>1, <2>2, <2>3, PhaseMoves DEF Lease!Reserve
  <2> QED
    BY <2>4 DEF Lease!Next
<1> QED
  BY <1>1, <1>2, <1>3

\* Naming the command in its row is Grant; a refusal changes nothing.
LEMMA ActivateRefines ==
    ASSUME LeaseInv, NEW r \in Runs, TaskActivate(r) \/ SessionOwnerActivate(r)
    PROVE  [Lease!Next]_(Lease!vars)
<1>1. CASE CheckOwner(r) /\ UNCHANGED registry
  BY <1>1, PhaseStays DEF CheckOwner, registry, Lease!vars
<1>2. CASE StoreActivate(r)
  <2>1. /\ ask[r] = "checked" /\ child' = child
        /\ ActivateRow(r) \/ UNCHANGED registry
    BY <1>2 DEF StoreActivate, ActivateTask, ActivateSessionOwner
  <2>2. CASE UNCHANGED registry
    BY <2>1, <2>2, PhaseStays DEF registry, Lease!vars
  <2>3. CASE ActivateRow(r)
    <3>1. child[r] # "unborn"
      BY <2>1 DEF LeaseInv, CommandFollowsLease
    <3>2. TaskPhase(r) = "reserved" /\ TaskPhase(r)' = "active"
      BY <2>3 DEF ActivateRow, Unreleased, Owned, TaskPhase, NoTime, LeaseInv, LeaseTypes
    <3>3. \A q \in Runs \ {r} : TaskPhase(q)' = TaskPhase(q)
      BY <2>3 DEF ActivateRow, TaskPhase, Owned, LeaseInv, LeaseTypes
    <3>4. Lease!Grant(r)
      BY <2>1, <3>1, <3>2, <3>3, PhaseMoves DEF Lease!Grant
    <3> QED
      BY <3>4 DEF Lease!Next
  <2> QED
    BY <2>1, <2>2, <2>3
<1> QED
  BY <1>1, <1>2 DEF TaskActivate, SessionOwnerActivate

\* Starting the gated command is Birth, opening the gate Run, its end Die; the
\* wrapper's own steps change nothing.
LEMMA ClientRefines ==
    ASSUME LeaseInv, NEW r \in Runs,
           \/ SpawnGated(r) \/ GiveUp(r) \/ OpenGate(r) \/ GateCloses(r)
           \/ ChildExits(r) \/ WrapperDies(r)
    PROVE  [Lease!Next]_(Lease!vars)
<1>0. UNCHANGED [q \in Runs |-> TaskPhase(q)]
  BY PhaseStays DEF SpawnGated, GiveUp, OpenGate, GateCloses, ChildExits, WrapperDies, registry
<1>1. CASE SpawnGated(r)
  <2>1. child[r] = "unborn" /\ kept[r] # "never"
    BY <1>1 DEF SpawnGated, LeaseInv, CommandFollowsLease, RowFollowsWrapper
  <2>2. TaskPhase(r) # "free"
    BY <2>1 DEF TaskPhase, LeaseInv, LeaseTypes
  <2>3. Lease!Birth(r)
    BY <1>0, <1>1, <2>1, <2>2 DEF SpawnGated, Lease!Birth
  <2> QED
    BY <2>3 DEF Lease!Next
<1>2. CASE OpenGate(r)
  <2>1. CASE child' = child
    BY <1>0, <2>1 DEF Lease!vars
  <2>2. CASE child[r] = "gated" /\ child' = [child EXCEPT ![r] = "running"]
    <3>1. Unreleased(r) /\ Owned(r)
      BY <1>2, <2>2 DEF OpenGate, LeaseInv, GrantStands
    <3>2. TaskPhase(r) = "active"
      BY <3>1 DEF TaskPhase, Unreleased
    <3>3. Lease!Run(r)
      BY <1>0, <2>2, <3>2 DEF Lease!Run
    <3> QED
      BY <3>3 DEF Lease!Next
  <2> QED
    BY <1>2, <2>1, <2>2 DEF OpenGate
<1>3. CASE GateCloses(r) \/ ChildExits(r)
  <2>1. Lease!Die(r)
    BY <1>0, <1>3 DEF GateCloses, ChildExits, ChildAlive, Lease!Die
  <2> QED
    BY <2>1 DEF Lease!Next
<1>4. CASE GiveUp(r) \/ WrapperDies(r)
  BY <1>0, <1>4 DEF GiveUp, WrapperDies, Lease!vars
<1> QED
  BY <1>1, <1>2, <1>3, <1>4

\* Ending a lease, by the wrapper or by the engine, is Release.
LEMMA ReleaseRefines ==
    ASSUME LeaseInv, NEW r \in Runs, child' = child,
           ReleasesOne(r) \/ UNCHANGED <<kept, activated, released>>
    PROVE  [Lease!Next]_(Lease!vars)
<1>1. CASE UNCHANGED <<kept, activated, released>>
  BY <1>1, PhaseStays DEF Lease!vars
<1>2. CASE ReleasesOne(r)
  <2>1. Owned(r) => child[r] = "gone"
    BY <1>2 DEF ReleasesOne, ChildAlive, Owned, LeaseInv, LeaseTypes, CommandFollowsLease
  <2>2. TaskPhase(r) = (IF Owned(r) THEN "active" ELSE "reserved")
    BY <1>2 DEF ReleasesOne, Unreleased, TaskPhase
  <2>3. TaskPhase(r)' = "released"
    BY <1>2 DEF ReleasesOne, Unreleased, TaskPhase, Owned, NoTime, LeaseInv, LeaseTypes
  <2>4. \A q \in Runs \ {r} : TaskPhase(q)' = TaskPhase(q)
    BY <1>2 DEF ReleasesOne, TaskPhase, Owned, LeaseInv, LeaseTypes
  <2>5. Lease!Release(r)
    BY <2>1, <2>2, <2>3, <2>4, PhaseMoves DEF Lease!Release
  <2> QED
    BY <2>5 DEF Lease!Next
<1> QED
  BY <1>1, <1>2

\* A sweep of either table is Prune.
LEMMA SweepRefines ==
    ASSUME LeaseInv, BindTaskControllers \/ BindSessionControllers
    PROVE  [Lease!Next]_(Lease!vars)
<1>1. PICK R \in SUBSET Runs :
         /\ \A r \in R : kept[r] = "yes" /\ released[r] # NoTime
         /\ kept' = [r \in Runs |-> IF r \in R THEN "deleted" ELSE kept[r]]
         /\ activated' = [r \in Runs |-> IF r \in R THEN NoTime ELSE activated[r]]
         /\ released' = [r \in Runs |-> IF r \in R THEN NoTime ELSE released[r]]
         /\ UNCHANGED <<now, cli, child, ask>>
  BY PruneFacts
<1>2. \A r \in R : TaskPhase(r) = "released"
  BY <1>1 DEF TaskPhase
<1>3. ASSUME NEW r \in R PROVE TaskPhase(r)' = "pruned"
  BY <1>1 DEF TaskPhase
<1>4. ASSUME NEW r \in Runs \ R PROVE TaskPhase(r)' = TaskPhase(r)
  <2>1. kept'[r] = kept[r] /\ released'[r] = released[r] /\ activated'[r] = activated[r]
    BY <1>1
  <2> QED
    BY <2>1 DEF TaskPhase, Owned
<1>5. Lease!Prune(R)
  BY <1>1, <1>2, <1>3, <1>4 DEF Lease!Prune
<1> QED
  BY <1>5 DEF Lease!Next

\* Every step of the code is a step of the lease or a stutter.
LEMMA StepRefines == LeaseInv /\ [Next]_vars => [Lease!Next]_(Lease!vars)
<1> SUFFICES ASSUME LeaseInv, [Next]_vars PROVE [Lease!Next]_(Lease!vars)
  OBVIOUS
<1>1. ASSUME NEW r \in Runs, RunStep(r) PROVE [Lease!Next]_(Lease!vars)
  <2>1. CASE TaskReserve(r) \/ SessionOwnerDeclare(r)
    BY <2>1, ReserveRefines
  <2>2. CASE TaskActivate(r) \/ SessionOwnerActivate(r)
    BY <2>2, ActivateRefines
  <2>3. CASE TaskFinish(r) \/ SessionOwnerRelease(r)
    BY <2>3, FinishFacts, ReleaseRefines
  <2>4. CASE \/ SpawnGated(r) \/ GiveUp(r) \/ OpenGate(r) \/ GateCloses(r)
             \/ ChildExits(r) \/ WrapperDies(r)
    BY <2>4, ClientRefines
  <2> QED
    BY <1>1, <2>1, <2>2, <2>3, <2>4 DEF RunStep
<1>2. ASSUME NEW s \in todo, ReleaseAbsentOwner(s) PROVE [Lease!Next]_(Lease!vars)
  <2>1. s.run \in Runs
    BY DEF LeaseInv, LeaseTypes
  <2> QED
    BY <1>2, <2>1, JudgeFacts, ReleaseRefines
<1>3. CASE BindTaskControllers \/ BindSessionControllers
  BY <1>3, SweepRefines
<1>4. CASE Elsewhere
  BY <1>4, ElsewhereFacts, PhaseStays DEF Lease!vars
<1> QED
  BY <1>1, <1>2, <1>3, <1>4
     DEF Next, EngineStep, Judge, ReleaseAbsentTaskOwners, ReleaseAbsentSessionOwners, Elsewhere

\* The ownership protocol of the CLI, the daemon's handlers and the engine
\* implements the owner lease: no command runs without an active lease that
\* names it, a lease ends only when its command is gone, an ended one never
\* comes back, for any number of runs, daemon restarts and lost answers.
THEOREM OwnershipImplementsLease == Spec => LeaseRefinement
<1>1. Init => Lease!Init
  BY InitRefines
<1>2. LeaseInv /\ [Next]_vars => [Lease!Next]_(Lease!vars)
  BY StepRefines
<1>3. Spec => []LeaseInv
  BY LeaseInvariant
<1> QED
  BY <1>1, <1>2, <1>3, PTL DEF Spec, LeaseRefinement, Lease!Spec

-----------------------------------------------------------------------------
(* Released evidence *)

\* A running command has an active lease; a released one that named a command
\* outlived it; only a run of a lane has a row.
RowSound(r) ==
    /\ child[r] = "running" => Unreleased(r) /\ Owned(r)
    /\ Owned(r) /\ released[r] # NoTime => child[r] = "gone"
    /\ kept[r] # "never" => lane[r] \in Lanes

\* An unreleased generation of the session is the newest row, and the only one
\* that is not released.
NewestLeads ==
    \A r, q \in SameLane("session") :
        Unreleased(r) /\ kept[q] = "yes" /\ q # r => released[q] # NoTime /\ gen[q] < gen[r]

\* Generations stay below some number, so that there is always a next one.
GenerationsBounded == \E b \in Nat : \A r \in Runs : gen[r] <= b

\* A controller made under a lease carries the session name of its maker, whose
\* command has run.  A controller is bound to a row of that name that named a
\* command.  What nobody started is neither seen, bound nor frozen.
ControllerSound(k) ==
    /\ ctl[k].maker \in Runs => /\ ctl[k].session = SessionOf(ctl[k].maker)
                                /\ child[ctl[k].maker] \in {"running", "gone"}
    /\ bound[k] \in Runs => /\ kept[bound[k]] = "yes" /\ Owned(bound[k])
                            /\ ctl[k].session = SessionOf(bound[k])
    /\ ctl[k].state = "unborn" => bound[k] = Unbound /\ k \notin snap.seen

\* Frozen evidence concerns a controller that was started; what it calls
\* released is over for good.
FrozenSound(b) ==
    /\ ctl[b.ctl].state # "unborn"
    /\ b.released => /\ child[b.lease] = "gone"
                     /\ ctl[b.ctl].maker \in Runs => child[ctl[b.ctl].maker] = "gone"

EvidenceInv ==
    /\ TypeOK
    /\ \A r \in Runs : RowSound(r)
    /\ NewestLeads
    /\ GenerationsBounded
    /\ \A k \in Controllers : ControllerSound(k)
    /\ \A b \in frozen : FrozenSound(b)

\* The empty registry has no evidence.
LEMMA InitEvidence == Init => EvidenceInv
<1> SUFFICES ASSUME Init PROVE EvidenceInv
  OBVIOUS
<1> USE OwnershipAssumption DEF Init, NoTime, NotSeen, NoSnap, Times, Stranger, Unbound, Ordinary
<1>1. TypeOK
  BY DEF TypeOK, Bindings
<1>2. \A r \in Runs : RowSound(r)
  BY DEF RowSound, Owned
<1>3. NewestLeads
  BY DEF NewestLeads, Unreleased, SameLane
<1>4. GenerationsBounded
  BY DEF GenerationsBounded
<1>5. \A k \in Controllers : ControllerSound(k)
  BY DEF ControllerSound
<1> QED
  BY <1>1, <1>2, <1>3, <1>4, <1>5 DEF EvidenceInv

\* A command is born, runs under an active lease, and ends once.
ChildMoves(q) ==
    \/ child'[q] = child[q]
    \/ child[q] = "unborn" /\ child'[q] = "gated"
    \/ child[q] = "gated" /\ child'[q] = "running" /\ Unreleased(q) /\ Owned(q)
    \/ child[q] \in {"gated", "running"} /\ child'[q] = "gone"

\* Steps that leave the registry and the controllers alone keep the evidence
\* sound: commands never come back, and a snapshot sees only what was started.
LEMMA RegistryStays ==
    ASSUME EvidenceInv, TypeOK', \A q \in Runs : ChildMoves(q),
           UNCHANGED <<lane, kept, gen, activated, released, bound, ctl>>,
           \A k \in snap'.seen : ctl[k].state # "unborn",
           frozen' \subseteq frozen
    PROVE  EvidenceInv'
<1> USE DEF EvidenceInv
<1>1. ASSUME NEW r \in Runs PROVE RowSound(r)'
  BY DEF RowSound, ChildMoves, Unreleased, Owned
<1>2. NewestLeads'
  BY DEF NewestLeads, Unreleased, SameLane
<1>3. GenerationsBounded'
  BY DEF GenerationsBounded
<1>4. ASSUME NEW k \in Controllers PROVE ControllerSound(k)'
  BY DEF ControllerSound, ChildMoves, SessionOf, Owned
<1>5. ASSUME NEW b \in frozen' PROVE FrozenSound(b)'
  <2>1. b \in frozen /\ b.lease \in Runs /\ FrozenSound(b)
    BY DEF TypeOK, Bindings
  <2> QED
    BY <2>1 DEF FrozenSound, ChildMoves
<1> QED
  BY <1>1, <1>2, <1>3, <1>4, <1>5

\* The wrapper's and the command's own steps.
LEMMA ClientKeepsEvidence ==
    ASSUME LeaseInv, EvidenceInv, NEW r \in Runs,
           \/ SpawnGated(r) \/ GiveUp(r) \/ OpenGate(r) \/ GateCloses(r)
           \/ ChildExits(r) \/ WrapperDies(r)
    PROVE  EvidenceInv'
<1>1. UNCHANGED <<lane, now, kept, gen, activated, released, bound, ctl, phase, todo, snap, frozen>>
  BY DEF SpawnGated, GiveUp, OpenGate, GateCloses, ChildExits, WrapperDies, registry, engine
<1>2. /\ cli' \in [Runs -> {"unborn", "leased", "asking", "granted", "waiting", "gone"}]
      /\ child' \in [Runs -> {"unborn", "gated", "running", "gone"}]
      /\ ask' \in [Runs -> {"none", "sent", "checked"}]
  BY DEF EvidenceInv, TypeOK, SpawnGated, GiveUp, OpenGate, GateCloses, ChildExits, WrapperDies
<1>3. TypeOK'
  BY <1>1, <1>2 DEF EvidenceInv, TypeOK
<1>4. ASSUME NEW q \in Runs PROVE ChildMoves(q)
  <2>1. CASE SpawnGated(r)
    <3>1. child[r] = "unborn"
      BY <2>1 DEF SpawnGated, LeaseInv, CommandFollowsLease
    <3> QED
      BY <2>1, <3>1 DEF SpawnGated, ChildMoves, EvidenceInv, TypeOK
  <2>2. CASE OpenGate(r)
    <3>1. child[r] # "gone" => Unreleased(r) /\ Owned(r)
      BY <2>2 DEF OpenGate, LeaseInv, GrantStands
    <3> QED
      BY <2>2, <3>1 DEF OpenGate, ChildMoves, EvidenceInv, TypeOK
  <2>3. CASE GateCloses(r) \/ ChildExits(r)
    BY <2>3 DEF GateCloses, ChildExits, ChildAlive, ChildMoves, EvidenceInv, TypeOK
  <2>4. CASE GiveUp(r) \/ WrapperDies(r)
    BY <2>4 DEF GiveUp, WrapperDies, ChildMoves
  <2> QED
    BY <2>1, <2>2, <2>3, <2>4
<1>5. \A k \in snap'.seen : ctl[k].state # "unborn"
  BY <1>1 DEF EvidenceInv, ControllerSound, TypeOK
<1> QED
  BY <1>1, <1>3, <1>4, <1>5, RegistryStays

\* The clock, a restart and the snapshot of a new cycle.
LEMMA WorldKeepsEvidence ==
    ASSUME LeaseInv, EvidenceInv, Tick \/ DaemonRestarts \/ BeginCycle \/ UNCHANGED vars
    PROVE  EvidenceInv'
<1> USE DEF clients, registry, engine
<1>1. UNCHANGED <<lane, child, kept, gen, activated, released, bound, ctl>>
  BY DEF Tick, DaemonRestarts, BeginCycle, vars
<1>2. TypeOK' /\ (\A k \in snap'.seen : ctl[k].state # "unborn") /\ frozen' \subseteq frozen
  <2>0. \A k \in snap.seen : ctl[k].state # "unborn"
    BY DEF EvidenceInv, ControllerSound, TypeOK
  <2>1. CASE Tick
    <3>1. now' \in Times
      BY <2>1, OwnershipAssumption DEF Tick, EvidenceInv, TypeOK, Times
    <3> QED
      BY <2>0, <2>1, <3>1 DEF Tick, EvidenceInv, TypeOK
  <2>2. CASE DaemonRestarts
    <3>1. now' \in Times
      BY <2>2, OwnershipAssumption DEF DaemonRestarts, EvidenceInv, TypeOK, Times
    <3>2. NoSnap \in [seen : SUBSET Controllers, complete : BOOLEAN, at : Times, tags : SUBSET Runs]
      BY OwnershipAssumption DEF NoSnap, Times
    <3>3. /\ cli' \in [Runs -> {"unborn", "leased", "asking", "granted", "waiting", "gone"}]
          /\ ask' \in [Runs -> {"none", "sent", "checked"}]
      BY <2>2 DEF DaemonRestarts, EvidenceInv, TypeOK
    <3>4. snap' = NoSnap /\ frozen' = {} /\ todo' = {} /\ phase' = "idle"
      BY <2>2 DEF DaemonRestarts
    <3>5. TypeOK'
      BY <1>1, <3>1, <3>2, <3>3, <3>4 DEF EvidenceInv, TypeOK
    <3> QED
      BY <3>4, <3>5 DEF NoSnap
  <2>3. CASE BeginCycle
    <3>1. todo' \subseteq [run : Runs, owned : BOOLEAN]
      BY <2>3, ScopesType DEF BeginCycle, TaskScopes
    <3>2. snap' \in Snapshots /\ phase' = "tasks" /\ UNCHANGED <<now, cli, ask, frozen>>
      BY <2>3 DEF BeginCycle
    <3>3. now \in Times /\ Alive \in SUBSET Controllers
      BY DEF EvidenceInv, TypeOK, Alive
    <3>4. /\ snap' \in [seen : SUBSET Controllers, complete : BOOLEAN, at : Times, tags : SUBSET Runs]
          /\ snap'.seen \subseteq Alive
      <4> DEFINE tagged == {r \in SameLane("task") : released[r] # NoTime /\ ChildAlive(r)}
      <4>1. tagged \in SUBSET Runs
        BY DEF SameLane
      <4>2. CASE snap' = [seen |-> Alive, complete |-> TRUE, at |-> now, tags |-> tagged]
        <5> HIDE DEF tagged
        <5> QED
          BY <3>3, <4>1, <4>2
      <4>3. CASE snap' \in [seen : SUBSET Alive, complete : {FALSE}, at : {now}, tags : {{}}]
        BY <3>3, <4>3
      <4> QED
        BY <3>2, <4>2, <4>3 DEF Snapshots
    <3>5. TypeOK'
      BY <1>1, <3>1, <3>2, <3>4 DEF EvidenceInv, TypeOK
    <3> QED
      BY <3>2, <3>4, <3>5 DEF Alive
  <2>4. CASE UNCHANGED vars
    BY <2>0, <2>4 DEF vars, EvidenceInv, TypeOK
  <2> QED
    BY <2>1, <2>2, <2>3, <2>4
<1>3. \A q \in Runs : ChildMoves(q)
  BY <1>1 DEF ChildMoves
<1> QED
  BY <1>1, <1>2, <1>3, RegistryStays

\* Every set of naturals has a least member: natural numbers are well founded.
LEMMA LeastNatural ==
    ASSUME NEW T, T \subseteq Nat, T # {}
    PROVE  \E x \in T : \A y \in T : x <= y
<1> DEFINE R == OpToRel(<, Nat)
<1>1. IsWellFoundedOn(R, Nat)
  BY NatLessThanWellFounded
<1>2. PICK x \in T : \A y \in T : ~(<<y, x>> \in R)
  <2> HIDE DEF R
  <2> QED
    BY <1>1, WFMin
<1>3. ASSUME NEW y \in T PROVE x <= y
  <2>1. x \in Nat /\ y \in Nat
    OBVIOUS
  <2>2. ~(<<y, x>> \in R)
    BY <1>2
  <2>3. <<y, x>> \in Nat \X Nat
    BY <2>1
  <2>4. ~(y < x)
    BY <2>2, <2>3 DEF OpToRel
  <2> QED
    BY <2>1, <2>4
<1> QED
  BY <1>3

\* A bounded set of naturals has a greatest member.
LEMMA GreatestNatural ==
    ASSUME NEW T, T \subseteq Nat, T # {}, NEW b \in Nat, \A t \in T : t <= b
    PROVE  \E x \in T : \A y \in T : y <= x
<1> DEFINE D == {b - t : t \in T}
<1>1. D \subseteq Nat
  <2>1. ASSUME NEW t \in T PROVE b - t \in Nat
    <3>1. t \in Nat /\ t <= b
      OBVIOUS
    <3> QED
      BY <3>1
  <2> QED
    BY <2>1
<1>2. PICK d \in D : \A e \in D : d <= e
  <2>1. D # {}
    OBVIOUS
  <2> HIDE DEF D
  <2> QED
    BY <1>1, <2>1, LeastNatural
<1>3. PICK x \in T : d = b - x
  OBVIOUS
<1>4. ASSUME NEW y \in T PROVE y <= x
  <2>1. b - y \in D
    OBVIOUS
  <2>2. b - x <= b - y
    BY <1>2, <1>3, <2>1
  <2> QED
    BY <2>2
<1> QED
  BY <1>4

\* The generation declare_session_owner assigns exceeds every generation kept.
LEMMA NextGenerationFacts ==
    ASSUME EvidenceInv
    PROVE  /\ NextGeneration \in Nat
           /\ \A q \in SameLane("session") : kept[q] = "yes" => gen[q] < NextGeneration
<1>1. PICK b \in Nat : \A r \in Runs : gen[r] <= b
  BY DEF EvidenceInv, GenerationsBounded
<1>2. Generations \subseteq Nat /\ \A g \in Generations : g <= b
  BY <1>1 DEF Generations, Rows, SameLane, EvidenceInv, TypeOK
<1>3. \A q \in SameLane("session") : kept[q] = "yes" => gen[q] \in Generations
  BY DEF Generations, Rows
<1>4. CASE Generations = {}
  BY <1>3, <1>4 DEF NextGeneration
<1>5. CASE Generations # {}
  <2>1. \E g \in Generations : \A h \in Generations : h <= g
    BY <1>2, <1>5, GreatestNatural
  <2> DEFINE top == CHOOSE g \in Generations : \A h \in Generations : h <= g
  <2>2. top \in Generations /\ \A h \in Generations : h <= top
    BY <2>1
  <2>3. NextGeneration = 1 + top
    BY <1>5 DEF NextGeneration
  <2> HIDE DEF top
  <2>4. top \in Nat
    BY <1>2, <2>2
  <2>5. ASSUME NEW q \in SameLane("session"), kept[q] = "yes" PROVE gen[q] < 1 + top
    <3>1. gen[q] \in Generations
      BY <1>3, <2>5
    <3>2. gen[q] \in Nat /\ gen[q] <= top
      BY <1>2, <2>2, <3>1
    <3> QED
      BY <2>4, <3>2
  <2> QED
    BY <2>3, <2>4, <2>5
<1> QED
  BY <1>4, <1>5

\* A new row is unreleased and names nobody; a new generation is declared only
\* when every older one has ended.
LEMMA ReserveKeepsEvidence ==
    ASSUME LeaseInv, EvidenceInv, NEW r \in Runs, TaskReserve(r) \/ SessionOwnerDeclare(r)
    PROVE  EvidenceInv'
<1>1. /\ cli[r] = "unborn"
      /\ cli' = [cli EXCEPT ![r] = "leased"] \/ cli' = [cli EXCEPT ![r] = "gone"]
      /\ UNCHANGED <<lane, now, child, ask, activated, released, bound, ctl, phase, todo, snap, frozen>>
      /\ \/ UNCHANGED <<kept, gen>>
         \/ /\ kept' = [kept EXCEPT ![r] = "yes"]
            /\ \/ lane[r] = "task" /\ gen' = gen
               \/ /\ lane[r] = "session" /\ gen' = [gen EXCEPT ![r] = NextGeneration]
                  /\ ~\E q \in SameLane("session") : Unreleased(q)
  BY DEF TaskReserve, SessionOwnerDeclare, Refused, ReserveTaskStore, DeclareSessionStore,
         Answered, registry, engine
<1>2. /\ child[r] = "unborn" /\ kept[r] = "never"
      /\ activated[r] = NoTime /\ released[r] = NoTime
  BY <1>1 DEF LeaseInv, RowFollowsWrapper, CommandFollowsLease
<1>3. /\ NextGeneration \in Nat
      /\ \A q \in SameLane("session") : kept[q] = "yes" => gen[q] < NextGeneration
  BY NextGenerationFacts
<1>4. TypeOK'
  BY <1>1, <1>3 DEF EvidenceInv, TypeOK
<1>5. ASSUME NEW q \in Runs PROVE RowSound(q)'
  BY <1>1, <1>2 DEF EvidenceInv, TypeOK, RowSound, Unreleased, Owned, Lanes
<1>6. NewestLeads'
  <2> SUFFICES ASSUME NEW p \in SameLane("session")', NEW q \in SameLane("session")',
                      Unreleased(p)', kept'[q] = "yes", q # p
               PROVE  released'[q] # NoTime /\ gen'[q] < gen'[p]
    BY DEF NewestLeads
  <2>0. /\ p \in SameLane("session") /\ q \in SameLane("session") /\ p \in Runs /\ q \in Runs
    BY <1>1 DEF SameLane
  <2>1. CASE kept' = kept /\ gen' = gen
    BY <1>1, <2>0, <2>1 DEF EvidenceInv, NewestLeads, Unreleased
  <2>2. CASE lane[r] = "task" /\ kept' = [kept EXCEPT ![r] = "yes"] /\ gen' = gen
    <3>1. p # r /\ q # r
      BY <2>0, <2>2 DEF SameLane
    <3> QED
      BY <1>1, <2>0, <2>2, <3>1 DEF EvidenceInv, NewestLeads, Unreleased, TypeOK
  <2>3. CASE /\ lane[r] = "session" /\ kept' = [kept EXCEPT ![r] = "yes"]
             /\ gen' = [gen EXCEPT ![r] = NextGeneration]
             /\ ~\E s \in SameLane("session") : Unreleased(s)
    <3>1. p = r
      BY <1>1, <2>0, <2>3 DEF Unreleased, EvidenceInv, TypeOK
    <3>2. kept[q] = "yes" /\ released[q] # NoTime /\ gen'[q] = gen[q] /\ gen'[p] = NextGeneration
      BY <1>1, <2>0, <2>3, <3>1 DEF Unreleased, EvidenceInv, TypeOK
    <3> QED
      BY <1>1, <1>3, <2>0, <3>2
  <2> QED
    BY <1>1, <2>1, <2>2, <2>3
<1>7. GenerationsBounded'
  <2>1. PICK b \in Nat : \A q \in Runs : gen[q] <= b
    BY DEF EvidenceInv, GenerationsBounded
  <2>2. \A q \in Runs : gen[q] \in Nat
    BY DEF EvidenceInv, TypeOK
  <2>3. b + NextGeneration \in Nat /\ \A q \in Runs : gen'[q] <= b + NextGeneration
    <3>1. \A q \in Runs : gen'[q] = gen[q] \/ gen'[q] = NextGeneration
      BY <1>1 DEF EvidenceInv, TypeOK
    <3> QED
      BY <1>3, <2>1, <2>2, <3>1
  <2> QED
    BY <2>3 DEF GenerationsBounded
<1>8. ASSUME NEW k \in Controllers PROVE ControllerSound(k)'
  BY <1>1, <1>2 DEF EvidenceInv, TypeOK, ControllerSound, SessionOf, Owned
<1>9. ASSUME NEW b \in frozen' PROVE FrozenSound(b)'
  BY <1>1 DEF EvidenceInv, FrozenSound
<1> QED
  BY <1>4, <1>5, <1>6, <1>7, <1>8, <1>9 DEF EvidenceInv

\* A handler names a command in a row that nobody released, and answers.
LEMMA ActivateKeepsEvidence ==
    ASSUME LeaseInv, EvidenceInv, NEW r \in Runs, TaskActivate(r) \/ SessionOwnerActivate(r)
    PROVE  EvidenceInv'
<1>1. /\ UNCHANGED <<lane, now, child, kept, gen, released, bound, ctl, phase, todo, snap, frozen>>
      /\ \/ activated' = activated
         \/ /\ kept[r] = "yes" /\ released[r] = NoTime
            /\ activated' = [activated EXCEPT ![r] = now]
  BY DEF TaskActivate, SessionOwnerActivate, CheckOwner, StoreActivate, ActivateTask,
         ActivateSessionOwner, ActivateRow, Unreleased, registry, engine
<1>2. CASE CheckOwner(r) \/ StoreActivate(r)
  <2>1. /\ cli' = cli \/ \E a \in {"granted", "gone"} :
                            cli' = [cli EXCEPT ![r] = IF @ = "asking" THEN a ELSE @]
        /\ ask' = [ask EXCEPT ![r] = "checked"] \/ ask' = [ask EXCEPT ![r] = "none"]
    BY <1>2 DEF CheckOwner, StoreActivate, Hear
  <2>2. TypeOK'
    BY <1>1, <2>1 DEF EvidenceInv, TypeOK
  <2>3. now # NoTime
    BY OwnershipAssumption DEF EvidenceInv, TypeOK, Times, NoTime
  <2>4. ASSUME NEW q \in Runs PROVE RowSound(q)'
    BY <1>1, <2>3 DEF EvidenceInv, TypeOK, RowSound, Unreleased, Owned
  <2>5. NewestLeads' /\ GenerationsBounded'
    BY <1>1 DEF EvidenceInv, NewestLeads, GenerationsBounded, Unreleased, SameLane
  <2>6. ASSUME NEW k \in Controllers PROVE ControllerSound(k)'
    BY <1>1, <2>3 DEF EvidenceInv, TypeOK, ControllerSound, SessionOf, Owned
  <2>7. ASSUME NEW b \in frozen' PROVE FrozenSound(b)'
    BY <1>1 DEF EvidenceInv, FrozenSound
  <2> QED
    BY <2>2, <2>4, <2>5, <2>6, <2>7 DEF EvidenceInv
<1> QED
  BY <1>2 DEF TaskActivate, SessionOwnerActivate

\* Ending a lease whose owner is gone, by the wrapper or by the engine.
LEMMA ReleaseKeepsEvidence ==
    ASSUME LeaseInv, EvidenceInv, NEW r \in Runs,
           ReleasesOne(r) \/ UNCHANGED <<kept, activated, released>>,
           UNCHANGED <<lane, now, child, ask, gen, bound, ctl, phase, snap, frozen>>,
           cli' = cli \/ cli' = [cli EXCEPT ![r] = "gone"], todo' \subseteq todo
    PROVE  EvidenceInv'
<1>1. TypeOK'
  BY DEF EvidenceInv, TypeOK, ReleasesOne
<1>2. ASSUME NEW q \in Runs PROVE RowSound(q)'
  <2>1. Owned(r) => child[r] # "unborn"
    BY DEF LeaseInv, CommandFollowsLease, Owned
  <2> QED
    BY <2>1 DEF EvidenceInv, TypeOK, RowSound, ReleasesOne, Unreleased, Owned, ChildAlive
<1>3. NewestLeads' /\ GenerationsBounded'
  <2>1. now # NoTime
    BY OwnershipAssumption DEF EvidenceInv, TypeOK, Times, NoTime
  <2>2. NewestLeads'
    BY <2>1 DEF EvidenceInv, TypeOK, NewestLeads, ReleasesOne, Unreleased, SameLane
  <2> QED
    BY <2>2 DEF EvidenceInv, GenerationsBounded
<1>4. ASSUME NEW k \in Controllers PROVE ControllerSound(k)'
  BY DEF EvidenceInv, TypeOK, ControllerSound, ReleasesOne, SessionOf, Owned
<1>5. ASSUME NEW b \in frozen' PROVE FrozenSound(b)'
  BY DEF EvidenceInv, FrozenSound
<1> QED
  BY <1>1, <1>2, <1>3, <1>4, <1>5 DEF EvidenceInv

\* What a sweep does to the registry: it drops rows that were released with the
\* bindings to them, and binds controllers it saw to rows of their session.
LEMMA SweepFacts ==
    ASSUME EvidenceInv, BindTaskControllers \/ BindSessionControllers
    PROVE  \E R \in SUBSET Runs :
              /\ \A r \in R : kept[r] = "yes" /\ released[r] # NoTime
              /\ kept' = [r \in Runs |-> IF r \in R THEN "deleted" ELSE kept[r]]
              /\ gen' = [r \in Runs |-> IF r \in R THEN 0 ELSE gen[r]]
              /\ activated' = [r \in Runs |-> IF r \in R THEN NoTime ELSE activated[r]]
              /\ released' = [r \in Runs |-> IF r \in R THEN NoTime ELSE released[r]]
              /\ bound' \in [Controllers -> Runs \cup {Unbound}]
              /\ \A k \in Controllers :
                    \/ bound'[k] = Unbound
                    \/ /\ bound'[k] \in Runs \ R
                       /\ \/ bound'[k] = bound[k]
                          \/ /\ k \in snap.seen
                             /\ kept[bound'[k]] = "yes" /\ Owned(bound'[k])
                             /\ ctl[k].session = SessionOf(bound'[k])
<1>1. ASSUME NEW P, NEW R \in SUBSET Runs, BindAndPrune(P, R),
             \A r \in R : kept[r] = "yes" /\ released[r] # NoTime,
             \A k \in Controllers, r \in Runs : <<k, r>> \in P =>
                 /\ k \in snap.seen /\ kept[r] = "yes" /\ Owned(r)
                 /\ ctl[k].session = SessionOf(r)
      PROVE  /\ kept' = [r \in Runs |-> IF r \in R THEN "deleted" ELSE kept[r]]
             /\ gen' = [r \in Runs |-> IF r \in R THEN 0 ELSE gen[r]]
             /\ activated' = [r \in Runs |-> IF r \in R THEN NoTime ELSE activated[r]]
             /\ released' = [r \in Runs |-> IF r \in R THEN NoTime ELSE released[r]]
             /\ bound' \in [Controllers -> Runs \cup {Unbound}]
             /\ \A k \in Controllers :
                   \/ bound'[k] = Unbound
                   \/ /\ bound'[k] \in Runs \ R
                      /\ \/ bound'[k] = bound[k]
                         \/ /\ k \in snap.seen
                            /\ kept[bound'[k]] = "yes" /\ Owned(bound'[k])
                            /\ ctl[k].session = SessionOf(bound'[k])
  <2> DEFINE chosen(k) == CHOOSE r \in Runs : <<k, r>> \in P
             now1(k) == IF bound[k] = Unbound /\ \E r \in Runs : <<k, r>> \in P
                        THEN chosen(k) ELSE bound[k]
  <2>1. /\ bound' = [k \in Controllers |-> IF now1(k) \in R THEN Unbound ELSE now1(k)]
        /\ kept' = [r \in Runs |-> IF r \in R THEN "deleted" ELSE kept[r]]
        /\ gen' = [r \in Runs |-> IF r \in R THEN 0 ELSE gen[r]]
        /\ activated' = [r \in Runs |-> IF r \in R THEN NoTime ELSE activated[r]]
        /\ released' = [r \in Runs |-> IF r \in R THEN NoTime ELSE released[r]]
    BY <1>1 DEF BindAndPrune
  <2>2. ASSUME NEW k \in Controllers
        PROVE  \/ now1(k) = bound[k]
               \/ now1(k) \in Runs /\ <<k, now1(k)>> \in P
    <3>1. CASE bound[k] = Unbound /\ \E r \in Runs : <<k, r>> \in P
      <4>1. chosen(k) \in Runs /\ <<k, chosen(k)>> \in P
        BY <3>1
      <4> QED
        BY <3>1, <4>1
    <3>2. CASE ~(bound[k] = Unbound /\ \E r \in Runs : <<k, r>> \in P)
      BY <3>2
    <3> QED
      BY <3>1, <3>2
  <2> HIDE DEF now1
  <2>3. \A k \in Controllers : bound[k] \in Runs \cup {Unbound}
    BY DEF EvidenceInv, TypeOK
  <2>4. ASSUME NEW k \in Controllers
        PROVE  /\ bound'[k] \in Runs \cup {Unbound}
               /\ \/ bound'[k] = Unbound
                  \/ /\ bound'[k] \in Runs \ R
                     /\ \/ bound'[k] = bound[k]
                        \/ /\ k \in snap.seen
                           /\ kept[bound'[k]] = "yes" /\ Owned(bound'[k])
                           /\ ctl[k].session = SessionOf(bound'[k])
    <3>1. bound'[k] = IF now1(k) \in R THEN Unbound ELSE now1(k)
      BY <2>1
    <3> QED
      BY <1>1, <2>2, <2>3, <3>1
  <2> QED
    BY <2>1, <2>4
<1>2. CASE BindTaskControllers
  <2>1. BindAndPrune(AdmittedByTask, PrunedTasks)
    BY <1>2 DEF BindTaskControllers
  <2>2. PrunedTasks \in SUBSET Runs /\ \A r \in PrunedTasks : kept[r] = "yes" /\ released[r] # NoTime
    BY DEF PrunedTasks, Expired, Rows, SameLane
  <2>3. ASSUME NEW k \in Controllers, NEW r \in Runs, <<k, r>> \in AdmittedByTask
        PROVE  /\ k \in snap.seen /\ kept[r] = "yes" /\ Owned(r)
               /\ ctl[k].session = SessionOf(r)
    BY <2>3 DEF AdmittedByTask, Rows, SameLane, BornInWindow, SessionOf
  <2> QED
    BY <1>1, <2>1, <2>2, <2>3
<1>3. CASE BindSessionControllers
  <2>1. BindAndPrune(AdmittedBySession, PrunedSessions)
    BY <1>3 DEF BindSessionControllers
  <2>2. /\ PrunedSessions \in SUBSET Runs
        /\ \A r \in PrunedSessions : kept[r] = "yes" /\ released[r] # NoTime
    BY DEF PrunedSessions, Expired, Rows, SameLane
  <2>3. ASSUME NEW k \in Controllers, NEW r \in Runs, <<k, r>> \in AdmittedBySession
        PROVE  /\ k \in snap.seen /\ kept[r] = "yes" /\ Owned(r)
               /\ ctl[k].session = SessionOf(r)
    BY <2>3 DEF AdmittedBySession, CurrentSession, Rows, SameLane, BornInWindow, SessionOf
  <2> QED
    BY <1>1, <2>1, <2>2, <2>3
<1> QED
  BY <1>2, <1>3

\* So a sweep keeps the evidence sound.
LEMMA SweepKeepsEvidence ==
    ASSUME LeaseInv, EvidenceInv, BindTaskControllers \/ BindSessionControllers
    PROVE  EvidenceInv'
<1>1. PICK R \in SUBSET Runs :
         /\ \A r \in R : kept[r] = "yes" /\ released[r] # NoTime
         /\ kept' = [r \in Runs |-> IF r \in R THEN "deleted" ELSE kept[r]]
         /\ gen' = [r \in Runs |-> IF r \in R THEN 0 ELSE gen[r]]
         /\ activated' = [r \in Runs |-> IF r \in R THEN NoTime ELSE activated[r]]
         /\ released' = [r \in Runs |-> IF r \in R THEN NoTime ELSE released[r]]
         /\ bound' \in [Controllers -> Runs \cup {Unbound}]
         /\ \A k \in Controllers :
               \/ bound'[k] = Unbound
               \/ /\ bound'[k] \in Runs \ R
                  /\ \/ bound'[k] = bound[k]
                     \/ /\ k \in snap.seen
                        /\ kept[bound'[k]] = "yes" /\ Owned(bound'[k])
                        /\ ctl[k].session = SessionOf(bound'[k])
  BY SweepFacts
<1>2. /\ UNCHANGED <<lane, now, cli, child, ask, ctl, frozen>>
      /\ phase' \in {"idle", "tasks", "sessions", "freeze"}
      /\ todo' \subseteq [run : Runs, owned : BOOLEAN]
      /\ snap' = snap \/ snap' = NoSnap
  <2>1. CASE BindTaskControllers
    <3>1. todo' = SessionOwnerScopes /\ SessionOwnerScopes \subseteq [run : Runs, owned : BOOLEAN]
      BY <2>1, ScopesType DEF BindTaskControllers, SessionOwnerScopes
    <3> QED
      BY <2>1, <3>1 DEF BindTaskControllers, clients
  <2>2. CASE BindSessionControllers
    BY <2>2 DEF BindSessionControllers, clients, EvidenceInv, TypeOK
  <2> QED
    BY <2>1, <2>2
<1>3. TypeOK'
  <2>1. NoSnap \in [seen : SUBSET Controllers, complete : BOOLEAN, at : Times, tags : SUBSET Runs]
    BY OwnershipAssumption DEF NoSnap, Times
  <2>2. snap' \in [seen : SUBSET Controllers, complete : BOOLEAN, at : Times, tags : SUBSET Runs]
    BY <1>2, <2>1 DEF EvidenceInv, TypeOK
  <2>3. /\ kept' \in [Runs -> {"never", "yes", "deleted"}]
        /\ gen' \in [Runs -> Nat]
        /\ activated' \in [Runs -> Times \cup {NoTime}]
        /\ released' \in [Runs -> Times \cup {NoTime}]
    BY <1>1 DEF EvidenceInv, TypeOK
  <2> QED
    BY <1>1, <1>2, <2>2, <2>3 DEF EvidenceInv, TypeOK
<1>4. ASSUME NEW q \in Runs PROVE RowSound(q)'
  <2>1. q \in R => child[q] # "running"
    BY <1>1 DEF EvidenceInv, RowSound, Unreleased
  <2> QED
    BY <1>1, <1>2, <2>1 DEF EvidenceInv, RowSound, Unreleased, Owned
<1>5. NewestLeads'
  BY <1>1, <1>2 DEF EvidenceInv, NewestLeads, Unreleased, SameLane
<1>6. GenerationsBounded'
  <2>1. PICK b \in Nat : \A q \in Runs : gen[q] <= b
    BY DEF EvidenceInv, GenerationsBounded
  <2>2. \A q \in Runs : gen'[q] <= b
    BY <1>1, <2>1
  <2> QED
    BY <2>2 DEF GenerationsBounded
<1>7. ASSUME NEW k \in Controllers PROVE ControllerSound(k)'
  <2>1. Unbound \notin Runs
    BY OwnershipAssumption DEF Unbound
  <2>2. ControllerSound(k)
    BY DEF EvidenceInv
  <2>3. bound'[k] \in Runs => /\ kept'[bound'[k]] = "yes" /\ activated'[bound'[k]] # NoTime
                              /\ ctl[k].session = SessionOf(bound'[k])
                              /\ ctl[k].state # "unborn"
    <3> SUFFICES ASSUME bound'[k] \in Runs
                 PROVE  /\ kept'[bound'[k]] = "yes" /\ activated'[bound'[k]] # NoTime
                        /\ ctl[k].session = SessionOf(bound'[k])
                        /\ ctl[k].state # "unborn"
      OBVIOUS
    <3>1. bound'[k] \in Runs \ R
      BY <1>1, <2>1
    <3>2. /\ kept[bound'[k]] = "yes" /\ Owned(bound'[k])
          /\ ctl[k].session = SessionOf(bound'[k])
          /\ ctl[k].state # "unborn"
      BY <1>1, <2>1, <2>2 DEF ControllerSound
    <3>3. kept'[bound'[k]] = kept[bound'[k]] /\ activated'[bound'[k]] = activated[bound'[k]]
      BY <1>1, <3>1
    <3> QED
      BY <3>2, <3>3 DEF Owned
  <2>4. \A r : SessionOf(r)' = SessionOf(r)
    BY <1>2 DEF SessionOf
  <2>5. ctl[k].state = "unborn" => bound'[k] = Unbound /\ k \notin snap'.seen
    BY <1>1, <1>2, <2>2, <2>3 DEF ControllerSound, NoSnap
  <2> QED
    BY <1>2, <2>2, <2>3, <2>4, <2>5 DEF ControllerSound, Owned
<1>8. ASSUME NEW b \in frozen' PROVE FrozenSound(b)'
  BY <1>2 DEF EvidenceInv, FrozenSound
<1> QED
  BY <1>3, <1>4, <1>5, <1>6, <1>7, <1>8 DEF EvidenceInv

\* A controller starts under the name of its maker, whose command runs, or of
\* nobody; it ends once.
LEMMA ControllerKeepsEvidence ==
    ASSUME LeaseInv, EvidenceInv, NEW k \in Controllers, ControllerStarts(k) \/ ControllerExits(k)
    PROVE  EvidenceInv'
<1>1. UNCHANGED <<lane, now, cli, child, ask, kept, gen, activated, released, bound,
                  phase, todo, snap, frozen>>
  BY DEF ControllerStarts, ControllerExits, Starts, clients, registry, engine
<1>2. \/ ctl' = [ctl EXCEPT ![k].state = "gone"]
      \/ /\ ctl[k].state = "unborn"
         /\ \E r \in Runs, maker \in Runs \cup {Stranger} :
               /\ ctl' = [ctl EXCEPT ![k] = [state |-> "alive", born |-> now,
                                             session |-> SessionOf(r), maker |-> maker]]
               /\ maker = Stranger \/ (maker = r /\ child[r] = "running")
  BY DEF ControllerStarts, ControllerExits, Starts
<1>3. \A r \in Runs : SessionOf(r) \in Runs \cup {Ordinary} /\ SessionOf(r)' = SessionOf(r)
  BY <1>1 DEF SessionOf
<1>4. TypeOK'
  <2>1. ctl' \in [Controllers -> [state : {"unborn", "alive", "gone"}, born : Times,
                                  session : Runs \cup {Ordinary},
                                  maker : Runs \cup {Stranger}]]
    BY <1>2, <1>3 DEF EvidenceInv, TypeOK
  <2> QED
    BY <1>1, <2>1 DEF EvidenceInv, TypeOK
<1>5. \A q \in Runs : RowSound(q)'
  BY <1>1 DEF EvidenceInv, RowSound, Unreleased, Owned
<1>6. NewestLeads' /\ GenerationsBounded'
  BY <1>1 DEF EvidenceInv, NewestLeads, GenerationsBounded, Unreleased, SameLane
<1>7. ASSUME NEW j \in Controllers
      PROVE  \/ ctl'[j] = ctl[j]
             \/ /\ ctl'[j].maker = ctl[j].maker /\ ctl'[j].session = ctl[j].session
                /\ ctl'[j].state = "gone"
             \/ /\ j = k /\ ctl[k].state = "unborn" /\ ctl'[j].state = "alive"
                /\ ctl'[j].maker \in Runs => /\ ctl'[j].session = SessionOf(ctl'[j].maker)
                                             /\ child[ctl'[j].maker] = "running"
  BY <1>2, OwnershipAssumption DEF EvidenceInv, TypeOK, Stranger
<1>8. ASSUME NEW j \in Controllers PROVE ControllerSound(j)'
  <2>1. ControllerSound(j)
    BY DEF EvidenceInv
  <2>2. bound[j] \in Runs => ctl[j].state # "unborn"
    BY <2>1, OwnershipAssumption DEF ControllerSound, Unbound
  <2> QED
    BY <1>1, <1>3, <1>7, <2>1, <2>2 DEF ControllerSound, Owned
<1>9. ASSUME NEW b \in frozen' PROVE FrozenSound(b)'
  <2>1. b \in frozen /\ b.ctl \in Controllers /\ FrozenSound(b)
    BY <1>1 DEF EvidenceInv, TypeOK, Bindings
  <2>2. \/ ctl'[b.ctl] = ctl[b.ctl]
        \/ ctl'[b.ctl].maker = ctl[b.ctl].maker /\ ctl'[b.ctl].state = "gone"
    BY <1>7, <2>1 DEF FrozenSound
  <2> QED
    BY <1>1, <2>1, <2>2 DEF FrozenSound
<1> QED
  BY <1>4, <1>5, <1>6, <1>8, <1>9 DEF EvidenceInv

\* What a cycle freezes is sound.  A released task lease concerns only its own
\* command.  A released session lease is evidence only while it is the newest,
\* and then no command of that session runs: a running one would hold an
\* unreleased, and so a newer, generation.
LEMMA FreezeKeepsEvidence == ASSUME LeaseInv, EvidenceInv, Freeze PROVE EvidenceInv'
<1>1. /\ UNCHANGED <<lane, now, cli, child, ask, kept, gen, activated, released, bound,
                     ctl, todo, snap>>
      /\ phase' = "idle"
      /\ frozen' = {[ctl |-> k, lease |-> bound[k], released |-> released[bound[k]] # NoTime] :
                       k \in TaskBindings \cup SessionBindings}
  BY DEF Freeze, clients, registry
<1>2. ASSUME NEW b \in frozen'
      PROVE  /\ b \in Bindings
             /\ b.lease = bound[b.ctl] /\ bound[b.ctl] \in Runs
             /\ b.released = (released[b.lease] # NoTime)
             /\ \/ lane[b.lease] = "task"
                \/ lane[b.lease] = "session" /\ b.lease \in CurrentSession
  <2>1. PICK k \in TaskBindings \cup SessionBindings :
            b = [ctl |-> k, lease |-> bound[k], released |-> released[bound[k]] # NoTime]
    BY <1>1
  <2>2. k \in Controllers /\ bound[k] \in Runs
    BY DEF TaskBindings, SessionBindings, SameLane, CurrentSession, Rows
  <2>3. (released[bound[k]] # NoTime) \in BOOLEAN
    OBVIOUS
  <2>4. \/ lane[bound[k]] = "task"
        \/ lane[bound[k]] = "session" /\ bound[k] \in CurrentSession
    BY DEF TaskBindings, SessionBindings, SameLane, CurrentSession, Rows
  <2> QED
    BY <2>1, <2>2, <2>3, <2>4 DEF Bindings
<1>3. TypeOK'
  BY <1>1, <1>2 DEF EvidenceInv, TypeOK
<1>4. \A q \in Runs : RowSound(q)'
  BY <1>1 DEF EvidenceInv, RowSound, Unreleased, Owned
<1>5. NewestLeads' /\ GenerationsBounded'
  BY <1>1 DEF EvidenceInv, NewestLeads, GenerationsBounded, Unreleased, SameLane
<1>6. ASSUME NEW k \in Controllers PROVE ControllerSound(k)'
  BY <1>1 DEF EvidenceInv, ControllerSound, SessionOf, Owned
<1>7. ASSUME NEW b \in frozen' PROVE FrozenSound(b)'
  <2> DEFINE k == b.ctl
             r == bound[k]
             m == ctl[k].maker
  <2>1. /\ k \in Controllers /\ r \in Runs /\ b.lease = r
        /\ b.released = (released[r] # NoTime)
        /\ lane[r] = "task" \/ (lane[r] = "session" /\ r \in CurrentSession)
    BY <1>2 DEF Bindings
  <2>2. /\ kept[r] = "yes" /\ Owned(r) /\ ctl[k].session = SessionOf(r)
        /\ ctl[k].state # "unborn"
        /\ m \in Runs => ctl[k].session = SessionOf(m) /\ child[m] \in {"running", "gone"}
    BY <2>1, OwnershipAssumption DEF EvidenceInv, ControllerSound, Unbound
  <2>3. \A q \in Runs : RowSound(q)
    BY DEF EvidenceInv
  <2>4. lane \in [Runs -> Lanes \cup {"unused"}]
    BY OwnershipAssumption DEF EvidenceInv, TypeOK
  <2>5. ASSUME released[r] # NoTime PROVE child[r] = "gone"
    BY <2>1, <2>2, <2>3, <2>5 DEF RowSound
  <2>6. ASSUME released[r] # NoTime, m \in Runs PROVE child[m] = "gone"
    <3>1. CASE lane[r] = "task"
      <4>1. m = r
        BY <2>1, <2>2, <2>6, <3>1, OwnershipAssumption DEF SessionOf, Ordinary
      <4> QED
        BY <2>5, <2>6, <4>1
    <3>2. CASE lane[r] = "session" /\ r \in CurrentSession
      <4> SUFFICES ASSUME child[m] = "running" PROVE FALSE
        BY <2>2, <2>6
      <4>1. Unreleased(m) /\ Owned(m) /\ lane[m] \in Lanes
        BY <2>3, <2>6 DEF RowSound, Unreleased
      <4>2. lane[m] = "session"
        BY <2>1, <2>2, <2>6, <3>2, <4>1, OwnershipAssumption DEF SessionOf, Ordinary, Lanes
      <4>3. m # r
        BY <2>6, <4>1 DEF Unreleased
      <4>4. gen[r] < gen[m]
        BY <2>1, <2>2, <2>6, <3>2, <4>1, <4>2, <4>3 DEF EvidenceInv, NewestLeads, SameLane
      <4>5. gen[m] <= gen[r]
        BY <2>6, <3>2, <4>1, <4>2 DEF CurrentSession, Rows, SameLane, Unreleased
      <4>6. gen[r] \in Nat /\ gen[m] \in Nat
        BY <2>1, <2>6 DEF EvidenceInv, TypeOK
      <4> QED
        BY <4>4, <4>5, <4>6
    <3> QED
      BY <2>1, <3>1, <3>2
  <2> HIDE DEF m, r, k
  <2>7. /\ ctl[k].state # "unborn"
        /\ b.released => child[b.lease] = "gone" /\ (m \in Runs => child[m] = "gone")
    BY <2>1, <2>2, <2>5, <2>6
  <2> USE DEF m, r, k
  <2> QED
    BY <1>1, <2>7 DEF FrozenSound
<1> QED
  BY <1>3, <1>4, <1>5, <1>6, <1>7 DEF EvidenceInv

\* Every step keeps the evidence sound.
LEMMA StepKeepsEvidence == LeaseInv /\ EvidenceInv /\ [Next]_vars => EvidenceInv'
<1> SUFFICES ASSUME LeaseInv, EvidenceInv, [Next]_vars PROVE EvidenceInv'
  OBVIOUS
<1>1. ASSUME NEW r \in Runs, RunStep(r) PROVE EvidenceInv'
  <2>1. CASE TaskReserve(r) \/ SessionOwnerDeclare(r)
    BY <2>1, ReserveKeepsEvidence
  <2>2. CASE TaskActivate(r) \/ SessionOwnerActivate(r)
    BY <2>2, ActivateKeepsEvidence
  <2>3. CASE TaskFinish(r) \/ SessionOwnerRelease(r)
    <3>1. UNCHANGED <<lane, gen, bound, ctl, phase, snap, frozen>>
      BY <2>3 DEF TaskFinish, SessionOwnerRelease, Finish, FinishSession, Exits, FinishHandler,
                  Release, ReleaseTask, ReleaseSessionOwner, ReleaseRow, registry, engine
    <3> QED
      BY <2>3, <3>1, FinishFacts, ReleaseKeepsEvidence
  <2>4. CASE \/ SpawnGated(r) \/ GiveUp(r) \/ OpenGate(r) \/ GateCloses(r)
             \/ ChildExits(r) \/ WrapperDies(r)
    BY <2>4, ClientKeepsEvidence
  <2> QED
    BY <1>1, <2>1, <2>2, <2>3, <2>4 DEF RunStep
<1>2. ASSUME NEW s \in todo, ReleaseAbsentOwner(s) PROVE EvidenceInv'
  <2>1. s.run \in Runs
    BY DEF LeaseInv, LeaseTypes
  <2>2. UNCHANGED <<lane, gen, bound, ctl, phase, snap, frozen>>
    BY <1>2 DEF ReleaseAbsentOwner, Release, ReleaseTask, ReleaseSessionOwner, ReleaseRow, registry
  <2> QED
    BY <1>2, <2>1, <2>2, JudgeFacts, ReleaseKeepsEvidence
<1>3. CASE BindTaskControllers \/ BindSessionControllers
  BY <1>3, SweepKeepsEvidence
<1>4. ASSUME NEW k \in Controllers, ControllerStarts(k) \/ ControllerExits(k) PROVE EvidenceInv'
  BY <1>4, ControllerKeepsEvidence
<1>5. CASE Freeze
  BY <1>5, FreezeKeepsEvidence
<1>6. CASE Tick \/ DaemonRestarts \/ BeginCycle \/ UNCHANGED vars
  BY <1>6, WorldKeepsEvidence
<1> QED
  BY <1>1, <1>2, <1>3, <1>4, <1>5, <1>6
     DEF Next, EngineStep, Judge, ReleaseAbsentTaskOwners, ReleaseAbsentSessionOwners

\* The strengthening holds in every state.
THEOREM EvidenceInvariant == Spec => []EvidenceInv
<1>1. Init => EvidenceInv
  BY InitEvidence
<1>2. LeaseInv /\ EvidenceInv /\ [Next]_vars => EvidenceInv'
  BY StepKeepsEvidence
<1>3. Spec => []LeaseInv
  BY LeaseInvariant
<1> QED
  BY <1>1, <1>2, <1>3, PTL DEF Spec

\* The rows, the handlers, the engine's snapshot and its frozen context always
\* have the shape the code gives them.
THEOREM OwnershipTypes == Spec => []TypeOK
<1>1. EvidenceInv => TypeOK
  BY DEF EvidenceInv
<1> QED
  BY <1>1, EvidenceInvariant, PTL

\* What the analyzer takes as proof of abandonment never concerns a controller
\* whose own command still runs (analyzer_for over the rows of tasks.rs and
\* session_owners.rs), for any number of generations, restarts and lost answers.
THEOREM ReleasedEvidence == Spec => []ReleasedEvidenceIsSound
<1>1. EvidenceInv => ReleasedEvidenceIsSound
  BY DEF EvidenceInv, FrozenSound, ReleasedEvidenceIsSound, ChildAlive
<1> QED
  BY <1>1, EvidenceInvariant, PTL
=============================================================================
