------------------------ MODULE ProcessCleanupProofs ------------------------
(***************************************************************************)
(* Proofs about ProcessCleanup. CleanupInv is the inductive invariant: the *)
(* types, where the worker stands (ControlInv), which signals were sent    *)
(* and under which row (SignalInv), the artifact (ArtifactInv), the gate   *)
(* and its epochs (AuthorityInv) and the evidence a step rests on          *)
(* (EvidenceInv). The effect lemmas say once what each step of the worker  *)
(* does to its locals; every part of the invariant is then shown to be     *)
(* preserved action by action.                                             *)
(***************************************************************************)
EXTENDS ProcessCleanup, TLAPS

\* What the operator and the rest of the daemon do to the worker's authority.
OperatorStep ==
    \/ Arm \/ (\E fails \in BOOLEAN : CloseGate(fails)) \/ PolicyMoves \/ Cancel \/ ResolveBlock

\* The steps of signal() and of the loop around it.
Signalling == {"loop", "prepared", "checked", "effected"}

\* Where the worker is: no target is attempted when no stage runs, it holds a
\* result only between the executor's return and the settlement, and the
\* attempt it works for is open and not blocked.
ControlInv ==
    /\ pc \in {"idle", "begin", "return", "err", "joinable"} => frame.attempted = {}
    /\ pc # "return" => result = "none"
    /\ pc \in Executing \cup {"return"} => attempt = "open"
    /\ attempt = "open" => ~retryBlock
    /\ ~up => pc = "idle"
    /\ pc = "effected" => frame.disp \in SignalDispositions

\* No process is signalled twice with the same signal, KILL only follows an
\* attempted TERM, and the row of the action at hand is PREPARED.
SignalInv ==
    /\ pc = "begin" => delivered = {}
    /\ \A t \in frame.attempted : <<t, "term">> \in delivered \/ os[t] # "alive"
    /\ pc \in Signalling =>
          /\ frame.todo \subseteq plan
          /\ \A t \in frame.todo : <<t, SignalOf(frame.stage)>> \notin delivered
          /\ frame.stage # "kill" =>
                \A t \in Targets : /\ <<t, "kill">> \notin delivered
                                   /\ <<t, "term">> \in delivered =>
                                         \/ t \in frame.attempted
                                         \/ pc # "loop" /\ t = frame.current
    /\ pc \in {"prepared", "checked", "effected"} =>
          /\ frame.current \in plan \ frame.todo
          /\ rows[Row] = "prepared"
          /\ frame.stage = "kill" => frame.current \in frame.attempted
    /\ pc \in {"prepared", "checked"} => Row \notin delivered
    /\ pc = "effected" =>
          /\ Row \in delivered => frame.disp \in {"delivered", "delivery_unknown"}
          /\ frame.after = "next" /\ Row \notin delivered => os[frame.current] # "alive"

\* An artifact is removed once, by the action whose row is PREPARED, and only
\* the one that was frozen.
ArtifactInv ==
    /\ pc \in Executing \ {"artifact_effected", "post"} => ~unlinked
    /\ pc \in {"artifact_prepared", "artifact_effected"} => artRow = "prepared"
    /\ pc = "artifact_effected" /\ unlinked => frame.disp \in {"removed", "delivery_unknown"}
    /\ unlinked => artFrozen = "exact" /\ artRow \in {"prepared", "removed", "delivery_unknown"}

\* Who may signal: a failed or stopped daemon has no gate, and an epoch that
\* was revoked is never minted again.
AuthorityInv ==
    /\ armed <= minted /\ frozen <= minted
    /\ revoked => armed = 0 \/ armed > frozen
    /\ failedInst \/ ~up => armed = 0
    /\ pc = "joinable" => failedInst
    /\ UnresolvedAttemptIsFenced

\* The facts an action rests on, and the absence a verdict rests on.
EvidenceInv ==
    /\ pc = "prepared" /\ Eligible => fresh
    /\ pc = "checked" => fresh
    /\ result = "cleared" => Alive = {}
    /\ ClearedMeansGone

\* The inductive invariant.
CleanupInv == /\ TypeOK /\ ControlInv /\ SignalInv /\ ArtifactInv /\ AuthorityInv /\ EvidenceInv
              /\ KillAfterTerm /\ JournalCoversEffects

\* The type invariant in four parts.
JournalTypes ==
    /\ rows \in [Targets \X Signals -> SignalDispositions \cup {"none", "prepared"}]
    /\ delivered \in SUBSET (Targets \X Signals)
FlagTypes ==
    /\ drift \in BOOLEAN /\ revived \in BOOLEAN /\ up \in BOOLEAN /\ failedInst \in BOOLEAN
    /\ policyMoved \in BOOLEAN /\ cancelled \in BOOLEAN /\ retryBlock \in BOOLEAN
    /\ unlinked \in BOOLEAN /\ revoked \in BOOLEAN /\ fresh \in BOOLEAN
PlaceTypes ==
    /\ os \in [Targets -> {"alive", "gone", "reused"}]
    /\ disk \in {"absent", "exact", "other"}
    /\ pc \in Executing \cup {"idle", "return", "err", "joinable"}
    /\ result \in {"none", "cleared", "failed", "revived", "residue", "runtime", "open"}
    /\ plan \subseteq Targets
    /\ artFrozen \in {"absent", "exact", "unsafe"}
    /\ attempt \in {"none", "open", "cleared", "failed", "revived", "residue"}
    /\ artRow \in ArtifactDispositions \cup {"none", "prepared"}
    /\ {armed, frozen, minted} \subseteq 0..MaxEpochs /\ attempts \in 0..MaxAttempts
    /\ machine \in Machines

-----------------------------------------------------------------------------
\* A write to the store succeeds or fails.
LEMMA StoreOutcomes == StoreOutcome \subseteq BOOLEAN
BY DEF StoreOutcome

\* The locals of a fresh execute() are well formed, and the bounds are numbers.
LEMMA MachineTypes ==
    ASSUME machine \in Machines
    PROVE  /\ NoFrame \in Frame /\ NoFrame.attempted = {}
           /\ RevivalWindows \in Nat \ {0} /\ MaxEpochs \in Nat /\ MaxAttempts \in Nat
BY CleanupConstants DEF NoFrame, Frame, Targets, Controllers, BrowserRoots, RevivalWindows,
   MaxEpochs, MaxAttempts

\* The frozen identities and the bounds never change.
LEMMA MachineFixed ==
    ASSUME UNCHANGED machine
    PROVE  /\ UNCHANGED <<Targets, Frame, RevivalWindows, MaxEpochs, MaxAttempts>>
           /\ UNCHANGED <<Controllers, BrowserRoots, HasArtifact>>
BY DEF Frame, Targets, Controllers, BrowserRoots, RevivalWindows, MaxEpochs, MaxAttempts, HasArtifact

\* A lookup of every frozen pid by itself leaves nothing to the process table.
LEMMA SurvivorsAreAlive ==
    ASSUME NEW listed \in SUBSET Alive
    PROVE  Survivors(listed) = Alive
BY DEF Survivors

\* What a delivery under the gate may report, and what that says.
LEMMA SignalOutcomes ==
    ASSUME TypeOK, NEW o \in ExactOutcomes
    PROVE  \/ /\ \E d \in {"delivered", "delivery_unknown"} : o = <<d, TRUE>>
              /\ ~ShouldStop /\ os[frame.current] = "alive"
           \/ \E d \in SignalDispositions \ {"delivered"} :
                 o = <<d, FALSE>> /\ (d = "already_exited" => os[frame.current] # "alive")
<1>1. os[frame.current] \in {"alive", "gone", "reused"}
  BY DEF TypeOK, Frame
<1>2. CASE ShouldStop
  <2>1. o = <<"cancelled", FALSE>>
    BY <1>2 DEF ExactOutcomes
  <2> QED
    BY <2>1 DEF SignalDispositions
<1>3. CASE ~ShouldStop /\ os[frame.current] = "alive"
  <2>1. \/ o = <<"rejected", FALSE>> \/ o = <<"delivery_unknown", FALSE>>
        \/ o = <<"delivered", TRUE>> \/ o = <<"delivery_unknown", TRUE>>
    BY <1>3 DEF ExactOutcomes
  <2>2. CASE o = <<"rejected", FALSE>>
    BY <2>2 DEF SignalDispositions
  <2>3. CASE o = <<"delivery_unknown", FALSE>>
    BY <2>3 DEF SignalDispositions
  <2>4. CASE o = <<"delivered", TRUE>> \/ o = <<"delivery_unknown", TRUE>>
    BY <1>3, <2>4
  <2> QED
    BY <2>1, <2>2, <2>3, <2>4
<1>4. CASE ~ShouldStop /\ os[frame.current] # "alive"
  BY <1>1, <1>4 DEF ExactOutcomes, SignalDispositions
<1> QED
  BY <1>2, <1>3, <1>4

\* What a removal under the gate may report, and what that says.
LEMMA RemovalReports ==
    ASSUME TypeOK, NEW o \in RemovalOutcomes
    PROVE  \/ /\ \E d \in {"removed", "delivery_unknown"} : o = <<d, TRUE>>
              /\ ~ShouldStop /\ artFrozen = "exact"
           \/ \E d \in ArtifactDispositions \cup SignalDispositions \cup {"none"} : o = <<d, FALSE>>
<1>1. frame.disp \in ArtifactDispositions \cup SignalDispositions \cup {"none"}
  BY DEF TypeOK, Frame
<1>2. CASE ShouldStop \/ artFrozen # "exact"
  BY <1>1, <1>2 DEF RemovalOutcomes, ArtifactDispositions
<1>3. CASE ~ShouldStop /\ artFrozen = "exact"
  BY <1>3 DEF RemovalOutcomes, ArtifactDispositions, TypeOK
<1> QED
  BY <1>2, <1>3

\* Settling an action changes only its disposition and what follows it.
LEMMA SettledFrame ==
    ASSUME TypeOK, NEW d \in SignalDispositions, NEW a \in {"next", "failed", "runtime"},
           Settled(d, a)
    PROVE  /\ pc' = "effected" /\ result' = result /\ frame' \in Frame
           /\ frame'.disp = d /\ frame'.after = a
           /\ frame'.stage = frame.stage /\ frame'.todo = frame.todo
           /\ frame'.current = frame.current /\ frame'.attempted = frame.attempted
BY DEF Settled, Go, TypeOK, Frame

\* The recheck of a PREPARED action goes on only with a live target and facts
\* that support the plan.
LEMMA RecheckEffect ==
    ASSUME TypeOK, RecheckAction
    PROVE  /\ pc = "prepared" /\ result' = result /\ frame' \in Frame
           /\ frame'.stage = frame.stage /\ frame'.todo = frame.todo
           /\ frame'.current = frame.current /\ frame'.attempted = frame.attempted
           /\ \/ pc' = "checked" /\ frame.current \in Alive /\ Eligible
              \/ /\ pc' = "effected"
                 /\ frame'.disp \in SignalDispositions \ {"delivered", "delivery_unknown"}
                 /\ frame'.after = "next" => frame.current \notin Alive
           /\ UNCHANGED <<world, authority, durable, history, plan, frozen, artFrozen>>
<1> USE DEF SignalDispositions
<1>1. CASE \E d \in {"cancelled", "rejected", "identity_mismatch"}, a \in {"failed", "runtime"} :
             Settled(d, a)
  BY <1>1, SettledFrame DEF RecheckAction
<1>2. ASSUME NEW listed \in SUBSET Alive, StageValid(listed), frame.current \in Survivors(listed),
             Go("checked", frame)
      PROVE  pc' = "checked" /\ frame.current \in Alive /\ Eligible /\ frame' = frame /\ result' = result
  BY <1>2, SurvivorsAreAlive DEF StageValid, Go
<1>3. ASSUME NEW listed \in SUBSET Alive, frame.current \notin Survivors(listed),
             Settled("already_exited", "next")
      PROVE  frame.current \notin Alive
  BY <1>3, SurvivorsAreAlive
<1>4. \/ \E d \in {"cancelled", "rejected", "identity_mismatch"}, a \in {"failed", "runtime"} :
             Settled(d, a)
      \/ \E listed \in SUBSET Alive :
            StageValid(listed) /\ frame.current \in Survivors(listed) /\ Go("checked", frame)
      \/ \E listed \in SUBSET Alive :
            frame.current \notin Survivors(listed) /\ Settled("already_exited", "next")
  BY DEF RecheckAction
<1>5. /\ pc = "prepared" /\ frame \in Frame
      /\ UNCHANGED <<world, authority, durable, history, plan, frozen, artFrozen>>
  BY DEF RecheckAction, TypeOK
<1> QED
  BY <1>1, <1>2, <1>3, <1>4, <1>5, SettledFrame

\* A delivery, with what reached the process.
LEMMA SignalEffect ==
    ASSUME TypeOK, SignalExact
    PROVE  /\ pc = "checked" /\ pc' = "effected" /\ result' = result /\ frame' \in Frame
           /\ frame'.stage = frame.stage /\ frame'.todo = frame.todo
           /\ frame'.current = frame.current /\ frame'.attempted = frame.attempted
           /\ frame'.disp \in SignalDispositions
           /\ \/ /\ delivered' = delivered
                 /\ frame'.after = "next" => os[frame.current] # "alive"
              \/ /\ delivered' = delivered \cup {Row}
                 /\ ~ShouldStop /\ os[frame.current] = "alive"
                 /\ frame'.disp \in {"delivered", "delivery_unknown"}
           /\ UNCHANGED <<world, authority, durable, plan, frozen, artFrozen, minted, attempts,
                          unlinked, revoked, fresh>>
<1>1. PICK o \in ExactOutcomes :
         /\ Settled(o[1], IF o[1] \in {"delivered", "already_exited"} THEN "next" ELSE "failed")
         /\ delivered' = IF o[2] THEN delivered \cup {Row} ELSE delivered
  BY DEF SignalExact
<1>2. /\ pc = "checked"
      /\ UNCHANGED <<world, authority, durable, plan, frozen, artFrozen, minted, attempts,
                     unlinked, revoked, fresh>>
  BY DEF SignalExact
<1>3. CASE /\ \E d \in {"delivered", "delivery_unknown"} : o = <<d, TRUE>>
           /\ ~ShouldStop /\ os[frame.current] = "alive"
  <2>1. o[1] \in {"delivered", "delivery_unknown"} /\ o[2] = TRUE
    BY <1>3
  <2>2. delivered' = delivered \cup {Row}
    BY <1>1, <2>1
  <2> QED
    BY <1>1, <1>2, <1>3, <2>1, <2>2, SettledFrame DEF SignalDispositions
<1>4. ASSUME NEW d \in SignalDispositions \ {"delivered"}, o = <<d, FALSE>>,
             d = "already_exited" => os[frame.current] # "alive"
      PROVE  /\ pc' = "effected" /\ result' = result /\ frame' \in Frame
             /\ frame'.stage = frame.stage /\ frame'.todo = frame.todo
             /\ frame'.current = frame.current /\ frame'.attempted = frame.attempted
             /\ frame'.disp \in SignalDispositions
             /\ delivered' = delivered
             /\ frame'.after = "next" => os[frame.current] # "alive"
  <2>1. o[1] = d /\ o[2] = FALSE
    BY <1>4
  <2>2. delivered' = delivered
    BY <1>1, <2>1
  <2> QED
    BY <1>1, <1>4, <2>1, <2>2, SettledFrame
<1> QED
  BY <1>2, <1>3, <1>4, SignalOutcomes

\* A removal, with what really left the disk.
LEMMA RemovalEffect ==
    ASSUME TypeOK, RemoveArtifact
    PROVE  /\ pc = "artifact_prepared" /\ pc' = "artifact_effected" /\ result' = result
           /\ frame' \in Frame /\ frame'.attempted = frame.attempted
           /\ \/ unlinked' = unlinked /\ disk' = disk
              \/ /\ unlinked' = TRUE /\ disk' = "absent"
                 /\ ~ShouldStop /\ artFrozen = "exact"
                 /\ frame'.disp \in {"removed", "delivery_unknown"}
           /\ UNCHANGED <<os, drift, revived, authority, durable, plan, frozen, artFrozen,
                          minted, attempts, delivered, revoked, fresh>>
<1>1. PICK o \in RemovalOutcomes :
         /\ Go("artifact_effected", [frame EXCEPT !.disp = o[1]])
         /\ unlinked' = (unlinked \/ o[2])
         /\ disk' = IF o[2] THEN "absent" ELSE disk
  BY DEF RemoveArtifact
<1>2. /\ pc = "artifact_prepared" /\ frame \in Frame /\ unlinked \in BOOLEAN
      /\ UNCHANGED <<os, drift, revived, authority, durable, plan, frozen, artFrozen,
                     minted, attempts, delivered, revoked, fresh>>
  BY DEF RemoveArtifact, TypeOK
<1>3. ASSUME o[1] \in ArtifactDispositions \cup SignalDispositions \cup {"none"}
      PROVE  /\ pc' = "artifact_effected" /\ result' = result /\ frame' \in Frame
             /\ frame'.attempted = frame.attempted /\ frame'.disp = o[1]
  BY <1>1, <1>2, <1>3 DEF Go, Frame
<1>4. CASE /\ \E d \in {"removed", "delivery_unknown"} : o = <<d, TRUE>>
           /\ ~ShouldStop /\ artFrozen = "exact"
  <2>1. o[1] \in {"removed", "delivery_unknown"} /\ o[2] = TRUE
    BY <1>4
  <2>2. unlinked' = TRUE /\ disk' = "absent"
    BY <1>1, <2>1
  <2> QED
    BY <1>2, <1>3, <1>4, <2>1, <2>2 DEF ArtifactDispositions
<1>5. ASSUME NEW d \in ArtifactDispositions \cup SignalDispositions \cup {"none"}, o = <<d, FALSE>>
      PROVE  /\ unlinked' = unlinked /\ disk' = disk
             /\ o[1] \in ArtifactDispositions \cup SignalDispositions \cup {"none"}
  <2>1. o[1] = d /\ o[2] = FALSE
    BY <1>5
  <2> QED
    BY <1>1, <1>2, <2>1
<1> QED
  BY <1>2, <1>3, <1>4, <1>5, RemovalReports

\* A stage ends: it returns, goes on to the next one with the live targets, or
\* finds none and waits for a revival.
LEMMA GraceEffect ==
    ASSUME TypeOK, GraceEnds
    PROVE  /\ pc = "loop" /\ frame' \in Frame
           /\ \/ /\ pc' = "return" /\ result' \in {"runtime", "failed"} /\ frame' = NoFrame
              \/ /\ pc' \in {"loop", "windows"} /\ result' = result
                 /\ frame'.attempted = frame.attempted
                 /\ pc' = "loop" => /\ frame.stage # "kill"
                                    /\ frame'.stage = NextStage[frame.stage]
                                    /\ frame'.todo = StageTargets(frame'.stage, Alive, frame.attempted)
           /\ UNCHANGED <<world, authority, durable, history, plan, frozen, artFrozen>>
<1>1. /\ pc = "loop" /\ frame \in Frame /\ NoFrame \in Frame /\ Alive \subseteq Targets
      /\ UNCHANGED <<world, authority, durable, history, plan, frozen, artFrozen>>
  BY MachineTypes DEF GraceEnds, TypeOK, Alive
<1>2. CASE \E r \in {"runtime", "failed"} : Return(r)
  BY <1>1, <1>2 DEF Return
<1>3. CASE Go("windows", frame)
  BY <1>1, <1>3 DEF Go
<1>4. ASSUME NEW listed \in SUBSET Alive, frame.stage # "kill",
             StartStage(NextStage[frame.stage], Survivors(listed))
      PROVE  /\ frame' \in Frame
             /\ pc' \in {"loop", "windows"} /\ result' = result
             /\ frame'.attempted = frame.attempted
             /\ frame'.stage = NextStage[frame.stage]
             /\ frame'.todo = StageTargets(frame'.stage, Alive, frame.attempted)
  <2>1. NextStage[frame.stage] \in {"member", "kill"}
    BY <1>1, <1>4 DEF Frame, NextStage
  <2>2. Survivors(listed) = Alive
    BY SurvivorsAreAlive
  <2>3. StageTargets(NextStage[frame.stage], Alive, frame.attempted) \in SUBSET Targets
    BY <1>1, <2>1 DEF StageTargets
  <2> QED
    BY <1>1, <1>4, <2>1, <2>2, <2>3 DEF StartStage, Go, Frame
<1>5. \/ \E r \in {"runtime", "failed"} : Return(r)
      \/ Go("windows", frame)
      \/ \E listed \in SUBSET Alive : /\ frame.stage # "kill"
                                      /\ StartStage(NextStage[frame.stage], Survivors(listed))
  BY DEF GraceEnds
<1> QED
  BY <1>1, <1>2, <1>3, <1>4, <1>5

\* A revival window ends: the tree is called gone only when nothing of it lives.
LEMMA WindowEffect ==
    ASSUME TypeOK, RevivalWindow
    PROVE  /\ pc = "windows" /\ frame' \in Frame
           /\ \/ /\ pc' = "return" /\ frame' = NoFrame
                 /\ result' \in {"runtime", "failed", "revived", "cleared"}
                 /\ result' = "cleared" => Alive = {}
              \/ /\ pc' \in {"windows", "artifact"} /\ result' = result
                 /\ frame'.attempted = frame.attempted
           /\ UNCHANGED <<world, authority, durable, history, plan, frozen, artFrozen>>
<1>1. /\ pc = "windows" /\ frame \in Frame /\ NoFrame \in Frame
      /\ RevivalWindows \in Nat /\ frame.window \in 0..RevivalWindows
      /\ UNCHANGED <<world, authority, durable, history, plan, frozen, artFrozen>>
  BY MachineTypes DEF RevivalWindow, TypeOK, Frame
<1>2. CASE \E r \in {"runtime", "failed", "revived"} : Return(r)
  BY <1>1, <1>2 DEF Return
<1>3. CASE Return("cleared") /\ Alive = {}
  BY <1>1, <1>3 DEF Return
<1>4. CASE Go("artifact", frame)
  BY <1>1, <1>4 DEF Go
<1>5. CASE frame.window + 1 < RevivalWindows /\ Go("windows", [frame EXCEPT !.window = @ + 1])
  BY <1>1, <1>5 DEF Go, Frame
<1>6. ASSUME NEW listed \in SUBSET Alive, NEW status \in RevivalStatus(listed)
      PROVE  /\ Verdict(listed, status) \in {"revived", "failed", "gone"}
             /\ Verdict(listed, status) = "gone" => Alive = {}
  BY SurvivorsAreAlive DEF Verdict, RevivalStatus
<1>7. ASSUME NEW listed \in SUBSET Alive, NEW status \in RevivalStatus(listed),
             CASE status = "gone" -> Go("windows", [frame EXCEPT !.window = @ + 1])
               [] status = "revived" -> Return("revived")
               [] status = "blocked" -> Return("failed")
      PROVE  \/ Go("windows", [frame EXCEPT !.window = @ + 1])
             \/ \E r \in {"runtime", "failed", "revived"} : Return(r)
  <2>1. status \in {"gone", "revived", "blocked"}
    BY DEF RevivalStatus
  <2> QED
    BY <1>7, <2>1
<1>8. \/ \E r \in {"runtime", "failed", "revived"} : Return(r)
      \/ Return("cleared") /\ Alive = {}
      \/ Go("artifact", frame)
      \/ frame.window + 1 < RevivalWindows /\ Go("windows", [frame EXCEPT !.window = @ + 1])
  BY <1>6, <1>7 DEF RevivalWindow
<1> QED
  BY <1>1, <1>2, <1>3, <1>4, <1>5, <1>8

\* A completed action: its row gets the disposition, and a TERM that went on
\* counts as attempted.
LEMMA CompleteEffect ==
    ASSUME TypeOK, CompleteAction
    PROVE  /\ pc = "effected" /\ frame' \in Frame
           /\ rows' = [rows EXCEPT ![Row] = frame.disp]
           /\ \/ /\ pc' = "return" /\ result' \in {"failed", "runtime"} /\ frame' = NoFrame
              \/ /\ pc' = "loop" /\ result' = result /\ frame.after = "next"
                 /\ frame'.stage = frame.stage /\ frame'.todo = frame.todo
                 /\ frame'.attempted = IF frame.stage = "kill" THEN frame.attempted
                                       ELSE frame.attempted \cup {frame.current}
           /\ UNCHANGED <<world, authority, plan, frozen, artFrozen, attempt, artRow, retryBlock,
                          minted, attempts, delivered, unlinked, revoked>>
<1>1. /\ pc = "effected" /\ frame \in Frame /\ NoFrame \in Frame
      /\ rows' = [rows EXCEPT ![Row] = frame.disp]
      /\ UNCHANGED <<world, authority, plan, frozen, artFrozen, attempt, artRow, retryBlock,
                     minted, attempts, delivered, unlinked, revoked>>
  BY MachineTypes DEF CompleteAction, TypeOK
<1>2. CASE frame.after = "next"
  <2> DEFINE a == IF frame.stage = "kill" THEN frame.attempted
                  ELSE frame.attempted \cup {frame.current}
  <2>1. Go("loop", [frame EXCEPT !.disp = "none", !.attempted = a])
    BY <1>2 DEF CompleteAction
  <2>2. a \in SUBSET Targets
    BY <1>1 DEF Frame
  <2> HIDE DEF a
  <2>3. /\ pc' = "loop" /\ result' = result /\ frame' \in Frame
        /\ frame'.stage = frame.stage /\ frame'.todo = frame.todo /\ frame'.attempted = a
    BY <1>1, <2>1, <2>2 DEF Go, Frame
  <2> QED
    BY <1>1, <1>2, <2>3 DEF a
<1>3. CASE frame.after # "next"
  <2>1. Return(frame.after) /\ frame.after \in {"failed", "runtime"}
    BY <1>1, <1>3 DEF CompleteAction, Frame
  <2> QED
    BY <1>1, <2>1 DEF Return
<1> QED
  BY <1>2, <1>3

\* The first observation: the primary targets are live ones.
LEMMA StartEffect ==
    ASSUME TypeOK, Start
    PROVE  /\ pc = "begin" /\ frame' \in Frame
           /\ artFrozen' \in {"absent", "exact", "unsafe"}
           /\ \/ pc' = "return" /\ result' \in {"runtime", "failed"} /\ frame' = NoFrame
              \/ /\ pc' \in {"loop", "windows"} /\ result' = result
                 /\ frame'.stage = "primary" /\ frame'.todo \subseteq Alive
                 /\ frame'.attempted = frame.attempted
           /\ UNCHANGED <<world, authority, durable, history, plan, frozen>>
<1>1. /\ pc = "begin" /\ frame \in Frame /\ NoFrame \in Frame /\ Alive \subseteq Targets
      /\ UNCHANGED <<world, authority, durable, history, plan, frozen>>
      /\ artFrozen' \in {"absent", "exact", "unsafe"}
  BY MachineTypes DEF Start, TypeOK, Alive
<1>2. CASE \E r \in {"runtime", "failed"} : Return(r)
  BY <1>1, <1>2 DEF Return
<1>3. ASSUME NEW listed \in SUBSET Alive, StartStage("primary", Survivors(listed))
      PROVE  /\ frame' \in Frame /\ pc' \in {"loop", "windows"} /\ result' = result
             /\ frame'.stage = "primary" /\ frame'.todo \subseteq Alive
             /\ frame'.attempted = frame.attempted
  <2>1. Survivors(listed) = Alive
    BY SurvivorsAreAlive
  <2>2. StageTargets("primary", Alive, frame.attempted) \subseteq Alive
    BY DEF StageTargets
  <2> QED
    BY <1>1, <1>3, <2>1, <2>2 DEF StartStage, Go, Frame
<1>4. \/ \E r \in {"runtime", "failed"} : Return(r)
      \/ \E listed \in SUBSET Alive : StartStage("primary", Survivors(listed))
  BY DEF Start
<1> QED
  BY <1>1, <1>2, <1>3, <1>4

\* An action is journalled before it is taken, KILL only for an attempted TERM.
LEMMA PrepareEffect ==
    ASSUME TypeOK, NEW t \in Targets, PrepareAction(t)
    PROVE  /\ pc = "loop" /\ t \in frame.todo /\ frame' \in Frame
           /\ \/ /\ pc' = "return" /\ result' \in {"runtime", "failed"} /\ frame' = NoFrame
                 /\ rows' = rows
              \/ /\ pc' = "prepared" /\ result' = result
                 /\ rows' = [rows EXCEPT ![<<t, SignalOf(frame.stage)>>] = "prepared"]
                 /\ frame'.stage = frame.stage /\ frame'.todo = frame.todo \ {t}
                 /\ frame'.current = t /\ frame'.attempted = frame.attempted
                 /\ frame.stage = "kill" => t \in frame.attempted
                 /\ fresh' = Eligible
           /\ UNCHANGED <<world, authority, plan, frozen, artFrozen, attempt, artRow, retryBlock,
                          minted, attempts, delivered, unlinked, revoked>>
<1>1. frame \in Frame /\ NoFrame \in Frame
  BY MachineTypes DEF TypeOK
<1> QED
  BY <1>1 DEF PrepareAction, Return, Go, Frame

\* The executor's locals stay well formed over every step of signal() and execute():
\* what a stage leaves in its loop, the target at hand, the windows done.
LEMMA StepFrame ==
    ASSUME TypeOK, ControlInv, Step, UNCHANGED machine
    PROVE  frame' \in Frame'
<1> USE MachineTypes, MachineFixed DEF TypeOK, world, authority, worker, durable,
         history
<1>1. CASE Start
  BY <1>1, StartEffect
<1>2. ASSUME NEW t \in Targets, PrepareAction(t) PROVE frame' \in Frame'
  BY <1>2, PrepareEffect
<1>3. CASE RecheckAction
  BY <1>3, RecheckEffect
<1>4. CASE SignalExact
  BY <1>4, SignalEffect
<1>5. CASE CompleteAction
  BY <1>5, CompleteEffect
<1>6. CASE AttemptLeftOpen
  BY <1>6 DEF AttemptLeftOpen, Executing, Return, Go, Frame, SignalDispositions,
     ArtifactDispositions, SignalOf, Survivors, Alive, StageTargets
<1>7. CASE GraceEnds
  BY <1>7, GraceEffect
<1>8. CASE RevivalWindow
  BY <1>8, WindowEffect
<1>9. CASE PrepareArtifact
  BY <1>9 DEF PrepareArtifact, PrepareArtifactRow, LateArtifact, Executing, Return, Go,
     Frame, SignalDispositions, ArtifactDispositions, SignalOf, Survivors, Alive,
     StageTargets
<1>10. CASE RemoveArtifact
  BY <1>10, RemovalEffect
<1>11. CASE CompleteArtifact
  BY <1>11 DEF CompleteArtifact, CompleteArtifactRow, Executing, Return, Go, Frame,
     SignalDispositions, ArtifactDispositions, SignalOf, Survivors, Alive, StageTargets
<1>12. CASE PostArtifact
  BY <1>12 DEF PostArtifact, RevivalStatus, Verdict, Executing, Return, Go, Frame,
     SignalDispositions, ArtifactDispositions, SignalOf, Survivors, Alive, StageTargets
<1>13. ASSUME NEW ok \in BOOLEAN, SettleAttempt(ok) PROVE frame' \in Frame'
  BY <1>13 DEF SettleAttempt, TerminalState, Executing, Return, Go, Frame,
     SignalDispositions, ArtifactDispositions, SignalOf, Survivors, Alive, StageTargets
<1>14. CASE WorkerFailsClosed
  BY <1>14 DEF WorkerFailsClosed, FailClosed, Executing, Return, Go, Frame,
     SignalDispositions, ArtifactDispositions, SignalOf, Survivors, Alive, StageTargets
<1>15. ASSUME NEW ok \in BOOLEAN, CollectWorker(ok) PROVE frame' \in Frame'
  BY <1>15 DEF CollectWorker, FailClosed, Recover, RecoverRows, Executing, Return, Go,
     Frame, SignalDispositions, ArtifactDispositions, SignalOf, Survivors, Alive,
     StageTargets
<1>16. CASE BeginAttempt
  BY <1>16 DEF BeginAttempt, Executing, Return, Go, Frame, SignalDispositions,
     ArtifactDispositions, SignalOf, Survivors, Alive, StageTargets
<1>17. CASE WorkerPanics
  BY <1>17 DEF WorkerPanics, Executing, Return, Go, Frame, SignalDispositions,
     ArtifactDispositions, SignalOf, Survivors, Alive, StageTargets
<1>18. CASE Crash
  BY <1>18 DEF Crash, Executing, Return, Go, Frame, SignalDispositions,
     ArtifactDispositions, SignalOf, Survivors, Alive, StageTargets
<1>19. CASE Restart
  BY <1>19 DEF Restart, Recover, RecoverRows, Executing, Return, Go, Frame,
     SignalDispositions, ArtifactDispositions, SignalOf, Survivors, Alive, StageTargets
<1>20. CASE OperatorStep
  BY <1>20 DEF OperatorStep, Arm, CloseGate, PolicyMoves, Cancel, ResolveBlock,
     Executing, Return, Go, Frame, SignalDispositions, ArtifactDispositions, SignalOf,
     Survivors, Alive, StageTargets
<1>21. CASE WorldStep
  BY <1>21 DEF WorldStep, ProcessExits, PidReused, FactsChange, FileAppears,
     FileVanishes, Executing, Return, Go, Frame, SignalDispositions,
     ArtifactDispositions, SignalOf, Survivors, Alive, StageTargets
<1> QED
  BY <1>1, <1>2, <1>3, <1>4, <1>5, <1>6, <1>7, <1>8, <1>9, <1>10, <1>11, <1>12, <1>13,
     <1>14, <1>15, <1>16, <1>17, <1>18, <1>19, <1>20, <1>21, StoreOutcomes DEF Step,
     WorkerStep, OperatorStep


\* A step of prepare_action, complete_prepared or recover_incomplete_attempts
\* leaves a journal whose rows are PREPARED or hold a disposition of a signal.
LEMMA StepJournalTypes ==
    ASSUME TypeOK, ControlInv, Step, UNCHANGED machine
    PROVE  JournalTypes'
<1> USE MachineTypes, MachineFixed DEF JournalTypes, TypeOK, ControlInv, Frame,
         SignalDispositions, ArtifactDispositions, Signals, Row, SignalOf, world,
         authority, worker, durable, history
<1>1. CASE Start
  BY <1>1 DEF Start, StageValid, StartStage
<1>2. ASSUME NEW t \in Targets, PrepareAction(t) PROVE JournalTypes'
  BY <1>2 DEF PrepareAction
<1>3. CASE RecheckAction
  BY <1>3 DEF RecheckAction, Settled, StageValid
<1>4. CASE SignalExact
  BY <1>4 DEF SignalExact, Settled, ExactOutcomes
<1>5. CASE CompleteAction
  BY <1>5 DEF CompleteAction
<1>6. CASE AttemptLeftOpen
  BY <1>6 DEF AttemptLeftOpen
<1>7. CASE GraceEnds
  BY <1>7 DEF GraceEnds, StageValid, StartStage, NextStage
<1>8. CASE RevivalWindow
  BY <1>8 DEF RevivalWindow, RevivalStatus, Verdict
<1>9. CASE PrepareArtifact
  BY <1>9 DEF PrepareArtifact, PrepareArtifactRow, LateArtifact
<1>10. CASE RemoveArtifact
  BY <1>10 DEF RemoveArtifact, RemovalOutcomes
<1>11. CASE CompleteArtifact
  BY <1>11 DEF CompleteArtifact, CompleteArtifactRow
<1>12. CASE PostArtifact
  BY <1>12 DEF PostArtifact, RevivalStatus, Verdict
<1>13. ASSUME NEW ok \in BOOLEAN, SettleAttempt(ok) PROVE JournalTypes'
  BY <1>13 DEF SettleAttempt, TerminalState
<1>14. CASE WorkerFailsClosed
  BY <1>14 DEF WorkerFailsClosed, FailClosed
<1>15. ASSUME NEW ok \in BOOLEAN, CollectWorker(ok) PROVE JournalTypes'
  BY <1>15 DEF CollectWorker, FailClosed, Recover, RecoverRows
<1>16. CASE BeginAttempt
  BY <1>16 DEF BeginAttempt
<1>17. CASE WorkerPanics
  BY <1>17 DEF WorkerPanics
<1>18. CASE Crash
  BY <1>18 DEF Crash
<1>19. CASE Restart
  BY <1>19 DEF Restart, Recover, RecoverRows
<1>20. CASE OperatorStep
  BY <1>20 DEF OperatorStep, Arm, CloseGate, PolicyMoves, Cancel, ResolveBlock
<1>21. CASE WorldStep
  BY <1>21 DEF WorldStep, ProcessExits, PidReused, FactsChange, FileAppears,
     FileVanishes
<1> QED
  BY <1>1, <1>2, <1>3, <1>4, <1>5, <1>6, <1>7, <1>8, <1>9, <1>10, <1>11, <1>12, <1>13,
     <1>14, <1>15, <1>16, <1>17, <1>18, <1>19, <1>20, <1>21, StoreOutcomes DEF Step,
     WorkerStep, OperatorStep


\* The flags the worker, the operator and the world set stay Boolean.
LEMMA StepFlags ==
    ASSUME TypeOK, ControlInv, Step, UNCHANGED machine
    PROVE  FlagTypes'
<1> USE MachineTypes, MachineFixed DEF FlagTypes, TypeOK, Eligible, world, authority,
         worker, durable, history
<1>1. CASE Start
  BY <1>1 DEF Start, StageValid, StartStage
<1>2. ASSUME NEW t \in Targets, PrepareAction(t) PROVE FlagTypes'
  BY <1>2 DEF PrepareAction
<1>3. CASE RecheckAction
  BY <1>3 DEF RecheckAction, Settled, StageValid
<1>4. CASE SignalExact
  BY <1>4 DEF SignalExact, Settled, ExactOutcomes
<1>5. CASE CompleteAction
  BY <1>5 DEF CompleteAction
<1>6. CASE AttemptLeftOpen
  BY <1>6 DEF AttemptLeftOpen
<1>7. CASE GraceEnds
  BY <1>7 DEF GraceEnds, StageValid, StartStage, NextStage
<1>8. CASE RevivalWindow
  BY <1>8 DEF RevivalWindow, RevivalStatus, Verdict
<1>9. CASE PrepareArtifact
  BY <1>9 DEF PrepareArtifact, PrepareArtifactRow, LateArtifact
<1>10. CASE RemoveArtifact
  BY <1>10 DEF RemoveArtifact, RemovalOutcomes
<1>11. CASE CompleteArtifact
  BY <1>11 DEF CompleteArtifact, CompleteArtifactRow
<1>12. CASE PostArtifact
  BY <1>12 DEF PostArtifact, RevivalStatus, Verdict
<1>13. ASSUME NEW ok \in BOOLEAN, SettleAttempt(ok) PROVE FlagTypes'
  BY <1>13 DEF SettleAttempt, TerminalState
<1>14. CASE WorkerFailsClosed
  BY <1>14 DEF WorkerFailsClosed, FailClosed
<1>15. ASSUME NEW ok \in BOOLEAN, CollectWorker(ok) PROVE FlagTypes'
  BY <1>15 DEF CollectWorker, FailClosed, Recover, RecoverRows
<1>16. CASE BeginAttempt
  BY <1>16 DEF BeginAttempt
<1>17. CASE WorkerPanics
  BY <1>17 DEF WorkerPanics
<1>18. CASE Crash
  BY <1>18 DEF Crash
<1>19. CASE Restart
  BY <1>19 DEF Restart, Recover, RecoverRows
<1>20. CASE OperatorStep
  BY <1>20 DEF OperatorStep, Arm, CloseGate, PolicyMoves, Cancel, ResolveBlock
<1>21. CASE WorldStep
  <2>1. CASE \E t \in Targets : ProcessExits(t) \/ PidReused(t)
    BY <2>1 DEF ProcessExits, PidReused, FlagTypes, TypeOK, authority, durable, history
  <2>2. CASE FactsChange
    BY <2>2 DEF FactsChange, FlagTypes, TypeOK, authority, durable
  <2>3. CASE FileAppears \/ FileVanishes
    BY <2>3 DEF FileAppears, FileVanishes, FlagTypes, TypeOK, authority, durable, history
  <2> QED
    BY <1>21, <2>1, <2>2, <2>3 DEF WorldStep
<1> QED
  BY <1>1, <1>2, <1>3, <1>4, <1>5, <1>6, <1>7, <1>8, <1>9, <1>10, <1>11, <1>12, <1>13,
     <1>14, <1>15, <1>16, <1>17, <1>18, <1>19, <1>20, <1>21, StoreOutcomes DEF Step,
     WorkerStep, OperatorStep


\* Every other variable keeps its type; epochs and attempts keep their bounds.
LEMMA StepPlaces ==
    ASSUME TypeOK, ControlInv, Step, UNCHANGED machine
    PROVE  PlaceTypes'
<1> USE MachineTypes, MachineFixed DEF PlaceTypes, TypeOK, Executing, world, authority,
         worker, durable, history
<1>1. CASE Start
  BY <1>1, StartEffect
<1>2. ASSUME NEW t \in Targets, PrepareAction(t) PROVE PlaceTypes'
  BY <1>2 DEF PrepareAction, ArtifactDispositions, Return, Go, Frame
<1>3. CASE RecheckAction
  BY <1>3, RecheckEffect
<1>4. CASE SignalExact
  BY <1>4, SignalEffect
<1>5. CASE CompleteAction
  BY <1>5, CompleteEffect
<1>6. CASE AttemptLeftOpen
  BY <1>6 DEF AttemptLeftOpen, ArtifactDispositions, Return, Go, Frame
<1>7. CASE GraceEnds
  BY <1>7, GraceEffect
<1>8. CASE RevivalWindow
  BY <1>8, WindowEffect
<1>9. CASE PrepareArtifact
  BY <1>9 DEF PrepareArtifact, PrepareArtifactRow, LateArtifact, ArtifactDispositions,
     Return, Go, Frame
<1>10. CASE RemoveArtifact
  BY <1>10, RemovalEffect
<1>11. CASE CompleteArtifact
  BY <1>11 DEF CompleteArtifact, CompleteArtifactRow, ArtifactDispositions, Return, Go,
     Frame
<1>12. CASE PostArtifact
  BY <1>12 DEF PostArtifact, RevivalStatus, Verdict, ArtifactDispositions, Return, Go,
     Frame
<1>13. ASSUME NEW ok \in BOOLEAN, SettleAttempt(ok) PROVE PlaceTypes'
  BY <1>13 DEF SettleAttempt, TerminalState, ArtifactDispositions, Return, Go, Frame
<1>14. CASE WorkerFailsClosed
  BY <1>14 DEF WorkerFailsClosed, FailClosed, ArtifactDispositions, Return, Go, Frame
<1>15. ASSUME NEW ok \in BOOLEAN, CollectWorker(ok) PROVE PlaceTypes'
  BY <1>15 DEF CollectWorker, FailClosed, Recover, RecoverRows, ArtifactDispositions,
     Return, Go, Frame
<1>16. CASE BeginAttempt
  BY <1>16 DEF BeginAttempt, ArtifactDispositions, Return, Go, Frame
<1>17. CASE WorkerPanics
  BY <1>17 DEF WorkerPanics, ArtifactDispositions, Return, Go, Frame
<1>18. CASE Crash
  BY <1>18 DEF Crash, ArtifactDispositions, Return, Go, Frame
<1>19. CASE Restart
  BY <1>19 DEF Restart, Recover, RecoverRows, ArtifactDispositions, Return, Go, Frame
<1>20. CASE OperatorStep
  BY <1>20 DEF OperatorStep, Arm, CloseGate, PolicyMoves, Cancel, ResolveBlock,
     ArtifactDispositions, Return, Go, Frame
<1>21. CASE WorldStep
  BY <1>21 DEF WorldStep, ProcessExits, PidReused, FactsChange, FileAppears,
     FileVanishes, ArtifactDispositions, Return, Go, Frame
<1> QED
  BY <1>1, <1>2, <1>3, <1>4, <1>5, <1>6, <1>7, <1>8, <1>9, <1>10, <1>11, <1>12, <1>13,
     <1>14, <1>15, <1>16, <1>17, <1>18, <1>19, <1>20, <1>21, StoreOutcomes DEF Step,
     WorkerStep, OperatorStep


\* Control: term_attempted is empty outside a stage, a result exists only between
\* the executor's return and the settlement, a running attempt is open.
LEMMA StepControl ==
    ASSUME TypeOK, ControlInv, Step, UNCHANGED machine
    PROVE  ControlInv'
<1> USE MachineTypes, MachineFixed DEF ControlInv, TypeOK, Executing, world, authority,
         worker, durable, history
<1>1. CASE Start
  BY <1>1, StartEffect
<1>2. ASSUME NEW t \in Targets, PrepareAction(t) PROVE ControlInv'
  BY <1>2, PrepareEffect
<1>3. CASE RecheckAction
  BY <1>3, RecheckEffect
<1>4. CASE SignalExact
  BY <1>4, SignalEffect
<1>5. CASE CompleteAction
  BY <1>5, CompleteEffect
<1>6. CASE AttemptLeftOpen
  BY <1>6 DEF AttemptLeftOpen, Return, Go, Frame
<1>7. CASE GraceEnds
  BY <1>7, GraceEffect
<1>8. CASE RevivalWindow
  BY <1>8, WindowEffect
<1>9. CASE PrepareArtifact
  BY <1>9 DEF PrepareArtifact, PrepareArtifactRow, LateArtifact, Return, Go, Frame
<1>10. CASE RemoveArtifact
  BY <1>10 DEF RemoveArtifact, RemovalOutcomes, Return, Go, Frame
<1>11. CASE CompleteArtifact
  BY <1>11 DEF CompleteArtifact, CompleteArtifactRow, Return, Go, Frame
<1>12. CASE PostArtifact
  BY <1>12 DEF PostArtifact, RevivalStatus, Verdict, Return, Go, Frame
<1>13. ASSUME NEW ok \in BOOLEAN, SettleAttempt(ok) PROVE ControlInv'
  BY <1>13 DEF SettleAttempt, TerminalState, Return, Go, Frame
<1>14. CASE WorkerFailsClosed
  BY <1>14 DEF WorkerFailsClosed, FailClosed, Return, Go, Frame
<1>15. ASSUME NEW ok \in BOOLEAN, CollectWorker(ok) PROVE ControlInv'
  BY <1>15 DEF CollectWorker, FailClosed, Recover, RecoverRows, Return, Go, Frame
<1>16. CASE BeginAttempt
  BY <1>16 DEF BeginAttempt, Return, Go, Frame
<1>17. CASE WorkerPanics
  BY <1>17 DEF WorkerPanics, Return, Go, Frame
<1>18. CASE Crash
  BY <1>18 DEF Crash, Return, Go, Frame
<1>19. CASE Restart
  BY <1>19 DEF Restart, Recover, RecoverRows, Return, Go, Frame
<1>20. CASE OperatorStep
  BY <1>20 DEF OperatorStep, Arm, CloseGate, PolicyMoves, Cancel, ResolveBlock, Return,
     Go, Frame
<1>21. CASE WorldStep
  BY <1>21 DEF WorldStep, ProcessExits, PidReused, FactsChange, FileAppears,
     FileVanishes, Return, Go, Frame
<1> QED
  BY <1>1, <1>2, <1>3, <1>4, <1>5, <1>6, <1>7, <1>8, <1>9, <1>10, <1>11, <1>12, <1>13,
     <1>14, <1>15, <1>16, <1>17, <1>18, <1>19, <1>20, <1>21, StoreOutcomes DEF Step,
     WorkerStep, OperatorStep


\* The signalling invariant is preserved: the stages of execute() and the four steps
\* of signal(), interleaved with exits, reused pids, panics and crashes.
LEMMA StepSignal ==
    ASSUME TypeOK, ControlInv, SignalInv, Step, UNCHANGED machine
    PROVE  SignalInv'
<1> USE MachineTypes, MachineFixed DEF SignalInv, ControlInv, TypeOK, Signalling, Frame,
         Row, SignalOf, StageTargets, Alive, world, authority, worker, durable, history
<1>1. CASE Start
  BY <1>1, StartEffect DEF NextStage
<1>2. ASSUME NEW t \in Targets, PrepareAction(t) PROVE SignalInv'
  <2>1. CASE pc' = "return"
    BY <1>2, <2>1, PrepareEffect DEF SignalInv, Signalling, TypeOK
  <2>2. CASE pc' = "prepared"
    <3>1. /\ frame'.current = t /\ t \in frame.todo /\ frame'.todo = frame.todo \ {t}
          /\ frame'.stage = frame.stage /\ frame'.attempted = frame.attempted
          /\ frame.stage = "kill" => t \in frame.attempted
          /\ UNCHANGED <<delivered, os, plan, Targets>>
          /\ rows' = [rows EXCEPT ![<<t, SignalOf(frame.stage)>>] = "prepared"]
      BY <1>2, <2>2, PrepareEffect DEF world
    <3>2. <<t, SignalOf(frame.stage)>> \in Targets \X Signals
      BY DEF SignalOf, Signals
    <3>3. rows'[Row'] = "prepared"
      BY <3>1, <3>2 DEF TypeOK, Row, SignalOf
    <3>4. pc = "loop"
      BY <1>2, PrepareEffect
    <3>5. /\ t \in plan /\ <<t, SignalOf(frame.stage)>> \notin delivered
          /\ Row' = <<t, SignalOf(frame.stage)>>
      BY <3>1, <3>4 DEF SignalInv, Signalling, Row, SignalOf
    <3>6. /\ frame'.todo \subseteq plan'
          /\ \A x \in frame'.todo : <<x, SignalOf(frame'.stage)>> \notin delivered'
          /\ \A x \in frame'.attempted : <<x, "term">> \in delivered' \/ os'[x] # "alive"
          /\ frame'.stage # "kill" =>
                \A x \in Targets' : /\ <<x, "kill">> \notin delivered'
                                    /\ <<x, "term">> \in delivered' => x \in frame'.attempted
      BY <3>1, <3>4 DEF SignalInv, Signalling, SignalOf
    <3> QED
      BY <2>2, <3>1, <3>3, <3>5, <3>6 DEF SignalInv
  <2> QED
    BY <1>2, <2>1, <2>2, PrepareEffect
<1>3. CASE RecheckAction
  BY <1>3, RecheckEffect DEF NextStage
<1>4. CASE SignalExact
  BY <1>4, SignalEffect DEF NextStage
<1>5. CASE CompleteAction
  BY <1>5, CompleteEffect DEF NextStage
<1>6. CASE AttemptLeftOpen
  BY <1>6 DEF AttemptLeftOpen, Executing, Return, Go, Survivors
<1>7. CASE GraceEnds
  <2>1. CASE pc' = "return"
    BY <1>7, <2>1, GraceEffect DEF SignalInv, Signalling, TypeOK
  <2>2. CASE pc' = "windows"
    BY <1>7, <2>2, GraceEffect DEF SignalInv, Signalling, history, world
  <2>3. CASE pc' = "loop"
    <3>0. Alive \subseteq plan /\ Alive \subseteq Targets
      BY DEF Alive, TypeOK
    <3>1. /\ frame'.stage \in {"member", "kill"} /\ frame'.stage = NextStage[frame.stage]
          /\ frame.stage \in {"primary", "member"}
          /\ frame'.todo = StageTargets(frame'.stage, Alive, frame.attempted)
          /\ frame'.attempted = frame.attempted
          /\ UNCHANGED <<delivered, os, plan, Targets>>
      BY <1>7, <2>3, GraceEffect DEF NextStage, TypeOK, Frame, world, history
    <3>2. \A t \in Targets : /\ <<t, "kill">> \notin delivered
                             /\ <<t, "term">> \in delivered => t \in frame.attempted
      BY <1>7, <3>1, GraceEffect DEF SignalInv, Signalling
    <3>3. /\ frame'.todo \subseteq plan
          /\ \A x \in frame'.todo : <<x, SignalOf(frame'.stage)>> \notin delivered
      <4>1. CASE frame'.stage = "member"
        <5>1. frame'.todo = Alive \ frame.attempted /\ SignalOf(frame'.stage) = "term"
          BY <3>1, <4>1 DEF StageTargets, SignalOf
        <5> QED
          BY <3>0, <3>2, <5>1
      <4>2. CASE frame'.stage = "kill"
        <5>1. frame'.todo = Alive /\ SignalOf(frame'.stage) = "kill"
          BY <3>1, <4>2 DEF StageTargets, SignalOf
        <5> QED
          BY <3>0, <3>2, <5>1
      <4> QED
        BY <3>1, <4>1, <4>2
    <3>4. \A x \in frame.attempted : <<x, "term">> \in delivered \/ os[x] # "alive"
      BY DEF SignalInv
    <3>5. /\ \A x \in frame'.attempted : <<x, "term">> \in delivered' \/ os'[x] # "alive"
          /\ frame'.todo \subseteq plan'
          /\ \A x \in frame'.todo : <<x, SignalOf(frame'.stage)>> \notin delivered'
          /\ \A x \in Targets' : /\ <<x, "kill">> \notin delivered'
                                 /\ <<x, "term">> \in delivered' => x \in frame'.attempted
      BY <3>1, <3>2, <3>3, <3>4
    <3> QED
      BY <2>3, <3>5 DEF SignalInv, SignalOf
  <2> QED
    BY <1>7, <2>1, <2>2, <2>3, GraceEffect
<1>8. CASE RevivalWindow
  BY <1>8, WindowEffect DEF NextStage
<1>9. CASE PrepareArtifact
  BY <1>9 DEF PrepareArtifact, PrepareArtifactRow, LateArtifact, Executing, Return, Go,
     Survivors
<1>10. CASE RemoveArtifact
  BY <1>10, RemovalEffect DEF NextStage
<1>11. CASE CompleteArtifact
  BY <1>11 DEF CompleteArtifact, CompleteArtifactRow, Executing, Return, Go, Survivors
<1>12. CASE PostArtifact
  BY <1>12 DEF PostArtifact, RevivalStatus, Verdict, Executing, Return, Go, Survivors
<1>13. ASSUME NEW ok \in BOOLEAN, SettleAttempt(ok) PROVE SignalInv'
  BY <1>13 DEF SettleAttempt, TerminalState, Executing, Return, Go, Survivors
<1>14. CASE WorkerFailsClosed
  BY <1>14 DEF WorkerFailsClosed, FailClosed, Executing, Return, Go, Survivors
<1>15. ASSUME NEW ok \in BOOLEAN, CollectWorker(ok) PROVE SignalInv'
  BY <1>15 DEF CollectWorker, FailClosed, Recover, RecoverRows, Executing, Return, Go,
     Survivors
<1>16. CASE BeginAttempt
  BY <1>16 DEF BeginAttempt, Executing, Return, Go, Survivors
<1>17. CASE WorkerPanics
  BY <1>17 DEF WorkerPanics, Executing, Return, Go, Survivors
<1>18. CASE Crash
  BY <1>18 DEF Crash, Executing, Return, Go, Survivors
<1>19. CASE Restart
  BY <1>19 DEF Restart, Recover, RecoverRows, Executing, Return, Go, Survivors
<1>20. CASE OperatorStep
  BY <1>20 DEF OperatorStep, Arm, CloseGate, PolicyMoves, Cancel, ResolveBlock,
     Executing, Return, Go, Survivors
<1>21. CASE WorldStep
  BY <1>21 DEF WorldStep, ProcessExits, PidReused, FactsChange, FileAppears,
     FileVanishes, Executing, Return, Go, Survivors
<1> QED
  BY <1>1, <1>2, <1>3, <1>4, <1>5, <1>6, <1>7, <1>8, <1>9, <1>10, <1>11, <1>12, <1>13,
     <1>14, <1>15, <1>16, <1>17, <1>18, <1>19, <1>20, <1>21, StoreOutcomes DEF Step,
     WorkerStep, OperatorStep


\* KILL after TERM, and the journal that covers what was delivered, are preserved:
\* delivered grows only under a PREPARED row, and recovery turns PREPARED into
\* delivery_unknown (recover_incomplete_attempts), never into a denial.
LEMMA StepEffects ==
    ASSUME TypeOK, SignalInv, ArtifactInv, KillAfterTerm, JournalCoversEffects, Step, UNCHANGED machine
    PROVE  KillAfterTerm' /\ JournalCoversEffects'
<1> USE MachineTypes, MachineFixed DEF KillAfterTerm, JournalCoversEffects, SignalInv,
         TypeOK, Frame, Row, SignalOf, world, authority, worker, durable, history
<1>1. CASE Start
  BY <1>1 DEF Start, StageValid, StartStage, ArtifactInv, Executing, Return, Go
<1>2. ASSUME NEW t \in Targets, PrepareAction(t) PROVE KillAfterTerm' /\ JournalCoversEffects'
  BY <1>2 DEF PrepareAction, ArtifactInv, Executing, Return, Go
<1>3. CASE RecheckAction
  BY <1>3 DEF RecheckAction, Settled, StageValid, ArtifactInv, Executing, Return, Go
<1>4. CASE SignalExact
  BY <1>4, SignalEffect
<1>5. CASE CompleteAction
  BY <1>5, CompleteEffect
<1>6. CASE AttemptLeftOpen
  BY <1>6 DEF AttemptLeftOpen, ArtifactInv, Executing, Return, Go
<1>7. CASE GraceEnds
  BY <1>7 DEF GraceEnds, StageValid, StartStage, NextStage, ArtifactInv, Executing,
     Return, Go
<1>8. CASE RevivalWindow
  BY <1>8 DEF RevivalWindow, RevivalStatus, Verdict, ArtifactInv, Executing, Return, Go
<1>9. CASE PrepareArtifact
  BY <1>9 DEF PrepareArtifact, PrepareArtifactRow, LateArtifact, ArtifactInv, Executing,
     Return, Go
<1>10. CASE RemoveArtifact
  BY <1>10 DEF RemoveArtifact, RemovalOutcomes, ArtifactInv, Executing, Return, Go
<1>11. CASE CompleteArtifact
  BY <1>11 DEF CompleteArtifact, CompleteArtifactRow, ArtifactInv, Executing, Return, Go
<1>12. CASE PostArtifact
  BY <1>12 DEF PostArtifact, RevivalStatus, Verdict, ArtifactInv, Executing, Return, Go
<1>13. ASSUME NEW ok \in BOOLEAN, SettleAttempt(ok) PROVE KillAfterTerm' /\ JournalCoversEffects'
  BY <1>13 DEF SettleAttempt, TerminalState, ArtifactInv, Executing, Return, Go
<1>14. CASE WorkerFailsClosed
  BY <1>14 DEF WorkerFailsClosed, FailClosed, ArtifactInv, Executing, Return, Go
<1>15. ASSUME NEW ok \in BOOLEAN, CollectWorker(ok) PROVE KillAfterTerm' /\ JournalCoversEffects'
  BY <1>15 DEF CollectWorker, FailClosed, Recover, RecoverRows, ArtifactInv, Executing,
     Return, Go
<1>16. CASE BeginAttempt
  BY <1>16 DEF BeginAttempt, ArtifactInv, Executing, Return, Go
<1>17. CASE WorkerPanics
  BY <1>17 DEF WorkerPanics, ArtifactInv, Executing, Return, Go
<1>18. CASE Crash
  BY <1>18 DEF Crash, ArtifactInv, Executing, Return, Go
<1>19. CASE Restart
  BY <1>19 DEF Restart, Recover, RecoverRows, ArtifactInv, Executing, Return, Go
<1>20. CASE OperatorStep
  BY <1>20 DEF OperatorStep, Arm, CloseGate, PolicyMoves, Cancel, ResolveBlock,
     ArtifactInv, Executing, Return, Go
<1>21. CASE WorldStep
  BY <1>21 DEF WorldStep, ProcessExits, PidReused, FactsChange, FileAppears,
     FileVanishes, ArtifactInv, Executing, Return, Go
<1> QED
  BY <1>1, <1>2, <1>3, <1>4, <1>5, <1>6, <1>7, <1>8, <1>9, <1>10, <1>11, <1>12, <1>13,
     <1>14, <1>15, <1>16, <1>17, <1>18, <1>19, <1>20, <1>21, StoreOutcomes DEF Step,
     WorkerStep, OperatorStep


\* The artifact is removed at most once, under its PREPARED row, and only when it
\* was frozen exactly (execute_artifact_action).
LEMMA StepArtifact ==
    ASSUME TypeOK, ControlInv, ArtifactInv, Step, UNCHANGED machine
    PROVE  ArtifactInv'
<1> USE MachineTypes, MachineFixed DEF ArtifactInv, Executing, world, authority, worker,
         durable, history
<1>1. CASE Start
  BY <1>1, StartEffect
<1>2. ASSUME NEW t \in Targets, PrepareAction(t) PROVE ArtifactInv'
  BY <1>2, PrepareEffect
<1>3. CASE RecheckAction
  BY <1>3, RecheckEffect
<1>4. CASE SignalExact
  BY <1>4, SignalEffect
<1>5. CASE CompleteAction
  BY <1>5, CompleteEffect
<1>6. CASE AttemptLeftOpen
  BY <1>6 DEF AttemptLeftOpen, ControlInv, TypeOK, Return, Go, Frame
<1>7. CASE GraceEnds
  BY <1>7, GraceEffect
<1>8. CASE RevivalWindow
  BY <1>8, WindowEffect
<1>9. CASE PrepareArtifact
  BY <1>9 DEF PrepareArtifact, PrepareArtifactRow, LateArtifact, ControlInv, TypeOK,
     Return, Go, Frame
<1>10. CASE RemoveArtifact
  <2>1. ~unlinked /\ artRow = "prepared"
    BY <1>10, RemovalEffect DEF ArtifactInv, Executing
  <2>2. /\ pc' = "artifact_effected" /\ UNCHANGED <<artRow, artFrozen>>
    BY <1>10, RemovalEffect DEF durable
  <2>3. CASE unlinked' = unlinked
    BY <2>1, <2>2, <2>3 DEF ArtifactInv
  <2>4. CASE artFrozen = "exact" /\ frame'.disp \in {"removed", "delivery_unknown"}
    BY <2>1, <2>2, <2>4 DEF ArtifactInv
  <2> QED
    BY <1>10, <2>3, <2>4, RemovalEffect
<1>11. CASE CompleteArtifact
  BY <1>11 DEF CompleteArtifact, CompleteArtifactRow, ControlInv, TypeOK, Return, Go,
     Frame
<1>12. CASE PostArtifact
  BY <1>12 DEF PostArtifact, RevivalStatus, Verdict, ControlInv, TypeOK, Return, Go,
     Frame
<1>13. ASSUME NEW ok \in BOOLEAN, SettleAttempt(ok) PROVE ArtifactInv'
  BY <1>13 DEF SettleAttempt, TerminalState, ControlInv, TypeOK, Return, Go, Frame
<1>14. CASE WorkerFailsClosed
  BY <1>14 DEF WorkerFailsClosed, FailClosed, ControlInv, TypeOK, Return, Go, Frame
<1>15. ASSUME NEW ok \in BOOLEAN, CollectWorker(ok) PROVE ArtifactInv'
  BY <1>15 DEF CollectWorker, FailClosed, Recover, RecoverRows, ControlInv, TypeOK,
     Return, Go, Frame
<1>16. CASE BeginAttempt
  BY <1>16 DEF BeginAttempt, ControlInv, TypeOK, Return, Go, Frame
<1>17. CASE WorkerPanics
  BY <1>17 DEF WorkerPanics, ControlInv, TypeOK, Return, Go, Frame
<1>18. CASE Crash
  BY <1>18 DEF Crash, ControlInv, TypeOK, Return, Go, Frame
<1>19. CASE Restart
  BY <1>19 DEF Restart, Recover, RecoverRows, ControlInv, TypeOK, Return, Go, Frame
<1>20. CASE OperatorStep
  BY <1>20 DEF OperatorStep, Arm, CloseGate, PolicyMoves, Cancel, ResolveBlock,
     ControlInv, TypeOK, Return, Go, Frame
<1>21. CASE WorldStep
  BY <1>21 DEF WorldStep, ProcessExits, PidReused, FactsChange, FileAppears,
     FileVanishes, ControlInv, TypeOK, Return, Go, Frame
<1> QED
  BY <1>1, <1>2, <1>3, <1>4, <1>5, <1>6, <1>7, <1>8, <1>9, <1>10, <1>11, <1>12, <1>13,
     <1>14, <1>15, <1>16, <1>17, <1>18, <1>19, <1>20, <1>21, StoreOutcomes DEF Step,
     WorkerStep, OperatorStep


\* Epochs are minted once and a closed gate never opens for an old plan; an attempt
\* with side effects that stays blocked keeps the gate shut (managed_arm_blocker).
LEMMA StepAuthority ==
    ASSUME TypeOK, ControlInv, AuthorityInv, Step, UNCHANGED machine
    PROVE  AuthorityInv'
<1> USE MachineTypes, MachineFixed DEF AuthorityInv, UnresolvedAttemptIsFenced,
         ControlInv, TypeOK, Executing, Return, Go, RequiresFailClose, Uncertain,
         SideEffect, ArmBlocked, world, authority, worker, durable, history
<1>1. CASE Start
  BY <1>1 DEF Start, StageValid, StartStage
<1>2. ASSUME NEW t \in Targets, PrepareAction(t) PROVE AuthorityInv'
  BY <1>2 DEF PrepareAction
<1>3. CASE RecheckAction
  BY <1>3 DEF RecheckAction, Settled, StageValid
<1>4. CASE SignalExact
  BY <1>4 DEF SignalExact, Settled, ExactOutcomes
<1>5. CASE CompleteAction
  BY <1>5 DEF CompleteAction
<1>6. CASE AttemptLeftOpen
  BY <1>6 DEF AttemptLeftOpen
<1>7. CASE GraceEnds
  BY <1>7 DEF GraceEnds, StageValid, StartStage, NextStage
<1>8. CASE RevivalWindow
  BY <1>8 DEF RevivalWindow, RevivalStatus, Verdict
<1>9. CASE PrepareArtifact
  BY <1>9 DEF PrepareArtifact, PrepareArtifactRow, LateArtifact
<1>10. CASE RemoveArtifact
  BY <1>10 DEF RemoveArtifact, RemovalOutcomes
<1>11. CASE CompleteArtifact
  BY <1>11 DEF CompleteArtifact, CompleteArtifactRow
<1>12. CASE PostArtifact
  BY <1>12 DEF PostArtifact, RevivalStatus, Verdict
<1>13. ASSUME NEW ok \in BOOLEAN, SettleAttempt(ok) PROVE AuthorityInv'
  BY <1>13 DEF SettleAttempt, TerminalState
<1>14. CASE WorkerFailsClosed
  BY <1>14 DEF WorkerFailsClosed, FailClosed
<1>15. ASSUME NEW ok \in BOOLEAN, CollectWorker(ok) PROVE AuthorityInv'
  BY <1>15 DEF CollectWorker, FailClosed, Recover, RecoverRows
<1>16. CASE BeginAttempt
  BY <1>16 DEF BeginAttempt
<1>17. CASE WorkerPanics
  BY <1>17 DEF WorkerPanics
<1>18. CASE Crash
  BY <1>18 DEF Crash
<1>19. CASE Restart
  BY <1>19 DEF Restart, Recover, RecoverRows
<1>20. CASE OperatorStep
  BY <1>20 DEF OperatorStep, Arm, CloseGate, PolicyMoves, Cancel, ResolveBlock
<1>21. CASE WorldStep
  BY <1>21 DEF WorldStep, ProcessExits, PidReused, FactsChange, FileAppears,
     FileVanishes
<1> QED
  BY <1>1, <1>2, <1>3, <1>4, <1>5, <1>6, <1>7, <1>8, <1>9, <1>10, <1>11, <1>12, <1>13,
     <1>14, <1>15, <1>16, <1>17, <1>18, <1>19, <1>20, <1>21, StoreOutcomes DEF Step,
     WorkerStep, OperatorStep


\* The facts of an action are fresh, and CLEARED rests on an absent tree
\* (validate_stage, observe_exact_target_liveness).
LEMMA StepEvidence ==
    ASSUME TypeOK, ControlInv, EvidenceInv, Step, UNCHANGED machine
    PROVE  EvidenceInv'
<1> USE MachineTypes, MachineFixed DEF EvidenceInv, ClearedMeansGone, ControlInv,
         TypeOK, Alive, Eligible, world, authority, worker, durable, history
<1>1. CASE Start
  BY <1>1, StartEffect
<1>2. ASSUME NEW t \in Targets, PrepareAction(t) PROVE EvidenceInv'
  BY <1>2, PrepareEffect
<1>3. CASE RecheckAction
  BY <1>3, RecheckEffect
<1>4. CASE SignalExact
  BY <1>4, SignalEffect
<1>5. CASE CompleteAction
  BY <1>5, CompleteEffect
<1>6. CASE AttemptLeftOpen
  BY <1>6 DEF AttemptLeftOpen, Executing, Return, Go, Frame, Survivors
<1>7. CASE GraceEnds
  BY <1>7, GraceEffect
<1>8. CASE RevivalWindow
  BY <1>8, WindowEffect
<1>9. CASE PrepareArtifact
  BY <1>9 DEF PrepareArtifact, PrepareArtifactRow, LateArtifact, Executing, Return, Go,
     Frame, Survivors
<1>10. CASE RemoveArtifact
  BY <1>10, RemovalEffect
<1>11. CASE CompleteArtifact
  BY <1>11 DEF CompleteArtifact, CompleteArtifactRow, Executing, Return, Go, Frame,
     Survivors
<1>12. CASE PostArtifact
  BY <1>12 DEF PostArtifact, RevivalStatus, Verdict, Executing, Return, Go, Frame,
     Survivors
<1>13. ASSUME NEW ok \in BOOLEAN, SettleAttempt(ok) PROVE EvidenceInv'
  BY <1>13 DEF SettleAttempt, TerminalState, Executing, Return, Go, Frame, Survivors
<1>14. CASE WorkerFailsClosed
  BY <1>14 DEF WorkerFailsClosed, FailClosed, Executing, Return, Go, Frame, Survivors
<1>15. ASSUME NEW ok \in BOOLEAN, CollectWorker(ok) PROVE EvidenceInv'
  BY <1>15 DEF CollectWorker, FailClosed, Recover, RecoverRows, Executing, Return, Go,
     Frame, Survivors
<1>16. CASE BeginAttempt
  BY <1>16 DEF BeginAttempt, Executing, Return, Go, Frame, Survivors
<1>17. CASE WorkerPanics
  BY <1>17 DEF WorkerPanics, Executing, Return, Go, Frame, Survivors
<1>18. CASE Crash
  BY <1>18 DEF Crash, Executing, Return, Go, Frame, Survivors
<1>19. CASE Restart
  BY <1>19 DEF Restart, Recover, RecoverRows, Executing, Return, Go, Frame, Survivors
<1>20. CASE OperatorStep
  BY <1>20 DEF OperatorStep, Arm, CloseGate, PolicyMoves, Cancel, ResolveBlock,
     Executing, Return, Go, Frame, Survivors
<1>21. CASE WorldStep
  BY <1>21 DEF WorldStep, ProcessExits, PidReused, FactsChange, FileAppears,
     FileVanishes, Executing, Return, Go, Frame, Survivors
<1> QED
  BY <1>1, <1>2, <1>3, <1>4, <1>5, <1>6, <1>7, <1>8, <1>9, <1>10, <1>11, <1>12, <1>13,
     <1>14, <1>15, <1>16, <1>17, <1>18, <1>19, <1>20, <1>21, StoreOutcomes DEF Step,
     WorkerStep, OperatorStep


\* A new daemon, with every target alive and nothing recorded, satisfies the
\* invariant.
LEMMA InitCleanup ==
    ASSUME Init
    PROVE  CleanupInv
<1>1. machine \in Machines
  BY DEF Init
<1>2. TypeOK
  <2>1. frame \in Frame /\ frame.attempted = {}
    BY <1>1, MachineTypes DEF Init
  <2>2. 0 \in 0..MaxEpochs /\ 0 \in 0..MaxAttempts
    BY <1>1, MachineTypes
  <2>3. disk \in {"absent", "exact", "other"}
    BY DEF Init
  <2> QED
    BY <1>1, <2>1, <2>2, <2>3 DEF Init, TypeOK, Executing, SignalDispositions,
       ArtifactDispositions
<1>3. ControlInv
  BY <1>1, MachineTypes DEF Init, ControlInv, Executing
<1>4. SignalInv
  BY <1>1, MachineTypes DEF Init, SignalInv, Signalling
<1>5. ArtifactInv /\ AuthorityInv
  BY DEF Init, ArtifactInv, AuthorityInv, UnresolvedAttemptIsFenced, Executing
<1>6. EvidenceInv /\ KillAfterTerm /\ JournalCoversEffects
  BY DEF Init, EvidenceInv, ClearedMeansGone, KillAfterTerm, JournalCoversEffects
<1> QED
  BY <1>2, <1>3, <1>4, <1>5, <1>6 DEF CleanupInv

\* Every step, and every stuttering step, keeps the invariant.
LEMMA NextCleanup ==
    ASSUME CleanupInv, [Next]_vars
    PROVE  CleanupInv'
<1> USE DEF CleanupInv
<1>1. CASE Next
  <2> Step /\ UNCHANGED machine
    BY <1>1 DEF Next
  <2>1. TypeOK'
    BY StepFrame, StepJournalTypes, StepFlags, StepPlaces
       DEF TypeOK, JournalTypes, FlagTypes, PlaceTypes
  <2>2. ControlInv' /\ SignalInv' /\ ArtifactInv'
    BY StepControl, StepSignal, StepArtifact
  <2>3. AuthorityInv' /\ EvidenceInv'
    BY StepAuthority, StepEvidence
  <2>4. KillAfterTerm' /\ JournalCoversEffects'
    BY StepEffects
  <2> QED
    BY <2>1, <2>2, <2>3, <2>4
<1>2. CASE UNCHANGED vars
  <2> UNCHANGED <<world, authority, worker, durable, history, machine>>
    BY <1>2 DEF vars
  <2> USE MachineFixed DEF world, authority, worker, durable, history
  <2>1. TypeOK' /\ ControlInv'
    BY DEF TypeOK, ControlInv
  <2>2. SignalInv' /\ ArtifactInv'
    BY DEF SignalInv, ArtifactInv, Row
  <2>3. AuthorityInv'
    BY DEF AuthorityInv, UnresolvedAttemptIsFenced, Uncertain, SideEffect
  <2>4. EvidenceInv'
    BY DEF EvidenceInv, ClearedMeansGone, Alive, Eligible
  <2>5. KillAfterTerm' /\ JournalCoversEffects'
    BY DEF KillAfterTerm, JournalCoversEffects
  <2> QED
    BY <2>1, <2>2, <2>3, <2>4, <2>5
<1> QED
  BY <1>1, <1>2

\* The inductive invariant holds in every reachable state of the executor, its
\* journal and the world around it.
LEMMA CleanupInvariant == Spec => []CleanupInv
BY InitCleanup, NextCleanup, PTL DEF Spec

-----------------------------------------------------------------------------
\* Every variable of the executor, the journal and the gate keeps its type:
\* the journal never holds a disposition its action cannot report
\* (SignalDisposition, ArtifactDisposition).
THEOREM TypeCorrect == Spec => []TypeOK
<1>1. CleanupInv => TypeOK
  BY DEF CleanupInv
<1> QED
  BY <1>1, CleanupInvariant, PTL

\* KILL reaches only a process that received TERM in the same attempt
\* (execute, the KILL stage over term_attempted).
THEOREM KillOnlyAfterTerm == Spec => []KillAfterTerm
<1>1. CleanupInv => KillAfterTerm
  BY DEF CleanupInv
<1> QED
  BY <1>1, CleanupInvariant, PTL

\* The journal never denies a signal or a removal that happened, across failed
\* writes, panics, crashes and recovery (signal, recover_incomplete_attempts).
THEOREM JournalNeverDenies == Spec => []JournalCoversEffects
<1>1. CleanupInv => JournalCoversEffects
  BY DEF CleanupInv
<1> QED
  BY <1>1, CleanupInvariant, PTL

\* An attempt is CLEARED only when no exact target of its plan is alive
\* (observe_exact_target_liveness, execute).
THEOREM ClearedIsAbsence == Spec => []ClearedMeansGone
<1>1. CleanupInv => ClearedMeansGone
  BY DEF CleanupInv, EvidenceInv
<1> QED
  BY <1>1, CleanupInvariant, PTL

\* The gate never reopens beside a blocked attempt that delivered, or may have
\* (managed_arm_blocker, receipt_requires_global_fail_close).
THEOREM UnresolvedStaysFenced == Spec => []UnresolvedAttemptIsFenced
<1>1. CleanupInv => UnresolvedAttemptIsFenced
  BY DEF CleanupInv, AuthorityInv
<1> QED
  BY <1>1, CleanupInvariant, PTL

\* Nothing but the artifact frozen with the plan is ever removed
\* (execute_artifact_action).
THEOREM OnlyFrozenArtifactRemoved == Spec => []LateArtifactUntouched
<1>1. CleanupInv => LateArtifactUntouched
  BY DEF CleanupInv, ArtifactInv, LateArtifactUntouched
<1> QED
  BY <1>1, CleanupInvariant, PTL

\* Only SignalExact, before any artifact, adds to what was delivered; only
\* RemoveArtifact removes one; both under a gate that is still the plan's.
LEMMA StepAuthorised ==
    ASSUME TypeOK, Step, UNCHANGED machine
    PROVE  \/ /\ delivered' \subseteq delivered
              /\ unlinked' = unlinked \/ unlinked' = FALSE
           \/ pc = "checked" /\ ~ShouldStop /\ UNCHANGED <<unlinked, revoked>>
           \/ pc = "artifact_prepared" /\ ~ShouldStop /\ UNCHANGED <<delivered, revoked>>
<1>1. CASE SignalExact
  BY <1>1, SignalEffect
<1>2. CASE RemoveArtifact
  BY <1>2, RemovalEffect
<1>3. ASSUME NEW t \in Targets, PrepareAction(t) PROVE UNCHANGED <<delivered, unlinked>>
  BY <1>3 DEF PrepareAction
<1>4. ASSUME NEW ok \in StoreOutcome, SettleAttempt(ok) \/ CollectWorker(ok)
      PROVE  UNCHANGED <<delivered, unlinked>>
  BY <1>4 DEF SettleAttempt, CollectWorker, history
<1>5. CASE \/ Start \/ RecheckAction \/ CompleteAction \/ AttemptLeftOpen \/ GraceEnds
           \/ RevivalWindow \/ PrepareArtifact \/ CompleteArtifact \/ PostArtifact
           \/ WorkerFailsClosed
  BY <1>5 DEF Start, RecheckAction, CompleteAction, AttemptLeftOpen, GraceEnds,
     RevivalWindow, PrepareArtifact, CompleteArtifact, PostArtifact, WorkerFailsClosed,
     history
<1>6. CASE WorkerPanics \/ Crash \/ Restart \/ OperatorStep \/ WorldStep
  BY <1>6 DEF WorkerPanics, Crash, Restart, OperatorStep, Arm, CloseGate, PolicyMoves,
     Cancel, ResolveBlock, WorldStep, ProcessExits, PidReused, FactsChange, FileAppears,
     FileVanishes, history
<1>7. CASE BeginAttempt
  BY <1>7 DEF BeginAttempt
<1> QED
  BY <1>1, <1>2, <1>3, <1>4, <1>5, <1>6, <1>7 DEF Step, WorkerStep, OperatorStep

\* A plan whose gate closed is inert: whatever the operator arms later, its
\* worker delivers no signal and removes no file (deliver_signal_if_armed, and
\* remove_artifact_exact under it): the new gate has an epoch above the frozen one.
THEOREM RevokedPlanNeverActs == Spec => RevokedPlanIsInert
<1>1. ASSUME CleanupInv, [Next]_vars, revoked, revoked'
      PROVE  delivered' \subseteq delivered /\ (unlinked' => unlinked)
  <2>1. ShouldStop
    BY <1>1 DEF CleanupInv, AuthorityInv, ShouldStop, GateMatches, TypeOK
  <2>2. CASE Next
    <3>1. delivered' \subseteq delivered /\ (unlinked' = unlinked \/ unlinked' = FALSE)
      BY <1>1, <2>1, <2>2, StepAuthorised DEF Next, CleanupInv
    <3> QED
      BY <3>1
  <2>3. CASE UNCHANGED vars
    BY <2>3 DEF vars, history
  <2> QED
    BY <1>1, <2>2, <2>3
<1> QED
  BY <1>1, CleanupInvariant, PTL DEF Spec, RevokedPlanIsInert

\* Every signal rests on facts that held after its action was journalled
\* (signal, validate_stage).
THEOREM SignalsRestOnFreshFacts == Spec => SignalRestsOnFreshFacts
<1>1. ASSUME CleanupInv, [Next]_vars
      PROVE  \A r \in delivered' \ delivered : fresh
  <2>1. CASE Next
    <3>1. \/ delivered' \subseteq delivered
          \/ pc = "checked"
      BY <1>1, <2>1, StepAuthorised DEF Next, CleanupInv
    <3> QED
      BY <1>1, <3>1 DEF CleanupInv, EvidenceInv
  <2>2. CASE UNCHANGED vars
    BY <2>2 DEF vars, history
  <2> QED
    BY <1>1, <2>1, <2>2
<1> QED
  BY <1>1, CleanupInvariant, PTL DEF Spec, SignalRestsOnFreshFacts
====
