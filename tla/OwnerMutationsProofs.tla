------------------------ MODULE OwnerMutationsProofs ------------------------
(***************************************************************************)
(* Proofs about OwnerMutations for every number of mutation ids, receipts, *)
(* namespaces and revisions.  The first half shows that a public mutation  *)
(* is applied at most once and that a status lookup is conclusive; the     *)
(* second that, as long as only the App acts, a policy change kills the    *)
(* plans frozen before it.                                                 *)
(***************************************************************************)
EXTENDS OwnerMutations, TLAPS

Mutations == Namespaces \X MutationIds

\* Receipts and applications belong to namespaces that have been current.
NamespaceInv ==
    /\ \A r \in receipts : r.namespace <= db.namespace
    /\ \A n \in Namespaces, i \in MutationIds :
          n > db.namespace => applications[<<n, i>>] = 0

\* The inductive form of LookupIsConclusive, free of MutationLookup.
LedgerInv ==
    \A n \in Namespaces, i \in MutationIds :
        /\ applications[<<n, i>>] <= 1
        /\ n = db.namespace /\ Retained(n, i) = {} => applications[<<n, i>>] = 0
        /\ \A r \in Retained(n, i) :
              (r.outcome = "applied") <=> (applications[<<n, i>>] = 1)

ReceiptInv == TypeOK /\ NamespaceInv /\ LedgerInv

\* Applying a command leaves a policy a policy and touches neither the
\* revision nor the namespace.
LEMMA EffectFacts ==
    ASSUME NEW d \in Policies, NEW c \in Commands
    PROVE  /\ Effect(d, c) \in Policies
           /\ Effect(d, c).revision = d.revision
           /\ Effect(d, c).namespace = d.namespace
BY DEF Effect, Commands, Policies, PauseStates

\* The decision on a command is one of the three receipt outcomes.
LEMMA DecisionFacts ==
    ASSUME NEW c \in Commands
    PROVE  Decision(c) \in Outcomes
BY DEF Decision, Outcomes

\* The initial state has no receipts and no applications.
LEMMA InitReceiptInv == Init => ReceiptInv
<1> SUFFICES ASSUME Init PROVE ReceiptInv
  OBVIOUS
<1> USE BoundsAssumption DEF Init
<1>1. TypeOK
  BY DEF TypeOK, Policies, Receipts, PauseStates, Revisions, Namespaces,
         NoRevision, Idle
<1>2. NamespaceInv
  BY DEF NamespaceInv, Namespaces
<1>3. LedgerInv
  BY DEF LedgerInv, Retained, Namespaces
<1> QED
  BY <1>1, <1>2, <1>3 DEF ReceiptInv

\* Steps that leave receipts, applications and the namespace alone keep the
\* ledger.
LEMMA LedgerUntouched ==
    ASSUME NamespaceInv, LedgerInv,
           UNCHANGED <<receipts, applications>>,
           db'.namespace = db.namespace
    PROVE  NamespaceInv' /\ LedgerInv'
BY DEF NamespaceInv, LedgerInv, Retained

\* A public commit in the current namespace keeps the ledger.
LEMMA CommitLedger ==
    ASSUME ReceiptInv, NEW i \in MutationIds, NEW c \in Commands,
           CommitMutation(i, c), appOnly' \in BOOLEAN
    PROVE  ReceiptInv'
<1> DEFINE applied == Decision(c) = "applied"
           after == IF applied THEN Effect(db, c) ELSE db
           new == [namespace |-> db.namespace, id |-> i, command |-> c,
                   outcome |-> Decision(c), revision |-> RevisionAfter(c)]
<1>1. /\ TypeOK
      /\ NamespaceInv
      /\ LedgerInv
  BY DEF ReceiptInv
<1>2. /\ after \in Policies
      /\ after.revision = db.revision
      /\ after.namespace = db.namespace
  BY <1>1, EffectFacts DEF TypeOK
<1>3. RevisionAfter(c) \in Revisions
  <2>1. RevisionAfter(c) <= MaxRevision
    BY DEF CommitMutation
  <2>2. db.revision \in Revisions
    BY <1>1 DEF TypeOK, Policies
  <2> QED
    BY <2>1, <2>2, BoundsAssumption DEF RevisionAfter, Revisions
<1>4. /\ db' = [after EXCEPT !.revision = RevisionAfter(c)]
      /\ receipts' = receipts \cup {new}
      /\ mem' = [pause |-> IF applied THEN after.pause ELSE mem.pause,
                 revision |-> RevisionAfter(c)]
      /\ UNCHANGED <<phase, cycle, plan>>
  BY DEF CommitMutation
<1>5. \/ /\ applied
         /\ applications' = [applications EXCEPT ![<<db.namespace, i>>] = @ + 1]
         /\ stale' = [x \in {"cycle", "plan"} |-> TRUE]
      \/ /\ ~applied
         /\ UNCHANGED <<stale, applications>>
  BY DEF CommitMutation, MarkStale
<1>6. db'.namespace = db.namespace /\ db' \in Policies
  BY <1>2, <1>3, <1>4 DEF Policies
<1>7. new \in Receipts
  BY <1>1, <1>3, DecisionFacts DEF TypeOK, Policies, Receipts
<1>8. Retained(db.namespace, i) = {}
  BY DEF CommitMutation
<1>9. db.namespace \in Namespaces /\ <<db.namespace, i>> \in Mutations
  BY <1>1 DEF TypeOK, Policies, Mutations
<1>10. TypeOK'
  <2>1. applications' \in [Namespaces \X MutationIds -> Nat]
    BY <1>1, <1>5, <1>9 DEF TypeOK, Mutations
  <2>2. mem' \in [pause : PauseStates, revision : Revisions]
    BY <1>1, <1>2, <1>3, <1>4 DEF TypeOK, Policies
  <2>3. stale' \in [{"cycle", "plan"} -> BOOLEAN]
    <3>1. CASE applied
      <4>1. stale' = [x \in {"cycle", "plan"} |-> TRUE]
        BY <1>5, <3>1, Zenon
      <4> QED
        BY <4>1
    <3>2. CASE ~applied
      <4>1. stale' = stale
        BY <1>5, <3>2
      <4> QED
        BY <4>1, <1>1 DEF TypeOK
    <3> QED
      BY <3>1, <3>2
  <2>4. receipts' \subseteq Receipts
    BY <1>1, <1>4, <1>7 DEF TypeOK
  <2> QED
    BY <1>1, <1>4, <1>6, <2>1, <2>2, <2>3, <2>4 DEF TypeOK
<1>11. NamespaceInv'
  <2>1. \A r \in receipts' : r.namespace <= db'.namespace
    <3>1. new.namespace = db.namespace /\ db.namespace \in Int
      BY <1>9 DEF Namespaces
    <3> QED
      BY <1>1, <1>4, <1>6, <3>1 DEF NamespaceInv
  <2>2. ASSUME NEW n \in Namespaces, NEW j \in MutationIds, n > db'.namespace
        PROVE  applications'[<<n, j>>] = 0
    <3>1. <<n, j>> # <<db.namespace, i>>
      BY <2>2, <1>6, <1>9 DEF Namespaces
    <3>2. applications'[<<n, j>>] = applications[<<n, j>>]
      BY <1>1, <1>5, <3>1 DEF TypeOK
    <3> QED
      BY <3>2, <2>2, <1>1, <1>6 DEF NamespaceInv
  <2> QED
    BY <2>1, <2>2 DEF NamespaceInv
<1>12. ASSUME NEW n \in Namespaces, NEW j \in MutationIds
       PROVE  /\ applications'[<<n, j>>] <= 1
              /\ n = db'.namespace /\ Retained(n, j)' = {} => applications'[<<n, j>>] = 0
              /\ \A r \in Retained(n, j)' :
                    (r.outcome = "applied") <=> (applications'[<<n, j>>] = 1)
  <2>1. CASE n = db.namespace /\ j = i
    <3>1. Retained(n, j)' = {new}
      BY <2>1, <1>4, <1>8 DEF Retained
    <3>2. applications[<<n, j>>] = 0
      BY <2>1, <1>8, <1>1, <1>9 DEF LedgerInv
    <3>3. applications'[<<n, j>>] = IF applied THEN 1 ELSE 0
      BY <3>2, <2>1, <1>5, <1>9, <1>1 DEF TypeOK, Mutations
    <3>4. new.outcome = Decision(c)
      OBVIOUS
    <3>5. \A r \in Retained(n, j)' : r = new
      BY <3>1
    <3>6. Retained(n, j)' # {}
      BY <3>1
    <3> HIDE DEF new
    <3>7. ASSUME NEW r \in Retained(n, j)'
          PROVE  (r.outcome = "applied") <=> (applications'[<<n, j>>] = 1)
      <4>1. r.outcome = Decision(c)
        BY <3>4, <3>5
      <4> QED
        BY <4>1, <3>3
    <3> QED
      BY <3>3, <3>6, <3>7
  <2>2. CASE ~(n = db.namespace /\ j = i)
    <3>1. Retained(n, j)' = Retained(n, j)
      BY <2>2, <1>4 DEF Retained
    <3>2. applications'[<<n, j>>] = applications[<<n, j>>]
      BY <2>2, <1>5, <1>9, <1>1 DEF TypeOK, Mutations
    <3> QED
      BY <3>1, <3>2, <1>1, <1>6 DEF LedgerInv
  <2> QED
    BY <2>1, <2>2
<1> QED
  BY <1>10, <1>11, <1>12 DEF ReceiptInv, LedgerInv

\* Pruning receipts and rotating the namespace keeps the ledger: nothing can
\* have been applied in a namespace that has never been current.
LEMMA PruneLedger ==
    ASSUME ReceiptInv, NEW old \in SUBSET receipts, NEW history \in BOOLEAN,
           Prune(old, history), appOnly' \in BOOLEAN
    PROVE  ReceiptInv'
<1>1. /\ TypeOK
      /\ NamespaceInv
      /\ LedgerInv
  BY DEF ReceiptInv
<1>2. db.namespace \in Namespaces
  BY <1>1 DEF TypeOK, Policies
<1>3. CASE old = {}
  <2>1. /\ UNCHANGED <<receipts, applications, mem, phase, cycle, plan, stale>>
        /\ db' \in Policies
        /\ db'.namespace = db.namespace
    BY <1>3, <1>1 DEF Prune, TypeOK, Policies
  <2>2. TypeOK'
    BY <2>1, <1>1 DEF TypeOK
  <2> QED
    BY <2>1, <2>2, <1>1, LedgerUntouched DEF ReceiptInv
<1>4. CASE old # {}
  <2>1. /\ db.namespace < MaxNamespaces
        /\ receipts' = receipts \ old
        /\ db' = [db EXCEPT !.observed = @ /\ ~history,
                            !.namespace = @ + 1]
        /\ UNCHANGED <<applications, mem, phase, cycle, plan, stale>>
    BY <1>4 DEF Prune
  <2>2. db.namespace + 1 \in Namespaces
    BY <1>2, <2>1, BoundsAssumption DEF Namespaces
  <2>3. db'.namespace = db.namespace + 1 /\ db' \in Policies
    BY <1>1, <2>1, <2>2 DEF TypeOK, Policies
  <2>4. TypeOK'
    BY <1>1, <2>1, <2>3 DEF TypeOK
  <2>5. NamespaceInv'
    <3>1. \A r \in receipts : r.namespace \in Int
      BY <1>1 DEF TypeOK, Receipts, Namespaces
    <3> QED
      BY <1>1, <1>2, <2>1, <2>3, <3>1 DEF NamespaceInv, Namespaces
  <2>6. LedgerInv'
    <3> SUFFICES ASSUME NEW n \in Namespaces, NEW i \in MutationIds
                 PROVE  /\ applications[<<n, i>>] <= 1
                        /\ n = db'.namespace => applications[<<n, i>>] = 0
                        /\ \A r \in Retained(n, i) :
                              (r.outcome = "applied") <=> (applications[<<n, i>>] = 1)
      BY <2>1 DEF LedgerInv, Retained
    <3>1. n = db'.namespace => n > db.namespace
      BY <2>3, <1>2 DEF Namespaces
    <3> QED
      BY <1>1, <3>1 DEF LedgerInv, NamespaceInv
  <2> QED
    BY <2>4, <2>5, <2>6 DEF ReceiptInv
<1> QED
  BY <1>3, <1>4

\* Every step keeps the receipt invariant.
LEMMA NextReceiptInv == ReceiptInv /\ [Next]_vars => ReceiptInv'
<1> SUFFICES ASSUME ReceiptInv, [Next]_vars PROVE ReceiptInv'
  OBVIOUS
<1> appOnly' \in BOOLEAN
  BY DEF ReceiptInv, TypeOK, Next, vars
<1>1. /\ TypeOK
      /\ NamespaceInv
      /\ LedgerInv
  BY DEF ReceiptInv
<1>2. CASE UNCHANGED vars
  BY <1>2 DEF ReceiptInv, TypeOK, NamespaceInv, LedgerInv, Retained, vars
<1>3. ASSUME NEW n \in Namespaces, NEW i \in MutationIds, NEW c \in Commands,
             ReplayReceipt(n, i, c)
      PROVE  ReceiptInv'
  <2>1. /\ UNCHANGED <<db, receipts, phase, cycle, plan, stale, applications>>
        /\ \E r \in Retained(n, i) : mem' = [mem EXCEPT !.revision = r.revision]
    BY <1>3 DEF ReplayReceipt
  <2>2. TypeOK'
    BY <2>1, <1>1 DEF TypeOK, Retained, Receipts
  <2> QED
    BY <2>1, <2>2, <1>1, LedgerUntouched DEF ReceiptInv
<1>4. ASSUME NEW i \in MutationIds, NEW c \in Commands, CommitMutation(i, c)
      PROVE  ReceiptInv'
  BY <1>4, CommitLedger
<1>5. ASSUME NEW c \in Commands, CompatMutation(c)
      PROVE  ReceiptInv'
  <2>1. /\ db' = Effect(db, c)
        /\ mem' = [pause |-> IF c \in {"pause", "resume"}
                             THEN db'.pause ELSE mem.pause,
                   revision |-> mem.revision + 1]
        /\ stale' = [x \in {"cycle", "plan"} |-> TRUE]
        /\ UNCHANGED <<receipts, phase, cycle, plan, applications>>
        /\ mem.revision < MaxRevision
    BY <1>5 DEF CompatMutation, MarkStale
  <2>2. db' \in Policies /\ db'.namespace = db.namespace
    BY <2>1, <1>1, EffectFacts DEF TypeOK
  <2>3. mem.revision + 1 \in Revisions
    BY <2>1, <1>1, BoundsAssumption DEF TypeOK, Revisions
  <2>4. TypeOK'
    <3>1. stale' \in [{"cycle", "plan"} -> BOOLEAN]
      BY <2>1
    <3>2. mem' \in [pause : PauseStates, revision : Revisions]
      BY <2>1, <2>2, <2>3, <1>1 DEF TypeOK, Policies
    <3> QED
      BY <2>1, <2>2, <3>1, <3>2, <1>1 DEF TypeOK
  <2> QED
    BY <2>1, <2>2, <2>4, <1>1, LedgerUntouched DEF ReceiptInv
<1>6. CASE PauseElapses
  <2>1. TypeOK' /\ db'.namespace = db.namespace
    BY <1>6, <1>1 DEF PauseElapses, TypeOK, Policies, PauseStates
  <2> QED
    BY <1>6, <2>1, <1>1, LedgerUntouched DEF PauseElapses, ReceiptInv
<1>7. CASE ExpirePause
  <2>1. TypeOK' /\ db'.namespace = db.namespace
    BY <1>7, <1>1 DEF ExpirePause, TypeOK, Policies, PauseStates
  <2> QED
    BY <1>7, <2>1, <1>1, LedgerUntouched DEF ExpirePause, ReceiptInv
<1>8. ASSUME NEW old \in SUBSET receipts, NEW history \in BOOLEAN,
             Prune(old, history)
      PROVE  ReceiptInv'
  BY <1>8, PruneLedger
<1>9. CASE CaptureRevision
  <2>1. TypeOK' /\ db'.namespace = db.namespace
    BY <1>9, <1>1 DEF CaptureRevision, TypeOK
  <2> QED
    BY <1>9, <2>1, <1>1, LedgerUntouched DEF CaptureRevision, ReceiptInv
<1>10. ASSUME NEW confirmed \in BOOLEAN, ObserveIncident(confirmed)
       PROVE  ReceiptInv'
  <2>1. TypeOK' /\ db'.namespace = db.namespace
    BY <1>10, <1>1 DEF ObserveIncident, TypeOK, Policies, Idle
  <2> QED
    BY <1>10, <2>1, <1>1, LedgerUntouched DEF ObserveIncident, ReceiptInv
<1>11. ASSUME NEW b \in BOOLEAN, NEW p \in BOOLEAN, ObserveAbsence(b, p)
       PROVE  ReceiptInv'
  <2>1. TypeOK' /\ db'.namespace = db.namespace
    BY <1>11, <1>1 DEF ObserveAbsence, TypeOK, Policies, Idle
  <2> QED
    BY <1>11, <2>1, <1>1, LedgerUntouched DEF ObserveAbsence, ReceiptInv
<1>12. CASE BeginAttempt
  <2>1. TypeOK' /\ db'.namespace = db.namespace
    BY <1>12, <1>1 DEF BeginAttempt, MayBegin, Freeze, TypeOK, Idle
  <2> QED
    BY <1>12, <2>1, <1>1, LedgerUntouched DEF BeginAttempt, Freeze, ReceiptInv
<1>13. CASE EndCycle
  <2>1. TypeOK' /\ db'.namespace = db.namespace
    BY <1>13, <1>1 DEF EndCycle, TypeOK, Idle
  <2> QED
    BY <1>13, <2>1, <1>1, LedgerUntouched DEF EndCycle, ReceiptInv
<1>14. ASSUME NEW failed \in BOOLEAN, AttemptEnds(failed)
       PROVE  ReceiptInv'
  <2>1. TypeOK' /\ db'.namespace = db.namespace
    BY <1>14, <1>1 DEF AttemptEnds, TypeOK, Policies
  <2> QED
    BY <1>14, <2>1, <1>1, LedgerUntouched DEF AttemptEnds, ReceiptInv
<1>15. ASSUME NEW p \in {"draining", "failed"}, LeaveEnforce(p)
       PROVE  ReceiptInv'
  <2>1. TypeOK' /\ db'.namespace = db.namespace
    BY <1>15, <1>1 DEF LeaveEnforce, TypeOK
  <2> QED
    BY <1>15, <2>1, <1>1, LedgerUntouched DEF LeaveEnforce, ReceiptInv
<1>16. CASE Restart
  <2>1. TypeOK' /\ db'.namespace = db.namespace
    BY <1>16, <1>1 DEF Restart, TypeOK, Policies, Idle
  <2> QED
    BY <1>16, <2>1, <1>1, LedgerUntouched DEF Restart, ReceiptInv
<1> QED
  BY <1>2, <1>3, <1>4, <1>5, <1>6, <1>7, <1>8, <1>9, <1>10, <1>11, <1>12,
     <1>13, <1>14, <1>15, <1>16 DEF Next, OtherClientStep, DaemonAndAppStep

\* The receipt invariant holds in every reachable state.
THEOREM ReceiptInvariant == Spec => []ReceiptInv
<1> QED
  BY InitReceiptInv, NextReceiptInv, PTL DEF Spec

\* A public mutation is applied at most once, for every bound: resends,
\* restarts, pruned receipts and rotated namespaces included
\* (commit_public_ordinary_mutation and prune).
THEOREM MutationAppliedAtMostOnce == Spec => []AtMostOnce
<1>1. ReceiptInv => AtMostOnce
  BY DEF ReceiptInv, LedgerInv, AtMostOnce
<1> QED
  BY <1>1, ReceiptInvariant, PTL

\* What mutation_lookup answers is true of everything that happened before.
THEOREM LookupConclusive == Spec => []LookupIsConclusive
<1>1. ReceiptInv => LookupIsConclusive
  <2> SUFFICES ASSUME ReceiptInv, NEW n \in 1 .. db.namespace, NEW i \in MutationIds
               PROVE  /\ MutationLookup(n, i) = "not_found" => applications[<<n, i>>] = 0
                      /\ \A r \in Retained(n, i) :
                            (r.outcome = "applied") = (applications[<<n, i>>] = 1)
    BY DEF LookupIsConclusive
  <2>1. n \in Namespaces
    <3>1. db.namespace \in 1 .. MaxNamespaces
      BY DEF ReceiptInv, TypeOK, Policies, Namespaces
    <3> QED
      BY <3>1, BoundsAssumption DEF Namespaces
  <2>2. MutationLookup(n, i) = "not_found" => n = db.namespace /\ Retained(n, i) = {}
    BY DEF MutationLookup
  <2> QED
    BY <2>1, <2>2 DEF ReceiptInv, LedgerInv
<1> QED
  BY <1>1, ReceiptInvariant, PTL

-----------------------------------------------------------------------------
(***************************************************************************)
(* As long as only the App acts, the memory revision is the mirror of      *)
(* the durable one, which only grows, so a revision captured before a      *)
(* policy change is never current again.                                   *)
(***************************************************************************)

MirrorInv == mem.revision = db.revision /\ mem.pause = db.pause

\* A captured revision is at most the current one, and less once it is stale.
CycleInv ==
    cycle.stage # "idle" =>
        /\ cycle.revision \in Revisions
        /\ cycle.revision <= db.revision
        /\ stale["cycle"] => cycle.revision < db.revision

\* The same of the frozen one, which is also behind while a pause runs.
PlanInv ==
    plan # NoRevision =>
        /\ plan \in Revisions
        /\ plan <= db.revision
        /\ stale["plan"] => plan < db.revision
        /\ db.pause = "active" => plan < db.revision

RevisionInv == MirrorInv /\ CycleInv /\ PlanInv

\* Steps that leave revisions, pause and history alone keep the revision
\* invariant.
LEMMA RevisionUntouched ==
    ASSUME RevisionInv, UNCHANGED <<mem, cycle, plan, stale>>,
           db'.revision = db.revision, db'.pause = db.pause
    PROVE  RevisionInv'
BY DEF RevisionInv, MirrorInv, CycleInv, PlanInv

\* A public commit keeps it: the two revisions move together, and an applied
\* mutation moves them past everything captured or frozen.
LEMMA CommitRevision ==
    ASSUME TypeOK, RevisionInv, NEW i \in MutationIds, NEW c \in Commands,
           CommitMutation(i, c)
    PROVE  RevisionInv'
<1> DEFINE applied == Decision(c) = "applied"
           after == IF applied THEN Effect(db, c) ELSE db
<1>1. /\ after \in Policies
      /\ after.revision = db.revision
  BY EffectFacts DEF TypeOK
<1>2. /\ db' = [after EXCEPT !.revision = RevisionAfter(c)]
      /\ mem' = [pause |-> IF applied THEN after.pause ELSE mem.pause,
                 revision |-> RevisionAfter(c)]
      /\ UNCHANGED <<cycle, plan>>
  BY DEF CommitMutation
<1>3. applied \/ stale' = stale
  BY DEF CommitMutation
<1>4. db'.revision = RevisionAfter(c) /\ db'.pause = after.pause
  BY <1>1, <1>2 DEF Policies
<1>5. MirrorInv'
  BY <1>2, <1>4 DEF RevisionInv, MirrorInv
<1>6. db.revision \in Int
  BY DEF TypeOK, Policies, Revisions
<1>7. CASE applied
  <2>1. db'.revision = db.revision + 1
    BY <1>4, <1>7 DEF RevisionAfter
  <2>2. CycleInv'
    BY <2>1, <1>2, <1>6 DEF RevisionInv, CycleInv, Revisions
  <2>3. PlanInv'
    BY <2>1, <1>2, <1>6 DEF RevisionInv, PlanInv, Revisions
  <2> QED
    BY <1>5, <2>2, <2>3 DEF RevisionInv
<1>8. CASE ~applied
  <2>1. db'.revision = db.revision /\ db'.pause = db.pause
    BY <1>4, <1>8 DEF RevisionAfter
  <2>2. UNCHANGED <<cycle, plan, stale>>
    BY <1>2, <1>3, <1>8
  <2>3. CycleInv'
    BY <2>1, <2>2 DEF RevisionInv, CycleInv
  <2>4. PlanInv'
    BY <2>1, <2>2 DEF RevisionInv, PlanInv
  <2> QED
    BY <1>5, <2>3, <2>4 DEF RevisionInv
<1> QED
  BY <1>7, <1>8

AppRevisionInv == appOnly => RevisionInv

\* Every step keeps the revision invariant as long as only the App acts.
LEMMA NextRevisionInv == TypeOK /\ AppRevisionInv /\ [Next]_vars => AppRevisionInv'
<1> SUFFICES ASSUME TypeOK, AppRevisionInv, [Next]_vars, appOnly' PROVE RevisionInv'
  BY DEF AppRevisionInv
<1> RevisionInv /\ (DaemonAndAppStep \/ UNCHANGED vars)
  BY DEF AppRevisionInv, Next, vars
<1>1. /\ MirrorInv
      /\ CycleInv
      /\ PlanInv
  BY DEF RevisionInv
<1>2. CASE UNCHANGED vars
  BY <1>2, RevisionUntouched DEF vars
<1>4. ASSUME NEW i \in MutationIds, NEW c \in Commands, CommitMutation(i, c)
      PROVE  RevisionInv'
  BY <1>4, CommitRevision
<1>6. CASE PauseElapses \/ ExpirePause
  <2>1. /\ db'.pause = mem'.pause
        /\ db'.pause # "active"
        /\ db'.revision = db.revision
        /\ mem'.revision = mem.revision
        /\ UNCHANGED <<cycle, plan, stale>>
    BY <1>6 DEF PauseElapses, ExpirePause, TypeOK, Policies
  <2> QED
    BY <2>1, <1>1 DEF RevisionInv, MirrorInv, CycleInv, PlanInv
<1>7. ASSUME NEW old \in SUBSET receipts, NEW history \in BOOLEAN,
             Prune(old, history)
      PROVE  RevisionInv'
  <2>1. /\ db'.revision = db.revision
        /\ db'.pause = db.pause
        /\ UNCHANGED <<mem, cycle, plan, stale>>
    BY <1>7 DEF Prune, TypeOK, Policies
  <2> QED
    BY <2>1, RevisionUntouched
<1>8. CASE CaptureRevision
  <2>1. /\ UNCHANGED <<db, mem, plan>>
        /\ cycle' = [stage |-> "observing", revision |-> mem.revision]
        /\ stale'["cycle"] = FALSE
        /\ stale'["plan"] = stale["plan"]
    BY <1>8 DEF CaptureRevision, TypeOK
  <2>2. CycleInv'
    <3>1. cycle'.revision = db.revision /\ db.revision \in Revisions
      BY <2>1, <1>1 DEF MirrorInv, TypeOK, Policies
    <3> QED
      BY <2>1, <3>1 DEF CycleInv, Revisions
  <2>3. PlanInv'
    BY <2>1, <1>1 DEF PlanInv
  <2> QED
    BY <2>1, <2>2, <2>3, <1>1 DEF RevisionInv, MirrorInv
<1>9. ASSUME NEW confirmed \in BOOLEAN, ObserveIncident(confirmed)
      PROVE  RevisionInv'
  <2>1. /\ db'.revision = db.revision
        /\ db'.pause = db.pause
        /\ UNCHANGED <<mem, plan, stale>>
        /\ cycle'.stage = "idle" \/ cycle'.revision = cycle.revision
        /\ cycle.stage # "idle"
    BY <1>9 DEF ObserveIncident, TypeOK, Policies, Idle
  <2> QED
    BY <2>1, <1>1 DEF RevisionInv, MirrorInv, CycleInv, PlanInv
<1>10. ASSUME NEW b \in BOOLEAN, NEW p \in BOOLEAN, ObserveAbsence(b, p)
       PROVE  RevisionInv'
  <2>1. /\ db'.revision = db.revision
        /\ db'.pause = db.pause
        /\ UNCHANGED <<mem, plan, stale>>
        /\ cycle'.stage = "idle"
    BY <1>10 DEF ObserveAbsence, TypeOK, Policies, Idle
  <2> QED
    BY <2>1, <1>1 DEF RevisionInv, MirrorInv, CycleInv, PlanInv
<1>11. CASE BeginAttempt
  <2>1. /\ UNCHANGED <<db, mem>>
        /\ plan' = cycle.revision
        /\ cycle'.stage = "idle"
        /\ stale'["plan"] = stale["cycle"]
        /\ cycle.stage # "idle"
        /\ mem.pause # "active"
    BY <1>11 DEF BeginAttempt, MayBegin, Freeze, Idle, TypeOK
  <2>2. PlanInv'
    BY <2>1, <1>1 DEF CycleInv, PlanInv, MirrorInv
  <2> QED
    BY <2>1, <2>2, <1>1 DEF RevisionInv, MirrorInv, CycleInv
<1>12. CASE EndCycle
  <2>1. cycle'.stage = "idle" /\ UNCHANGED <<db, mem, plan, stale>>
    BY <1>12 DEF EndCycle, Idle
  <2> QED
    BY <2>1, <1>1 DEF RevisionInv, MirrorInv, CycleInv, PlanInv
<1>13. ASSUME NEW failed \in BOOLEAN, AttemptEnds(failed)
       PROVE  RevisionInv'
  <2>1. /\ db'.revision = db.revision
        /\ db'.pause = db.pause
        /\ plan' = NoRevision
        /\ UNCHANGED <<mem, cycle, stale>>
    BY <1>13 DEF AttemptEnds, TypeOK, Policies
  <2> QED
    BY <2>1, <1>1 DEF RevisionInv, MirrorInv, CycleInv, PlanInv
<1>14. ASSUME NEW p \in {"draining", "failed"}, LeaveEnforce(p)
       PROVE  RevisionInv'
  BY <1>14, RevisionUntouched DEF LeaveEnforce
<1>15. CASE Restart
  <2>1. /\ db'.revision = db.revision
        /\ db'.pause = db.pause
        /\ mem' = [pause |-> db.pause, revision |-> db.revision]
        /\ cycle'.stage = "idle"
        /\ plan' = NoRevision
    BY <1>15 DEF Restart, TypeOK, Policies, Idle
  <2> QED
    BY <2>1 DEF RevisionInv, MirrorInv, CycleInv, PlanInv
<1> QED
  BY <1>2, <1>4, <1>6, <1>7, <1>8, <1>9, <1>10, <1>11, <1>12,
     <1>13, <1>14, <1>15 DEF DaemonAndAppStep

\* The revision invariant holds for as long as only the App acts.
LEMMA RevisionInvariant == Spec => []AppRevisionInv
<1>1. Init => AppRevisionInv
  BY DEF Init, AppRevisionInv, RevisionInv, MirrorInv, CycleInv, PlanInv, Idle
<1>2. ReceiptInv => TypeOK
  BY DEF ReceiptInv
<1>3. TypeOK /\ AppRevisionInv /\ [Next]_vars => AppRevisionInv'
  BY NextRevisionInv
<1> QED
  BY <1>1, <1>2, <1>3, ReceiptInvariant, PTL DEF Spec

\* Every reachable state is well typed.
THEOREM MutationTypes == Spec => []TypeOK
<1>1. ReceiptInv => TypeOK
  BY DEF ReceiptInv
<1> QED
  BY <1>1, ReceiptInvariant, PTL

\* As long as only the App acts, no owner mutation leaves a plan frozen before
\* it able to signal (commit_public_mutation against deliver_signal_if_armed).
THEOREM PolicyChangeKillsPlans == Spec => []AppPlanStaysDead
<1>1. AppRevisionInv /\ TypeOK => AppPlanStaysDead
  BY DEF AppRevisionInv, RevisionInv, MirrorInv, PlanInv, AppPlanStaysDead,
         StalePlanStaysDead, GateOpenForPlan, TypeOK, Policies, Revisions
<1>2. ReceiptInv => TypeOK
  BY DEF ReceiptInv
<1> QED
  BY <1>1, <1>2, RevisionInvariant, ReceiptInvariant, PTL

\* As long as only the App acts, nothing signals while the owner's pause runs.
THEOREM PauseHoldsSignals == Spec => []AppPauseStops
<1>1. AppRevisionInv /\ TypeOK => AppPauseStops
  BY DEF AppRevisionInv, RevisionInv, MirrorInv, PlanInv, AppPauseStops,
         GateOpenForPlan, TypeOK, Policies, Revisions
<1>2. ReceiptInv => TypeOK
  BY DEF ReceiptInv
<1> QED
  BY <1>1, <1>2, RevisionInvariant, ReceiptInvariant, PTL
=============================================================================
