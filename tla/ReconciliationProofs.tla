------------------------ MODULE ReconciliationProofs ------------------------
(***************************************************************************)
(* Three promises of the reconciliation cycle, for every process table,    *)
(* set of scenes and moves between them, every grace, gap and clock: an    *)
(* attempt opens only on processes that were seen abandoned, unchanged and *)
(* without a gap for the whole grace; a retry starts that time over; and   *)
(* an overview that says clear was true when its snapshot was taken.       *)
(*                                                                         *)
(* For the first, every cooling row that may still be continued under an   *)
(* epoch that may still be dispatched is backed by an observation from     *)
(* outside, `streak`, that is at least as old.  That needs the epochs: a   *)
(* row outlives the cycle that made it, and must not count under a later   *)
(* epoch that happens to look the same.                                    *)
(*                                                                         *)
(* For the second, with one client every command raises the revision above *)
(* the one that a running cycle captured, so what that cycle confirmed     *)
(* before the retry is refused; and no row is older than the retry.        *)
(***************************************************************************)
EXTENDS Reconciliation, TLAPS

-----------------------------------------------------------------------------
(* The invariant *)

States == {"protected", "active", "cooling", "ambiguous", "confirmed"}

\* What the analyzer reports has a state, and a tracking key with its root's pid.
IsReport(r) ==
    /\ r = [key |-> r.key, root |-> r.root, members |-> r.members,
            decision |-> r.decision, state |-> r.state]
    /\ r.state \in States
    /\ r.key[2] = r.root.pid

\* A snapshot that says it is complete shows the machine as it was.
SightHonest(s) == s.proven /\ s.classified => s.table = TableIn(s.really[1], s.really[2])

\* The reports of a look leave no candidate out.
ReportsHonest(reports, s) ==
    /\ \A r \in reports : IsReport(r)
    /\ reports = {} => Candidates(s.table) = {}

Looking == cycle.at \in {"first", "waiting"}
Judged == cycle.at \in {"settle", "publish", "dispatch", "finish"}

\* What a cycle holds at each of its steps.
CycleInv ==
    /\ \/ cycle = Idle
       \/ /\ cycle.at = "first"
          /\ cycle = [at |-> cycle.at, now |-> cycle.now, label |-> cycle.label,
                      revision |-> cycle.revision, sight |-> cycle.sight]
       \/ /\ cycle.at = "waiting"
          /\ cycle = [at |-> cycle.at, now |-> cycle.now, label |-> cycle.label,
                      revision |-> cycle.revision, ctx |-> cycle.ctx, sight |-> cycle.sight,
                      reports |-> cycle.reports]
          /\ \A r \in cycle.reports : r.state # "confirmed"
       \/ /\ Judged
          /\ cycle = [at |-> cycle.at, now |-> cycle.now, label |-> cycle.label,
                      revision |-> cycle.revision, sight |-> cycle.sight, reports |-> cycle.reports]
    /\ cycle.at # "idle" => SightHonest(cycle.sight)
    /\ cycle.at = "waiting" \/ Judged => ReportsHonest(cycle.reports, cycle.sight)

\* An epoch is used once: while a cycle works under another label than the
\* present epoch, no row was made under the present epoch yet.
EpochInv ==
    /\ epoch \in Nat /\ epoch >= 1
    /\ cycle.at # "idle" => cycle.label \in Nat /\ cycle.label <= epoch
    /\ \A row \in cooling : row.epoch \in Nat /\ row.epoch <= epoch
    /\ Looking /\ armed /\ cycle.label # epoch => \A row \in cooling : row.epoch < epoch

\* One unbroken observation per set of processes.
StreakInv ==
    /\ time \in Int
    /\ \A s \in streak : s.since \in Int /\ s.last \in Int /\ s.since <= s.last /\ s.last <= time
    /\ \A s, u \in streak : s.root = u.root /\ s.members = u.members => s = u

\* The row's epoch may still be dispatched under.
Counts(row) ==
    /\ row.epoch >= 1
    /\ (armed /\ epoch = row.epoch) \/ (Looking /\ cycle.label = row.epoch)

\* A row that can still be continued was earned: what it says was seen.
Earned(row) ==
    \/ time - row.last > Gap
    \/ \E s \in streak : /\ s.root = row.root /\ s.members = row.members /\ s.epoch = row.epoch
                         /\ s.since <= row.first /\ row.last <= s.last

RowInv ==
    \A row \in cooling : /\ row.first \in Int /\ row.last \in Int
                         /\ row.key[2] = row.root.pid
                         /\ Counts(row) => Earned(row)

\* A confirmed report of the running cycle has its grace behind it.
Proved(r, label) ==
    \E s \in streak : /\ s.root = r.root /\ s.members = r.members /\ s.epoch = label
                      /\ s.last - s.since >= Grace
GraceInv ==
    Judged /\ cycle.label >= 1 =>
        \A r \in cycle.reports : r.state = "confirmed" => Proved(r, cycle.label)

\* What is published was seen.
RosterInv ==
    /\ roster = [freshness |-> roster.freshness, reports |-> roster.reports,
                 complete |-> roster.complete, at |-> roster.at, really |-> roster.really]
    /\ \A x \in roster.reports : x.state \in States
    /\ roster.complete /\ roster.reports = {} =>
          Candidates(TableIn(roster.really[1], roster.really[2])) = {}

ReconciliationInv == CycleInv /\ EpochInv /\ StreakInv /\ RowInv /\ GraceInv /\ RosterInv

-----------------------------------------------------------------------------
(* The rules *)

\* One pack makes at most one candidate of a root.
LEMMA OneCandidate ==
    ASSUME NEW t, NEW pack, NEW a \in PackCandidates(t, pack), NEW b \in PackCandidates(t, pack),
           a.root = b.root
    PROVE  a = b
<1> DEFINE roots == {p \in DOMAIN t : IsBrowserRoot(t[p], pack)}
           controllers == {p \in DOMAIN t \ roots : MatchesController(t[p], pack)}
           Owned(c) == {r \in roots : c \in Nearest(t, r, controllers)}
           unowned == {r \in roots : /\ Nearest(t, r, controllers) = {}
                                     /\ PackAnchorCount(t[r], pack) > 0}
           Led(c) == [pack |-> pack, root |-> c, controller |-> {c}, browsers |-> Owned(c),
                      members |-> {c} \cup UNION {Descendants(t, r) : r \in Owned(c)}
                                      \cup JoinedRecorders(t, c, Owned(c), pack)]
           Alone(r) == [pack |-> pack, root |-> r, controller |-> {}, browsers |-> {r},
                        members |-> Descendants(t, r)]
<1>1. PackCandidates(t, pack) = {Led(c) : c \in controllers} \cup {Alone(r) : r \in unowned}
  BY DEF PackCandidates
<1>2. \A c : Led(c).root = c /\ Alone(c).root = c
  OBVIOUS
<1>3. controllers \cap unowned = {}
  OBVIOUS
<1> HIDE DEF controllers, unowned, Led, Alone
<1> QED
  BY <1>1, <1>2, <1>3

\* What Observe returns: reports, none of them confirmed yet, one per tracking
\* key, and none only if there is no candidate.
LEMMA ObserveFacts ==
    ASSUME NEW ctx, NEW t, NEW at
    PROVE  /\ \A r \in Observe(ctx, t, at) : IsReport(r) /\ r.state # "confirmed"
           /\ Observe(ctx, t, at) = {} => Candidates(t) = {}
           /\ \A r, q \in Observe(ctx, t, at) : r.key = q.key => r = q
<1>1. ASSUME NEW c PROVE State(ctx, t, c, at) \in States \ {"confirmed"}
  BY DEF State, States
<1>2. ASSUME NEW r \in Observe(ctx, t, at) PROVE IsReport(r) /\ r.state # "confirmed"
  <2>1. PICK c \in Candidates(t) : r = Report(ctx, t, c, at)
    BY DEF Observe
  <2>2. r = [key |-> <<c.pack.id, c.root>>, root |-> Identity(t, c.root),
             members |-> {Identity(t, p) : p \in c.members},
             decision |-> Compatibility(ctx, t, c), state |-> State(ctx, t, c, at)]
    BY <2>1 DEF Report
  <2>3. r.key[2] = r.root.pid
    BY <2>2 DEF Identity
  <2>4. r.state \in States \ {"confirmed"}
    BY <1>1, <2>2
  <2>5. r = [key |-> r.key, root |-> r.root, members |-> r.members,
             decision |-> r.decision, state |-> r.state]
    BY <2>2
  <2> QED
    BY <2>3, <2>4, <2>5 DEF IsReport
<1>3. ASSUME NEW c \in Candidates(t) PROVE Report(ctx, t, c, at) \in Observe(ctx, t, at)
  BY DEF Observe
<1>4. ASSUME NEW r \in Observe(ctx, t, at), NEW q \in Observe(ctx, t, at), r.key = q.key
      PROVE  r = q
  <2>1. PICK c \in Candidates(t) : r = Report(ctx, t, c, at)
    BY DEF Observe
  <2>2. PICK d \in Candidates(t) : q = Report(ctx, t, d, at)
    BY DEF Observe
  <2>3. c.pack.id = d.pack.id /\ c.root = d.root
    BY <1>4, <2>1, <2>2 DEF Report
  <2>4. PICK pack \in Packs : c \in PackCandidates(t, pack)
    BY DEF Candidates
  <2>5. PICK other \in Packs : d \in PackCandidates(t, other)
    BY DEF Candidates
  <2>6. c.pack = pack /\ d.pack = other
    BY <2>4, <2>5 DEF PackCandidates
  <2>7. pack = other
    BY <2>3, <2>6, RulesAssumption
  <2>8. c = d
    BY <2>3, <2>4, <2>5, <2>7, OneCandidate
  <2> QED
    BY <2>1, <2>2, <2>8
<1> QED
  BY <1>2, <1>3, <1>4

\* What Reconcile makes of the second look: the same reports, confirmed only if
\* they still cool and their grace has elapsed.
LEMMA ReconcileFacts ==
    ASSUME NEW first, NEW second, NEW elapsed, \A r \in second : IsReport(r)
    PROVE  /\ Reconcile(first, second, elapsed) = {} => second = {}
           /\ \A q \in Reconcile(first, second, elapsed) :
                 /\ IsReport(q)
                 /\ \E r \in second :
                       /\ q.key = r.key /\ q.root = r.root /\ q.members = r.members
                       /\ q.state = "confirmed" =>
                             r.state = "confirmed" \/ (r.state = "cooling" /\ r.key \in elapsed)
<1> DEFINE Before(r) == {f \in first : f.key = r.key /\ f.state = "cooling"}
           Same(f, r) == f.root = r.root /\ f.members = r.members
           Verdict(r) == IF r.state # "cooling" \/ Before(r) = {} THEN r.state
                         ELSE IF \E f \in Before(r) : ~Same(f, r) THEN "ambiguous"
                         ELSE IF r.key \in elapsed THEN "confirmed" ELSE "cooling"
<1>1. Reconcile(first, second, elapsed) = {[r EXCEPT !.state = Verdict(r)] : r \in second}
  BY DEF Reconcile
<1>2. ASSUME NEW r \in second
      PROVE  /\ Verdict(r) \in States
             /\ Verdict(r) = "confirmed" =>
                   r.state = "confirmed" \/ (r.state = "cooling" /\ r.key \in elapsed)
  BY DEF IsReport, States
<1> HIDE DEF Verdict
<1>3. ASSUME NEW r \in second
      PROVE  [r EXCEPT !.state = Verdict(r)] =
                [key |-> r.key, root |-> r.root, members |-> r.members,
                 decision |-> r.decision, state |-> Verdict(r)]
  <2>1. r = [key |-> r.key, root |-> r.root, members |-> r.members,
             decision |-> r.decision, state |-> r.state]
    BY DEF IsReport
  <2> QED
    BY <2>1
<1>4. ASSUME NEW q \in Reconcile(first, second, elapsed)
      PROVE  /\ IsReport(q)
             /\ \E r \in second :
                   /\ q.key = r.key /\ q.root = r.root /\ q.members = r.members
                   /\ q.state = "confirmed" =>
                         r.state = "confirmed" \/ (r.state = "cooling" /\ r.key \in elapsed)
  <2>1. PICK r \in second : q = [r EXCEPT !.state = Verdict(r)]
    BY <1>1
  <2>2. q = [key |-> r.key, root |-> r.root, members |-> r.members,
             decision |-> r.decision, state |-> Verdict(r)]
    BY <1>3, <2>1
  <2>3. /\ q.key = r.key /\ q.key = r.key /\ q.root = r.root /\ q.members = r.members
        /\ q.decision = r.decision /\ q.state = Verdict(r)
    BY <2>2
  <2>4. IsReport(q)
    BY <1>2, <2>2, <2>3 DEF IsReport
  <2> QED
    BY <1>2, <2>3, <2>4
<1> QED
  BY <1>1, <1>4

\* A snapshot says it is complete only if nothing was hidden from it.
LEMMA SnapshotFacts == \A shot \in Snapshots : SightHonest(shot[2])
<1> SUFFICES ASSUME NEW shot \in Snapshots PROVE SightHonest(shot[2])
  OBVIOUS
<1>1. CASE shot = <<"none", Sight(Table, TRUE, TRUE)>>
  BY <1>1 DEF SightHonest, Sight, Table
<1>2. CASE \E p : shot = <<"hide", Sight([q \in DOMAIN Table \ {p} |-> Table[q]], FALSE, FALSE)>>
  BY <1>2 DEF SightHonest, Sight
<1>3. CASE \E p : shot = <<"blind", Sight([Table EXCEPT ![p] = Unargued(@)], TRUE, FALSE)>>
  BY <1>3 DEF SightHonest, Sight
<1> QED
  BY <1>1, <1>2, <1>3 DEF Snapshots

-----------------------------------------------------------------------------
(* Cooling rows and what was seen *)

\* Nothing was seen, and nothing is under way.
LEMMA InitReconciliation == Init => ReconciliationInv
<1> SUFFICES ASSUME Init PROVE ReconciliationInv
  OBVIOUS
<1>1. cycle = Idle /\ Idle.at = "idle"
  BY DEF Init, Idle
<1>2. CycleInv
  BY <1>1 DEF CycleInv, Judged
<1>3. EpochInv /\ StreakInv /\ RowInv /\ GraceInv
  BY <1>1, ReconciliationAssumption
     DEF Init, EpochInv, StreakInv, RowInv, GraceInv, Judged, Looking
<1>4. RosterInv
  BY DEF Init, RosterInv, NoRoster
<1> QED
  BY <1>2, <1>3, <1>4 DEF ReconciliationInv

\* What the observation from outside gains by a look.
LEMMA StreaksFacts ==
    ASSUME StreakInv, NEW reports, NEW label, NEW last
    PROVE  /\ \A s \in Streaks(reports, label, last) :
                 s.since \in Int /\ s.last \in Int /\ s.since <= s.last /\ s.last <= time
           /\ \A s, u \in Streaks(reports, label, last) :
                 s.root = u.root /\ s.members = u.members => s = u
           /\ \A r \in Cooled(reports) : \E s \in Streaks(reports, label, last) :
                 /\ s.root = r.root /\ s.members = r.members /\ s.epoch = label /\ s.last = time
                 /\ \A u \in streak : /\ u.root = r.root /\ u.members = r.members
                                      /\ u.epoch = label /\ time - u.last <= Gap
                                      => s.since = u.since
           /\ ~last => \A s \in streak : \/ s \in Streaks(reports, label, last)
                                         \/ \E r \in Cooled(reports) :
                                               r.root = s.root /\ r.members = s.members
<1> DEFINE Same(s, r) == s.root = r.root /\ s.members = r.members
           On(r) == {s \in streak : Same(s, r) /\ s.epoch = label /\ time - s.last <= Gap}
           Began(r) == IF On(r) = {} THEN time ELSE (CHOOSE s \in On(r) : TRUE).since
           New(r) == [root |-> r.root, members |-> r.members, epoch |-> label,
                      since |-> Began(r), last |-> time]
           old == {s \in streak : ~last /\ \A r \in Cooled(reports) : ~Same(s, r)}
           all == Streaks(reports, label, last)
<1>1. all = {New(r) : r \in Cooled(reports)} \cup old
  BY DEF Streaks
<1>2. ASSUME NEW r
      PROVE  /\ Began(r) \in Int /\ Began(r) <= time
             /\ \A u \in On(r) : Began(r) = u.since
  <2>1. CASE On(r) = {}
    BY <2>1 DEF StreakInv
  <2>2. CASE On(r) # {}
    <3>1. PICK s \in On(r) : s = CHOOSE x \in On(r) : TRUE
      BY <2>2
    <3>2. Began(r) = s.since
      BY <2>2, <3>1
    <3>3. \A u \in On(r) : u = s
      BY DEF StreakInv
    <3>4. s.since \in Int /\ s.last \in Int /\ s.since <= s.last /\ s.last <= time /\ time \in Int
      BY DEF StreakInv
    <3> HIDE DEF On, Began
    <3> QED
      BY <3>2, <3>3, <3>4
  <2> QED
    BY <2>1, <2>2
<1>3. ASSUME NEW r, NEW q, Same(r, q) PROVE New(r) = New(q)
  <2>1. On(r) = On(q)
    BY <1>3
  <2>2. Began(r) = Began(q)
    <3> HIDE DEF On
    <3> QED
      BY <2>1
  <2> HIDE DEF Began
  <2> QED
    BY <1>3, <2>2
<1>4. ASSUME NEW r
      PROVE  /\ New(r).root = r.root /\ New(r).members = r.members /\ New(r).epoch = label
             /\ New(r).since = Began(r) /\ New(r).last = time
  OBVIOUS
<1>5. time \in Int
  BY DEF StreakInv
<1> HIDE DEF Began, New, all
<1>6. ASSUME NEW s \in all
      PROVE  s.since \in Int /\ s.last \in Int /\ s.since <= s.last /\ s.last <= time
  <2>1. CASE s \in old
    BY <2>1 DEF StreakInv
  <2>2. CASE \E r \in Cooled(reports) : s = New(r)
    BY <1>2, <1>4, <1>5, <2>2
  <2> QED
    BY <1>1, <2>1, <2>2
<1>7. ASSUME NEW s \in all, NEW u \in all, s.root = u.root, s.members = u.members
      PROVE  s = u
  <2>1. CASE s \in old /\ u \in old
    BY <1>7, <2>1 DEF StreakInv
  <2>2. ASSUME NEW r \in Cooled(reports), s = New(r), u \in old PROVE FALSE
    BY <1>4, <1>7, <2>2
  <2>3. ASSUME NEW r \in Cooled(reports), u = New(r), s \in old PROVE FALSE
    BY <1>4, <1>7, <2>3
  <2>4. ASSUME NEW r \in Cooled(reports), NEW q \in Cooled(reports), s = New(r), u = New(q)
        PROVE  s = u
    BY <1>3, <1>4, <1>7, <2>4
  <2> QED
    BY <1>1, <2>1, <2>2, <2>3, <2>4
<1>8. ASSUME NEW r \in Cooled(reports)
      PROVE  \E s \in all :
                /\ s.root = r.root /\ s.members = r.members /\ s.epoch = label /\ s.last = time
                /\ \A u \in streak : /\ u.root = r.root /\ u.members = r.members
                                     /\ u.epoch = label /\ time - u.last <= Gap
                                     => s.since = u.since
  <2>1. New(r) \in all
    BY <1>1
  <2>2. ASSUME NEW u \in streak, u.root = r.root, u.members = r.members, u.epoch = label,
               time - u.last <= Gap
        PROVE  New(r).since = u.since
    BY <1>2, <1>4, <2>2
  <2> QED
    BY <1>4, <2>1, <2>2
<1>9. ASSUME ~last, NEW s \in streak
      PROVE  s \in all \/ \E r \in Cooled(reports) : r.root = s.root /\ r.members = s.members
  BY <1>1, <1>9
<1> USE DEF all
<1> QED
  BY <1>6, <1>7, <1>8, <1>9

\* A tracked row claims no more than what was seen: it continues only a row
\* that was earned, whose observation the look continues as well.
LEMMA TrackFacts ==
    ASSUME ReconciliationInv, Looking, NEW reports, NEW last, NEW r \in Cooled(reports)
    PROVE  LET row == TrackCooling(r, cycle.label)
           IN /\ row.key = r.key /\ row.root = r.root /\ row.members = r.members
              /\ row.epoch = cycle.label /\ row.last = time /\ row.first \in Int
              /\ cycle.label >= 1 => \E s \in Streaks(reports, cycle.label, last) :
                    /\ s.root = r.root /\ s.members = r.members /\ s.epoch = cycle.label
                    /\ s.since <= row.first /\ s.last = time
<1> DEFINE L == cycle.label
           before == {x \in cooling : Continues(x, r, L)}
           Row(first) == [key |-> r.key, root |-> r.root, members |-> r.members, epoch |-> L,
                          first |-> first, last |-> time, lastWall |-> Wall]
           row == TrackCooling(r, L)
<1>0. StreakInv /\ RowInv /\ time \in Int
  BY DEF ReconciliationInv, StreakInv
<1>1. PICK s \in Streaks(reports, L, last) :
         /\ s.root = r.root /\ s.members = r.members /\ s.epoch = L /\ s.last = time
         /\ \A u \in streak : /\ u.root = r.root /\ u.members = r.members
                              /\ u.epoch = L /\ time - u.last <= Gap
                              => s.since = u.since
  BY <1>0, StreaksFacts
<1>2. s.since \in Int /\ s.since <= time
  BY <1>0, <1>1, StreaksFacts
<1>3. CASE before = {}
  <2>1. row = Row(time)
    BY <1>3 DEF TrackCooling
  <2>2. row.first = time
    BY <2>1
  <2> HIDE DEF row
  <2> QED
    BY <1>0, <1>1, <1>2, <2>1, <2>2 DEF row
<1>4. CASE before # {}
  <2>1. PICK x \in before : x = CHOOSE y \in before : TRUE
    BY <1>4
  <2>2. row = Row(x.first)
    BY <1>4, <2>1 DEF TrackCooling
  <2>3. /\ x \in cooling /\ x.root = r.root /\ x.members = r.members /\ x.epoch = L
        /\ time - x.last <= Gap
    BY DEF Continues
  <2>4. x.first \in Int /\ x.last \in Int /\ (Counts(x) => Earned(x))
    BY <1>0, <2>3 DEF RowInv
  <2>5. ASSUME L >= 1 PROVE s.since <= x.first
    <3>1. Counts(x)
      BY <2>3, <2>5 DEF Counts
    <3>2. ~(time - x.last > Gap)
      BY <1>0, <2>3, <2>4, ReconciliationAssumption
    <3>3. PICK u \in streak : /\ u.root = x.root /\ u.members = x.members /\ u.epoch = x.epoch
                              /\ u.since <= x.first /\ x.last <= u.last
      BY <2>4, <3>1, <3>2 DEF Earned
    <3>4. u.last \in Int
      BY <1>0 DEF StreakInv
    <3>5. time - u.last <= Gap
      BY <1>0, <2>3, <2>4, <3>3, <3>4, ReconciliationAssumption
    <3> QED
      BY <1>1, <2>3, <3>3, <3>5
  <2>6. /\ row.key = r.key /\ row.root = r.root /\ row.members = r.members
        /\ row.epoch = L /\ row.last = time /\ row.first = x.first
    BY <2>2
  <2> QED
    BY <1>1, <2>4, <2>5, <2>6
<1> QED
  BY <1>3, <1>4

\* Rows and observations stay earned when nothing is added to either, the clock
\* goes on, an epoch ends or a new one begins.
LEMMA RowsStay ==
    ASSUME ReconciliationInv, cooling' \subseteq cooling, UNCHANGED streak,
           time' \in Int, time <= time',
           (epoch' = epoch /\ (armed' => armed)) \/ epoch' = epoch + 1,
           Looking' => \/ Looking /\ cycle'.label = cycle.label
                       \/ cycle'.label = Label /\ epoch' = epoch
    PROVE  /\ StreakInv' /\ RowInv'
           /\ epoch' \in Nat /\ epoch' >= 1
           /\ \A row \in cooling' : row.epoch \in Nat /\ row.epoch <= epoch'
           /\ Looking' /\ armed' /\ cycle'.label # epoch' =>
                 \A row \in cooling' : row.epoch < epoch'
<1>1. /\ epoch \in Nat /\ epoch >= 1
      /\ \A row \in cooling : row.epoch \in Nat /\ row.epoch <= epoch
      /\ Looking /\ armed /\ cycle.label # epoch => \A row \in cooling : row.epoch < epoch
  BY DEF ReconciliationInv, EpochInv
<1>2. StreakInv'
  <2>1. StreakInv
    BY DEF ReconciliationInv
  <2> QED
    BY <2>1 DEF StreakInv
<1>3. ASSUME NEW row \in cooling'
      PROVE  /\ row.first \in Int /\ row.last \in Int
             /\ row.key[2] = row.root.pid
             /\ Counts(row)' => Earned(row)'
  <2>1. row \in cooling /\ RowInv /\ StreakInv
    BY DEF ReconciliationInv
  <2>2. /\ row.first \in Int /\ row.last \in Int
        /\ row.key[2] = row.root.pid
        /\ Counts(row) => Earned(row)
    BY <2>1 DEF RowInv
  <2>3. Counts(row)' => Counts(row)
    BY <1>1, <2>1 DEF Counts, Label
  <2>4. ASSUME Earned(row) PROVE Earned(row)'
    <3>1. CASE time - row.last > Gap
      <4>1. time \in Int
        BY <2>1 DEF StreakInv
      <4>2. time' - row.last > Gap
        BY <2>2, <3>1, <4>1, ReconciliationAssumption
      <4> QED
        BY <4>2 DEF Earned
    <3>2. CASE \E s \in streak : /\ s.root = row.root /\ s.members = row.members
                                 /\ s.epoch = row.epoch
                                 /\ s.since <= row.first /\ row.last <= s.last
      BY <3>2 DEF Earned
    <3> QED
      BY <2>4, <3>1, <3>2 DEF Earned
  <2> QED
    BY <2>2, <2>3, <2>4
<1>4. RowInv'
  BY <1>3 DEF RowInv
<1>5. epoch' \in Nat /\ epoch' >= 1 /\ epoch <= epoch'
  BY <1>1
<1>6. \A row \in cooling' : row.epoch \in Nat /\ row.epoch <= epoch'
  BY <1>1, <1>5
<1>7. ASSUME Looking', armed', cycle'.label # epoch', NEW row \in cooling'
      PROVE  row.epoch < epoch'
  <2>1. CASE epoch' = epoch + 1
    BY <1>1, <2>1
  <2>2. CASE epoch' = epoch /\ (armed' => armed)
    BY <1>1, <1>7, <2>2 DEF Label
  <2> QED
    BY <2>1, <2>2
<1> QED
  BY <1>2, <1>4, <1>5, <1>6, <1>7

-----------------------------------------------------------------------------
(* The steps *)

\* Steps that leave the cycle, the roster and the observations alone and add no
\* row: clocks, scenes, the owner, the end of an attempt and the commands.
LEMMA QuietKeeps ==
    ASSUME ReconciliationInv, UNCHANGED <<cycle, roster, streak>>, cooling' \subseteq cooling,
           time' \in Int, time <= time',
           (epoch' = epoch /\ (armed' => armed)) \/ epoch' = epoch + 1
    PROVE  ReconciliationInv'
<1>1. /\ StreakInv' /\ RowInv'
      /\ epoch' \in Nat /\ epoch' >= 1
      /\ \A row \in cooling' : row.epoch \in Nat /\ row.epoch <= epoch'
      /\ Looking' /\ armed' /\ cycle'.label # epoch' =>
            \A row \in cooling' : row.epoch < epoch'
  <2>1. Looking' => Looking /\ cycle'.label = cycle.label
    BY DEF Looking
  <2> QED
    BY <2>1, RowsStay
<1>2. CycleInv' /\ RosterInv'
  BY DEF ReconciliationInv, CycleInv, RosterInv, Judged
<1>3. EpochInv'
  <2>1. /\ cycle.at # "idle" => cycle.label \in Nat /\ cycle.label <= epoch
        /\ epoch \in Nat
    BY DEF ReconciliationInv, EpochInv
  <2>2. cycle'.at # "idle" => cycle'.label \in Nat /\ cycle'.label <= epoch'
    BY <2>1
  <2> QED
    BY <1>1, <2>2 DEF EpochInv
<1>4. GraceInv'
  BY DEF ReconciliationInv, GraceInv, Judged, Proved
<1> QED
  BY <1>1, <1>2, <1>3, <1>4 DEF ReconciliationInv

\* What the operator says, one client or the other.
Says(client) == \/ \E n \in newest : ProtectIncident(n, client)
                \/ \E p \in protected : UnprotectIncident(p, client)
                \/ OtherCommand(client)
Retries(client) == \E b \in blocks : AuthorizeRetry(b, client)

\* The world and the operator.
Around == AttemptEnds \/ Disarm \/ Arm \/ Stop
          \/ SceneChanges \/ OwnerEnds \/ OwnerFinishes \/ Tick \/ ClockJumps

LEMMA WorldKeeps ==
    ASSUME ReconciliationInv,
           \/ Around \/ PublicNoChange \/ UNCHANGED vars
           \/ \E client \in Clients : Says(client) \/ Retries(client)
    PROVE  ReconciliationInv'
<1> USE DEF Commands, Daemon, store, control, physical, history
<1>1. time \in Int /\ epoch \in Nat
  BY DEF ReconciliationInv, StreakInv, EpochInv
<1>2. /\ UNCHANGED <<cycle, roster, streak>> /\ cooling' \subseteq cooling
      /\ time' \in Int /\ time <= time'
      /\ (epoch' = epoch /\ (armed' => armed)) \/ epoch' = epoch + 1
  <2>1. CASE AttemptEnds
    BY <1>1, <2>1 DEF AttemptEnds, FailClosed, Block
  <2>2. CASE \E client \in Clients : Says(client) \/ Retries(client)
    <3>1. /\ UNCHANGED <<cycle, roster, streak, time, epoch, armed>>
          /\ cooling' \subseteq cooling
      BY <2>2 DEF Says, Retries, ProtectIncident, UnprotectIncident, OtherCommand, AuthorizeRetry
    <3> QED
      BY <1>1, <3>1
  <2>3. CASE Disarm \/ Arm \/ Stop
    BY <1>1, <2>3 DEF Disarm, Arm, Stop
  <2>4. CASE SceneChanges \/ OwnerEnds \/ OwnerFinishes \/ ClockJumps
    BY <1>1, <2>4 DEF SceneChanges, OwnerEnds, OwnerFinishes, ClockJumps
  <2>5. CASE Tick
    BY <1>1, <2>5 DEF Tick
  <2>6. CASE UNCHANGED vars
    BY <1>1, <2>6 DEF vars
  <2>7. CASE PublicNoChange
    BY <1>1, <2>7 DEF PublicNoChange
  <2> QED
    BY <2>1, <2>2, <2>3, <2>4, <2>5, <2>6, <2>7 DEF Around
<1> QED
  BY <1>2, QuietKeeps

\* Steps of the cycle after its looks, its end and the restart: they add no row
\* and no observation.
LEMMA StepFacts ==
    ASSUME ReconciliationInv, UNCHANGED <<cooling, streak, time, epoch>>, armed' => armed,
           Looking' => (Looking /\ cycle'.label = cycle.label) \/ cycle'.label = Label
    PROVE  /\ StreakInv' /\ RowInv'
           /\ (cycle'.at # "idle" => cycle'.label \in Nat /\ cycle'.label <= epoch) => EpochInv'
<1>1. time \in Int /\ epoch \in Nat
  BY DEF ReconciliationInv, StreakInv, EpochInv
<1>2. /\ StreakInv' /\ RowInv'
      /\ epoch' \in Nat /\ epoch' >= 1
      /\ \A row \in cooling' : row.epoch \in Nat /\ row.epoch <= epoch'
      /\ Looking' /\ armed' /\ cycle'.label # epoch' =>
            \A row \in cooling' : row.epoch < epoch'
  <2>1. time' \in Int /\ time <= time'
    BY <1>1
  <2>2. Looking' => \/ Looking /\ cycle'.label = cycle.label
                    \/ cycle'.label = Label /\ epoch' = epoch
    OBVIOUS
  <2> QED
    BY <2>1, <2>2, RowsStay
<1> QED
  BY <1>2 DEF EpochInv

\* A cycle begins with an honest snapshot, under the label of this moment.
LEMMA BeginKeeps == ASSUME ReconciliationInv, BeginCycle PROVE ReconciliationInv'
<1>1. PICK shot \in Snapshots :
         cycle' = [at |-> "first", now |-> Wall, label |-> Label,
                   revision |-> revision.memory, sight |-> shot[2]]
  BY DEF BeginCycle
<1>2. /\ UNCHANGED <<cooling, streak, time, epoch, armed>>
      /\ roster' = [roster EXCEPT !.freshness = "scanning"]
  BY DEF BeginCycle, physical, control, store, history
<1>3. cycle'.at = "first" /\ cycle'.label = Label /\ cycle'.sight = shot[2]
  BY <1>1
<1>4. Label \in Nat /\ Label <= epoch
  BY DEF Label, ReconciliationInv, EpochInv
<1>5. StreakInv' /\ RowInv' /\ EpochInv'
  BY <1>2, <1>3, <1>4, StepFacts
<1>6. CycleInv'
  <2>1. SightHonest(shot[2])
    BY SnapshotFacts
  <2>2. SightHonest(cycle.sight)'
    BY <1>3, <2>1 DEF SightHonest
  <2>3. cycle' = [at |-> cycle'.at, now |-> cycle'.now, label |-> cycle'.label,
                  revision |-> cycle'.revision, sight |-> cycle'.sight]
    BY <1>1
  <2> QED
    BY <1>3, <2>2, <2>3 DEF CycleInv, Judged
<1>7. GraceInv'
  BY <1>3 DEF GraceInv, Judged
<1>8. RosterInv'
  <2>1. RosterInv
    BY DEF ReconciliationInv
  <2>2. roster' = [freshness |-> "scanning", reports |-> roster.reports,
                   complete |-> roster.complete, at |-> roster.at, really |-> roster.really]
    BY <1>2, <2>1 DEF RosterInv
  <2> QED
    BY <2>1, <2>2 DEF RosterInv
<1> QED
  BY <1>5, <1>6, <1>7, <1>8 DEF ReconciliationInv

\* After a look every row is earned again: the tracked ones by the look itself,
\* the ones it did not concern by what backed them before.
LEMMA LookRows ==
    ASSUME ReconciliationInv, Looking, NEW reports, \A r \in reports : IsReport(r), NEW last,
           \A row \in cooling' : \/ \E r \in Cooled(reports) : row = TrackCooling(r, cycle.label)
                                 \/ row \in cooling /\ ~last,
           streak' = Streaks(reports, cycle.label, last),
           UNCHANGED <<time, epoch, armed>>,
           cycle'.label = cycle.label
    PROVE  StreakInv' /\ RowInv' /\ EpochInv'
<1> DEFINE L == cycle.label
<1>1. /\ StreakInv /\ RowInv /\ time \in Int
      /\ epoch \in Nat /\ epoch >= 1 /\ L \in Nat /\ L <= epoch
      /\ \A row \in cooling : row.epoch \in Nat /\ row.epoch <= epoch
      /\ armed /\ L # epoch => \A row \in cooling : row.epoch < epoch
  <2>1. cycle.at # "idle"
    BY DEF Looking
  <2> QED
    BY <2>1 DEF ReconciliationInv, StreakInv, EpochInv
<1>2. StreakInv'
  BY <1>1, StreaksFacts DEF StreakInv
<1>3. ASSUME NEW row \in cooling', NEW r \in Cooled(reports), row = TrackCooling(r, L)
      PROVE  /\ row.first \in Int /\ row.last \in Int
             /\ row.key[2] = row.root.pid
             /\ row.epoch = L
             /\ row.epoch >= 1 => Earned(row)'
  <2>1. /\ row.key = r.key /\ row.root = r.root /\ row.members = r.members
        /\ row.epoch = L /\ row.last = time /\ row.first \in Int
        /\ L >= 1 => \E s \in streak' :
              /\ s.root = r.root /\ s.members = r.members /\ s.epoch = L
              /\ s.since <= row.first /\ s.last = time
    BY <1>3, TrackFacts
  <2>2. r.key[2] = r.root.pid
    BY DEF IsReport, Cooled
  <2>3. ASSUME L >= 1 PROVE Earned(row)'
    BY <1>1, <2>1, <2>3 DEF Earned
  <2> QED
    BY <1>1, <2>1, <2>2, <2>3
<1>4. ASSUME NEW row \in cooling', row \in cooling, ~last
      PROVE  /\ row.first \in Int /\ row.last \in Int
             /\ row.key[2] = row.root.pid
             /\ row.epoch \in Nat /\ row.epoch <= epoch
             /\ (armed /\ L # epoch => row.epoch < epoch)
             /\ Counts(row) => Earned(row)'
  <2>1. /\ row.first \in Int /\ row.last \in Int
        /\ row.key[2] = row.root.pid
        /\ Counts(row) => Earned(row)
    BY <1>1, <1>4 DEF RowInv
  <2>2. ASSUME Counts(row) PROVE Earned(row)'
    <3>1. CASE time - row.last > Gap
      BY <3>1 DEF Earned
    <3>2. CASE ~(time - row.last > Gap)
      <4>1. PICK s \in streak : /\ s.root = row.root /\ s.members = row.members
                                /\ s.epoch = row.epoch
                                /\ s.since <= row.first /\ row.last <= s.last
        BY <2>1, <2>2, <3>2 DEF Earned
      <4>2. s.last \in Int /\ s.last <= time
        BY <1>1 DEF StreakInv
      <4>3. row.epoch = L
        BY <1>1, <1>4, <2>2 DEF Counts
      <4>4. CASE s \in streak'
        BY <4>1, <4>4 DEF Earned
      <4>5. CASE s \notin streak'
        <5>1. PICK r \in Cooled(reports) : r.root = s.root /\ r.members = s.members
          BY <1>1, <1>4, <4>5, StreaksFacts
        <5>2. PICK u \in streak' :
                 /\ u.root = r.root /\ u.members = r.members /\ u.epoch = L /\ u.last = time
                 /\ \A x \in streak : /\ x.root = r.root /\ x.members = r.members
                                      /\ x.epoch = L /\ time - x.last <= Gap
                                      => u.since = x.since
          BY <1>1, StreaksFacts
        <5>3. time - s.last <= Gap
          BY <1>1, <2>1, <3>2, <4>1, <4>2, ReconciliationAssumption
        <5>4. u.since = s.since
          BY <4>1, <4>3, <5>1, <5>2, <5>3
        <5>5. row.last <= u.last
          BY <1>1, <2>1, <4>1, <4>2, <5>2
        <5> QED
          BY <4>1, <4>3, <5>1, <5>2, <5>4, <5>5 DEF Earned
      <4> QED
        BY <4>4, <4>5
    <3> QED
      BY <3>1, <3>2
  <2> QED
    BY <1>1, <1>4, <2>1, <2>2
<1>5. \A row : Counts(row)' => Counts(row) /\ row.epoch >= 1
  BY DEF Counts
<1>6. RowInv'
  BY <1>3, <1>4, <1>5 DEF RowInv
<1>7. EpochInv'
  <2>1. ASSUME NEW row \in cooling'
        PROVE  /\ row.epoch \in Nat /\ row.epoch <= epoch
               /\ armed /\ L # epoch => row.epoch < epoch
    <3>1. CASE \E r \in Cooled(reports) : row = TrackCooling(r, L)
      <4>1. row.epoch = L
        BY <1>3, <3>1
      <4> QED
        BY <1>1, <4>1
    <3>2. CASE row \in cooling /\ ~last
      BY <1>4, <3>2
    <3> QED
      BY <3>1, <3>2
  <2> QED
    BY <1>1, <2>1 DEF EpochInv
<1> QED
  BY <1>2, <1>6, <1>7

\* The first look.
LEMMA FirstKeeps == ASSUME ReconciliationInv, FirstLook PROVE ReconciliationInv'
<1> DEFINE ctx == Context(lease')
           reports == Observe(ctx, cycle.sight.table, cycle.sight.at)
           L == cycle.label
           idle == ~(Cooled(reports) # {})
<1>1. /\ cycle.at = "first"
      /\ cooling' = IF Cooled(reports) # {} THEN Tracked(reports, L) ELSE {}
      /\ streak' = Streaks(reports, L, idle)
      /\ cycle' = IF Cooled(reports) # {}
                  THEN [at |-> "waiting", now |-> cycle.now, label |-> L,
                        revision |-> cycle.revision, ctx |-> ctx, sight |-> cycle.sight,
                        reports |-> reports]
                  ELSE Settling(cycle, reports, cycle.sight)
      /\ UNCHANGED <<time, epoch, armed, roster>>
  BY DEF FirstLook, control, history
<1>2. /\ \A r \in reports : IsReport(r) /\ r.state # "confirmed"
      /\ reports = {} => Candidates(cycle.sight.table) = {}
  BY ObserveFacts
<1> HIDE DEF ctx, reports
<1>3. Looking /\ SightHonest(cycle.sight)
  BY <1>1 DEF Looking, ReconciliationInv, CycleInv
<1>4. /\ cycle'.at \in {"waiting", "settle"} /\ cycle'.label = L
      /\ cycle'.sight = cycle.sight /\ cycle'.reports = reports
      /\ \/ /\ cycle'.at = "waiting"
            /\ cycle' = [at |-> cycle'.at, now |-> cycle'.now, label |-> cycle'.label,
                         revision |-> cycle'.revision, ctx |-> cycle'.ctx, sight |-> cycle'.sight,
                         reports |-> cycle'.reports]
         \/ /\ cycle'.at = "settle"
            /\ cycle' = [at |-> cycle'.at, now |-> cycle'.now, label |-> cycle'.label,
                         revision |-> cycle'.revision, sight |-> cycle'.sight,
                         reports |-> cycle'.reports]
  BY <1>1 DEF Settling
<1>5. ASSUME NEW row \in cooling'
      PROVE  \/ \E r \in Cooled(reports) : row = TrackCooling(r, L)
             \/ row \in cooling /\ ~idle
  BY <1>1 DEF Tracked
<1>6. StreakInv' /\ RowInv' /\ EpochInv'
  <2> HIDE DEF idle
  <2> QED
    BY <1>1, <1>2, <1>3, <1>4, <1>5, LookRows
<1>7. CycleInv'
  <2>1. SightHonest(cycle.sight)' /\ ReportsHonest(cycle.reports, cycle.sight)'
    BY <1>2, <1>3, <1>4 DEF SightHonest, ReportsHonest, IsReport
  <2> QED
    BY <1>2, <1>4, <2>1 DEF CycleInv, Judged
<1>8. GraceInv'
  BY <1>2, <1>4 DEF GraceInv
<1>9. RosterInv'
  BY <1>1 DEF RosterInv, ReconciliationInv
<1> QED
  BY <1>6, <1>7, <1>8, <1>9 DEF ReconciliationInv

\* The second look.  It confirms what cooled in both looks and whose row says
\* that the grace has elapsed; the observation behind that row says so too.
LEMMA SecondKeeps == ASSUME ReconciliationInv, SecondLook PROVE ReconciliationInv'
<1> DEFINE L == cycle.label
<1>0. PICK shot \in Snapshots :
         \E reports \in {Observe(cycle.ctx, shot[2].table, shot[2].at)} :
            LET rows == Tracked(reports, L)
            IN /\ cooling' = RetainCooling(rows, reports)
               /\ streak' = Streaks(reports, L, TRUE)
               /\ cycle' = Settling(cycle,
                                    Reconcile(cycle.reports, reports, Elapsed(rows)), shot[2])
  BY DEF SecondLook
<1> DEFINE reports == Observe(cycle.ctx, shot[2].table, shot[2].at)
           rows == Tracked(reports, L)
           judged == Reconcile(cycle.reports, reports, Elapsed(rows))
<1>1. /\ cycle.at = "waiting"
      /\ cooling' = RetainCooling(rows, reports)
      /\ streak' = Streaks(reports, L, TRUE)
      /\ cycle' = Settling(cycle, judged, shot[2])
      /\ UNCHANGED <<time, epoch, armed, roster>>
  BY <1>0 DEF SecondLook, physical, control, history
<1>2. /\ \A r \in reports : IsReport(r) /\ r.state # "confirmed"
      /\ reports = {} => Candidates(shot[2].table) = {}
      /\ \A r, q \in reports : r.key = q.key => r = q
  BY ObserveFacts
<1> HIDE DEF reports
<1>3. /\ judged = {} => reports = {}
      /\ \A q \in judged :
            /\ IsReport(q)
            /\ \E r \in reports :
                  /\ q.key = r.key /\ q.root = r.root /\ q.members = r.members
                  /\ q.state = "confirmed" =>
                        r.state = "confirmed" \/ (r.state = "cooling" /\ r.key \in Elapsed(rows))
  BY <1>2, ReconcileFacts
<1> HIDE DEF judged, rows
<1>4. Looking
  BY <1>1 DEF Looking
<1>5. /\ cycle'.at = "settle" /\ cycle'.label = L
      /\ cycle'.sight = shot[2] /\ cycle'.reports = judged
      /\ cycle' = [at |-> cycle'.at, now |-> cycle'.now, label |-> cycle'.label,
                   revision |-> cycle'.revision, sight |-> cycle'.sight, reports |-> cycle'.reports]
  BY <1>1 DEF Settling
<1>6. ASSUME NEW row \in rows, NEW r \in Cooled(reports), r.key = row.key
      PROVE  \E q \in Cooled(reports) : row = TrackCooling(q, L)
  BY <1>6 DEF rows, Tracked
<1>7. \A row \in cooling' : \E r \in Cooled(reports) : row = TrackCooling(r, L)
  BY <1>1, <1>6 DEF RetainCooling
<1>8. StreakInv' /\ RowInv' /\ EpochInv'
  <2> DEFINE last == TRUE
  <2>1. streak' = Streaks(reports, L, last)
    BY <1>1
  <2> HIDE DEF last
  <2>2. \A row \in cooling' : \/ \E r \in Cooled(reports) : row = TrackCooling(r, cycle.label)
                              \/ row \in cooling /\ ~last
    BY <1>7
  <2>3. \A r \in reports : IsReport(r)
    BY <1>2
  <2>4. UNCHANGED <<time, epoch, armed>> /\ cycle'.label = cycle.label
    BY <1>1, <1>5
  <2> QED
    BY <1>4, <2>1, <2>2, <2>3, <2>4, LookRows
<1>9. CycleInv'
  <2>1. SightHonest(shot[2])
    BY SnapshotFacts
  <2>2. SightHonest(cycle.sight)' /\ ReportsHonest(cycle.reports, cycle.sight)'
    BY <1>2, <1>3, <1>5, <2>1 DEF SightHonest, ReportsHonest, IsReport
  <2> QED
    BY <1>5, <2>2 DEF CycleInv, Judged
<1>10. GraceInv'
  <2> SUFFICES ASSUME L >= 1, NEW q \in judged, q.state = "confirmed"
               PROVE  \E s \in streak' : /\ s.root = q.root /\ s.members = q.members
                                         /\ s.epoch = L /\ s.last - s.since >= Grace
    BY <1>5 DEF GraceInv, Proved
  <2>1. PICK r \in reports : /\ q.key = r.key /\ q.root = r.root /\ q.members = r.members
                             /\ r.state = "cooling" /\ r.key \in Elapsed(rows)
    BY <1>2, <1>3
  <2>2. r \in Cooled(reports)
    BY <2>1 DEF Cooled
  <2>3. PICK row \in rows : row.key = r.key /\ time - row.first >= Grace
    BY <2>1 DEF Elapsed
  <2>4. PICK c \in Cooled(reports) : row = TrackCooling(c, L)
    BY <1>6, <2>2, <2>3
  <2>5. /\ row.key = c.key /\ row.first \in Int
        /\ \E s \in streak' : /\ s.root = c.root /\ s.members = c.members /\ s.epoch = L
                              /\ s.since <= row.first /\ s.last = time
    BY <1>1, <1>4, <2>4, TrackFacts
  <2>6. c = r
    BY <1>2, <2>3, <2>5 DEF Cooled
  <2>7. PICK s \in streak' : /\ s.root = c.root /\ s.members = c.members /\ s.epoch = L
                             /\ s.since <= row.first /\ s.last = time
    BY <2>5
  <2>8. s.since \in Int /\ time \in Int
    BY <1>1, <1>8 DEF StreakInv, ReconciliationInv
  <2>9. s.last - s.since >= Grace
    BY <2>3, <2>5, <2>7, <2>8, ReconciliationAssumption
  <2> QED
    BY <2>1, <2>6, <2>7, <2>9
<1>11. RosterInv'
  BY <1>1 DEF RosterInv, ReconciliationInv
<1> QED
  BY <1>8, <1>9, <1>10, <1>11 DEF ReconciliationInv

\* A later step of a cycle that adds no row and no observation keeps the rest.
LEMMA LaterKeeps ==
    ASSUME ReconciliationInv, cycle.at # "idle",
           UNCHANGED <<cooling, streak, time, epoch>>, armed' => armed,
           cycle'.at \in {"settle", "publish", "dispatch", "finish"},
           cycle'.label = cycle.label
    PROVE  StreakInv' /\ RowInv' /\ EpochInv'
<1>1. cycle.label \in Nat /\ cycle.label <= epoch
  BY DEF ReconciliationInv, EpochInv
<1>2. ~Looking'
  BY DEF Looking
<1> QED
  BY <1>1, <1>2, StepFacts

\* An interrupted cycle has no confirmed report.
LEMMA InterruptedKeeps == ASSUME ReconciliationInv, Interrupted PROVE ReconciliationInv'
<1>1. /\ cycle.at = "waiting"
      /\ cycle' = [at |-> "settle", now |-> cycle.now, label |-> cycle.label,
                   revision |-> cycle.revision, sight |-> cycle.sight, reports |-> cycle.reports]
      /\ UNCHANGED <<cooling, streak, time, epoch, armed, roster>>
  BY DEF Interrupted, Settling, physical, control, store, history
<1>2. /\ cycle'.at = "settle" /\ cycle'.label = cycle.label
      /\ cycle'.sight = cycle.sight /\ cycle'.reports = cycle.reports
      /\ cycle' = [at |-> cycle'.at, now |-> cycle'.now, label |-> cycle'.label,
                   revision |-> cycle'.revision, sight |-> cycle'.sight, reports |-> cycle'.reports]
  BY <1>1
<1>3. StreakInv' /\ RowInv' /\ EpochInv'
  BY <1>1, <1>2, LaterKeeps
<1>4. /\ SightHonest(cycle.sight) /\ ReportsHonest(cycle.reports, cycle.sight)
      /\ \A r \in cycle.reports : r.state # "confirmed"
  BY <1>1 DEF ReconciliationInv, CycleInv, Judged, Idle
<1>5. CycleInv'
  <2>1. SightHonest(cycle.sight)' /\ ReportsHonest(cycle.reports, cycle.sight)'
    BY <1>2, <1>4 DEF SightHonest, ReportsHonest, IsReport
  <2> QED
    BY <1>2, <2>1 DEF CycleInv, Judged
<1>6. GraceInv'
  BY <1>2, <1>4 DEF GraceInv
<1>7. RosterInv'
  BY <1>1 DEF ReconciliationInv, RosterInv
<1> QED
  BY <1>3, <1>5, <1>6, <1>7 DEF ReconciliationInv

\* Once judged, a cycle whose reports only lose confirmation keeps its grace.
LEMMA JudgedKeeps ==
    ASSUME ReconciliationInv, Judged, Judged',
           UNCHANGED <<cooling, streak, time, epoch>>, armed' => armed,
           cycle'.label = cycle.label, cycle'.sight = cycle.sight,
           cycle' = [at |-> cycle'.at, now |-> cycle'.now, label |-> cycle'.label,
                     revision |-> cycle'.revision, sight |-> cycle'.sight,
                     reports |-> cycle'.reports],
           \A q \in cycle'.reports : IsReport(q),
           \A q \in cycle'.reports : q.state = "confirmed" => q \in cycle.reports,
           cycle'.reports = {} => cycle.reports = {}
    PROVE  CycleInv' /\ EpochInv' /\ StreakInv' /\ RowInv' /\ GraceInv'
<1>1. cycle.at # "idle" /\ cycle'.at \in {"settle", "publish", "dispatch", "finish"}
  BY DEF Judged
<1>2. StreakInv' /\ RowInv' /\ EpochInv'
  BY <1>1, LaterKeeps
<1>3. SightHonest(cycle.sight) /\ ReportsHonest(cycle.reports, cycle.sight)
  BY <1>1 DEF ReconciliationInv, CycleInv
<1>4. CycleInv'
  <2>1. SightHonest(cycle.sight)'
    BY <1>3 DEF SightHonest
  <2>2. ReportsHonest(cycle.reports, cycle.sight)'
    BY <1>3 DEF ReportsHonest, IsReport
  <2> QED
    BY <1>1, <2>1, <2>2 DEF CycleInv, Judged
<1>5. GraceInv'
  <2>1. GraceInv
    BY DEF ReconciliationInv
  <2> QED
    BY <2>1 DEF GraceInv, Proved
<1> QED
  BY <1>2, <1>4, <1>5

\* Aging the rows turns reports into protected ones and confirms none.
LEMMA SettleFacts ==
    ASSUME ReconciliationInv, SettleRows
    PROVE  /\ Judged /\ Judged' /\ cycle'.label = cycle.label /\ cycle'.sight = cycle.sight
           /\ cycle'.revision = cycle.revision
           /\ cycle' = [at |-> cycle'.at, now |-> cycle'.now, label |-> cycle'.label,
                        revision |-> cycle'.revision, sight |-> cycle'.sight,
                        reports |-> cycle'.reports]
           /\ \A q \in cycle'.reports : IsReport(q)
           /\ \A q \in cycle'.reports : q.state = "confirmed" => q \in cycle.reports
           /\ cycle'.reports = {} => cycle.reports = {}
<1> DEFINE Marked(r) == IF IsIncidentProtected(protected', r) THEN ApplyOwnerProtection(r) ELSE r
<1>1. /\ cycle.at = "settle"
      /\ cycle' = [cycle EXCEPT !.at = "publish", !.reports = {Marked(r) : r \in @}]
  BY DEF SettleRows
<1>2. /\ cycle = [at |-> cycle.at, now |-> cycle.now, label |-> cycle.label,
                  revision |-> cycle.revision, sight |-> cycle.sight, reports |-> cycle.reports]
      /\ \A r \in cycle.reports : IsReport(r)
  BY <1>1 DEF ReconciliationInv, CycleInv, ReportsHonest, Idle, Judged
<1>3. ASSUME NEW r \in cycle.reports
      PROVE  IsReport(Marked(r)) /\ (Marked(r).state = "confirmed" => Marked(r) = r)
  <2>1. r = [key |-> r.key, root |-> r.root, members |-> r.members,
             decision |-> r.decision, state |-> r.state] /\ r.key[2] = r.root.pid
    BY <1>2 DEF IsReport
  <2>2. CASE IsIncidentProtected(protected', r)
    <3>1. Marked(r) = [key |-> r.key, root |-> r.root, members |-> r.members,
                       decision |-> r.decision, state |-> "protected"]
      BY <2>1, <2>2 DEF ApplyOwnerProtection
    <3> HIDE DEF Marked
    <3> QED
      BY <2>1, <3>1 DEF IsReport, States
  <2>3. CASE ~IsIncidentProtected(protected', r)
    BY <1>2, <2>3
  <2> QED
    BY <2>2, <2>3
<1> HIDE DEF Marked
<1>4. cycle' = [at |-> "publish", now |-> cycle.now, label |-> cycle.label,
                revision |-> cycle.revision, sight |-> cycle.sight,
                reports |-> {Marked(r) : r \in cycle.reports}]
  BY <1>1, <1>2
<1>5. /\ Judged /\ Judged'
      /\ cycle'.label = cycle.label /\ cycle'.sight = cycle.sight
      /\ cycle'.revision = cycle.revision
      /\ cycle' = [at |-> cycle'.at, now |-> cycle'.now, label |-> cycle'.label,
                   revision |-> cycle'.revision, sight |-> cycle'.sight, reports |-> cycle'.reports]
      /\ cycle'.reports = {Marked(r) : r \in cycle.reports}
  BY <1>1, <1>4 DEF Judged
<1> QED
  BY <1>3, <1>5

\* The rows are aged.
LEMMA SettleKeeps == ASSUME ReconciliationInv, SettleRows PROVE ReconciliationInv'
<1>1. UNCHANGED <<cooling, streak, time, epoch, armed, roster>>
  BY DEF SettleRows, physical, control, history
<1>2. CycleInv' /\ EpochInv' /\ StreakInv' /\ RowInv' /\ GraceInv'
  BY <1>1, SettleFacts, JudgedKeeps
<1>3. RosterInv'
  BY <1>1 DEF ReconciliationInv, RosterInv
<1> QED
  BY <1>2, <1>3 DEF ReconciliationInv

\* A step that only moves the judged cycle on.
LEMMA MovesOn ==
    ASSUME ReconciliationInv, Judged, NEW at \in {"dispatch", "finish"},
           cycle' = [cycle EXCEPT !.at = at],
           UNCHANGED <<cooling, streak, time, epoch, armed>>
    PROVE  CycleInv' /\ EpochInv' /\ StreakInv' /\ RowInv' /\ GraceInv'
<1>1. /\ cycle = [at |-> cycle.at, now |-> cycle.now, label |-> cycle.label,
                  revision |-> cycle.revision, sight |-> cycle.sight, reports |-> cycle.reports]
      /\ \A r \in cycle.reports : IsReport(r)
  BY DEF ReconciliationInv, CycleInv, ReportsHonest, Idle, Judged
<1>2. cycle' = [at |-> at, now |-> cycle.now, label |-> cycle.label, revision |-> cycle.revision,
                sight |-> cycle.sight, reports |-> cycle.reports]
  BY <1>1
<1>3. /\ Judged'
      /\ cycle'.label = cycle.label /\ cycle'.sight = cycle.sight
      /\ cycle' = [at |-> cycle'.at, now |-> cycle'.now, label |-> cycle'.label,
                   revision |-> cycle'.revision, sight |-> cycle'.sight, reports |-> cycle'.reports]
      /\ cycle'.reports = cycle.reports
  BY <1>2 DEF Judged
<1> QED
  BY <1>1, <1>3, JudgedKeeps

\* The roster says what the cycle saw.
LEMMA PublishKeeps == ASSUME ReconciliationInv, Publish PROVE ReconciliationInv'
<1> DEFINE Shown(r) == [state |-> r.state, decision |-> r.decision]
<1>1. /\ cycle.at = "publish"
      /\ roster' = [freshness |-> "published", at |-> cycle.sight.at,
                    reports |-> {Shown(r) : r \in cycle.reports},
                    complete |-> ProvesClassificationCoverage(cycle.sight),
                    really |-> cycle.sight.really]
      /\ cycle' = [cycle EXCEPT !.at = "dispatch"]
      /\ UNCHANGED <<cooling, streak, time, epoch, armed>>
  BY DEF Publish, physical, control, history
<1>2. Judged
  BY <1>1 DEF Judged
<1>3. CycleInv' /\ EpochInv' /\ StreakInv' /\ RowInv' /\ GraceInv'
  BY <1>1, <1>2, MovesOn
<1>4. SightHonest(cycle.sight) /\ ReportsHonest(cycle.reports, cycle.sight)
  BY <1>1, <1>2 DEF ReconciliationInv, CycleInv
<1>5. RosterInv'
  <2>1. /\ roster'.reports = {Shown(r) : r \in cycle.reports}
        /\ roster'.really = cycle.sight.really
        /\ roster'.complete = ProvesClassificationCoverage(cycle.sight)
        /\ roster' = [freshness |-> roster'.freshness, reports |-> roster'.reports,
                      complete |-> roster'.complete, at |-> roster'.at, really |-> roster'.really]
    <3> HIDE DEF Shown
    <3> QED
      BY <1>1
  <2>2. \A x \in roster'.reports : x.state \in States
    BY <1>4, <2>1 DEF ReportsHonest, IsReport
  <2>3. roster'.complete /\ roster'.reports = {} =>
            Candidates(TableIn(roster'.really[1], roster'.really[2])) = {}
    <3>1. roster'.reports = {} => cycle.reports = {}
      <4> HIDE DEF Shown
      <4> QED
        BY <2>1
    <3> QED
      BY <1>4, <2>1, <3>1 DEF ReportsHonest, SightHonest, ProvesClassificationCoverage
  <2> QED
    BY <2>1, <2>2, <2>3 DEF RosterInv
<1> QED
  BY <1>3, <1>5 DEF ReconciliationInv

\* Dispatch and its refusals leave what was judged alone.
LEMMA DispatchKeeps ==
    ASSUME ReconciliationInv, NoDispatch \/ \E r \in cycle.reports : Dispatch(r)
    PROVE  ReconciliationInv'
<1>1. /\ cycle.at = "dispatch"
      /\ cycle' = [cycle EXCEPT !.at = "finish"]
      /\ UNCHANGED <<cooling, streak, time, epoch, armed, roster>>
  <2>1. CASE NoDispatch
    BY <2>1 DEF NoDispatch, physical, control, store, history
  <2>2. CASE \E r \in cycle.reports : Dispatch(r)
    BY <2>2 DEF Dispatch, physical, control, store, history
  <2> QED
    BY <2>1, <2>2
<1>2. Judged
  BY <1>1 DEF Judged
<1>3. CycleInv' /\ EpochInv' /\ StreakInv' /\ RowInv' /\ GraceInv'
  BY <1>1, <1>2, MovesOn
<1>4. RosterInv'
  BY <1>1 DEF ReconciliationInv, RosterInv
<1> QED
  BY <1>3, <1>4 DEF ReconciliationInv

\* The end of a cycle, its failure and a new process hold nothing.
LEMMA EndKeeps ==
    ASSUME ReconciliationInv, FinishCycle \/ CycleFails \/ Restart
    PROVE  ReconciliationInv'
<1>1. /\ cycle' = Idle
      /\ UNCHANGED <<cooling, streak, time, epoch>>
      /\ armed' => armed
  <2>1. CASE FinishCycle
    BY <2>1 DEF FinishCycle, physical, control, store, history
  <2>2. CASE CycleFails
    <3>1. armed' = FALSE /\ cycle' = Idle /\ UNCHANGED <<cooling, streak, time, epoch>>
      BY <2>2 DEF CycleFails, FailClosed, physical, store, history
    <3> QED
      BY <3>1
  <2>3. CASE Restart
    <3>1. armed' = FALSE /\ cycle' = Idle /\ UNCHANGED <<cooling, streak, time, epoch>>
      BY <2>3 DEF Restart, physical, history
    <3> QED
      BY <3>1
  <2> QED
    BY <2>1, <2>2, <2>3
<1>2. cycle'.at = "idle" /\ ~Looking' /\ ~Judged'
  BY <1>1 DEF Idle, Looking, Judged
<1>3. StreakInv' /\ RowInv' /\ EpochInv'
  BY <1>1, <1>2, StepFacts
<1>4. CycleInv' /\ GraceInv'
  BY <1>1, <1>2 DEF CycleInv, GraceInv, Idle
<1>5. RosterInv'
  <2>1. RosterInv
    BY DEF ReconciliationInv
  <2>2. CASE roster' = NoRoster
    BY <2>2 DEF RosterInv, NoRoster
  <2>3. ASSUME NEW f, roster' = [roster EXCEPT !.freshness = f] PROVE RosterInv'
    <3>1. roster' = [freshness |-> f, reports |-> roster.reports,
                     complete |-> roster.complete, at |-> roster.at, really |-> roster.really]
      BY <2>1, <2>3 DEF RosterInv
    <3> QED
      BY <2>1, <3>1 DEF RosterInv
  <2>4. \/ roster' = NoRoster
        \/ \E f : roster' = [roster EXCEPT !.freshness = f]
    <3>1. CASE FinishCycle
      BY <3>1 DEF FinishCycle
    <3>2. CASE CycleFails
      <4>1. roster' = [roster EXCEPT !.freshness =
                          IF roster.freshness = "published" THEN "current" ELSE "stale"]
        BY <3>2 DEF CycleFails
      <4> QED
        BY <4>1
    <3>3. CASE Restart
      BY <3>3 DEF Restart
    <3> QED
      BY <3>1, <3>2, <3>3
  <2> QED
    BY <2>2, <2>3, <2>4
<1> QED
  BY <1>3, <1>4, <1>5 DEF ReconciliationInv

\* Every step keeps the invariant.
LEMMA StepKeeps == ASSUME ReconciliationInv, [Next]_vars PROVE ReconciliationInv'
<1>1. CASE BeginCycle
  BY <1>1, BeginKeeps
<1>2. CASE FirstLook
  BY <1>2, FirstKeeps
<1>3. CASE SecondLook
  BY <1>3, SecondKeeps
<1>4. CASE Interrupted
  BY <1>4, InterruptedKeeps
<1>5. CASE SettleRows
  BY <1>5, SettleKeeps
<1>6. CASE Publish
  BY <1>6, PublishKeeps
<1>7. CASE NoDispatch \/ \E r \in IF cycle.at = "dispatch" THEN cycle.reports ELSE {} : Dispatch(r)
  <2>1. NoDispatch \/ \E r \in cycle.reports : Dispatch(r)
    BY <1>7
  <2> QED
    BY <2>1, DispatchKeeps
<1>8. CASE FinishCycle \/ CycleFails \/ Restart
  BY <1>8, EndKeeps
<1>9. CASE \/ Around \/ PublicNoChange \/ UNCHANGED vars
           \/ \E client \in Clients : Says(client) \/ Retries(client)
  BY <1>9, WorldKeeps
<1> QED
  BY <1>1, <1>2, <1>3, <1>4, <1>5, <1>6, <1>7, <1>8, <1>9 DEF Next, Says, Retries, Around

-----------------------------------------------------------------------------
(* A retry starts over.  While the owner has one client the revision in memory
   only grows and every command makes it grow, so a cycle that captured it before
   a retry is out; a cycle that begins after the retry finds no row from before. *)

RevisionInv ==
    /\ revision \in [memory : Nat, durable : Nat]
    /\ OneClient => /\ revision.durable <= revision.memory
                    /\ "cli" \notin clients => revision.memory = revision.durable
                    /\ cycle.at # "idle" => /\ cycle.revision \in Nat
                                            /\ cycle.revision <= revision.memory

\* No row of an incident that was given a retry is older than the retry.
RetriedInv ==
    \A h \in retried : /\ h.at \in Int /\ h.at <= time
                       /\ \A row \in cooling : row.key = h.id.key => h.at <= row.first

\* What a cycle confirmed and may still dispatch has a whole grace since the retry.
GrantedInv ==
    Judged /\ OneClient /\ PolicyStands =>
        \A h \in retried : \A r \in cycle.reports :
            r.state = "confirmed" /\ Incident(r) = h.id => time - h.at >= Grace

RetryInv == RevisionInv /\ RetriedInv /\ GrantedInv

\* No retry was granted yet.
LEMMA InitRetry == Init => RetryInv
<1> SUFFICES ASSUME Init PROVE RetryInv
  OBVIOUS
<1>1. cycle.at = "idle" /\ retried = {} /\ clients = {}
      /\ revision = [memory |-> 1, durable |-> 1]
  BY DEF Init, Idle
<1> QED
  BY <1>1 DEF RetryInv, RevisionInv, RetriedInv, GrantedInv

\* An accepted command of the only client moves the revision up.
LEMMA CommitFacts ==
    ASSUME RevisionInv, NEW client \in Clients, Commit(client), UNCHANGED cycle
    PROVE  RevisionInv' /\ (OneClient' => OneClient /\ revision.memory < revision'.memory)
<1>1. clients' = clients \cup {client} /\ revision \in [memory : Nat, durable : Nat]
  BY DEF Commit, RevisionInv
<1>2. OneClient' => OneClient
  BY <1>1 DEF OneClient
<1>3. CASE client = "cli"
  <2>1. revision' = [revision EXCEPT !.memory = @ + 1]
    BY <1>3 DEF Commit
  <2>2. /\ revision' \in [memory : Nat, durable : Nat]
        /\ revision'.memory = revision.memory + 1 /\ revision'.durable = revision.durable
    BY <1>1, <2>1
  <2> QED
    BY <1>1, <1>2, <1>3, <2>2 DEF RevisionInv
<1>4. CASE client = "app"
  <2>1. revision' = [memory |-> revision.durable + 1, durable |-> revision.durable + 1]
    BY <1>4 DEF Commit
  <2>2. /\ revision' \in [memory : Nat, durable : Nat]
        /\ revision'.memory = revision.durable + 1 /\ revision'.durable = revision.durable + 1
    BY <1>1, <2>1
  <2>3. OneClient' => "cli" \notin clients
    BY <1>1, <1>4 DEF OneClient
  <2> QED
    BY <1>1, <1>2, <2>2, <2>3 DEF RevisionInv
<1> QED
  BY <1>3, <1>4 DEF Clients

\* A command leaves nothing to dispatch for the cycle that is running.
LEMMA CommandRetires ==
    ASSUME RetryInv, NEW client \in Clients, Commit(client), UNCHANGED cycle
    PROVE  RevisionInv' /\ GrantedInv'
<1>1. RevisionInv' /\ (OneClient' => OneClient /\ revision.memory < revision'.memory)
  BY CommitFacts DEF RetryInv
<1>2. ASSUME Judged', OneClient', PolicyStands' PROVE FALSE
  <2>1. cycle.at # "idle" /\ cycle.revision = revision'.memory
    BY <1>2 DEF Judged, PolicyStands
  <2>2. /\ revision.memory \in Nat /\ revision'.memory \in Nat
        /\ cycle.revision \in Nat /\ cycle.revision <= revision.memory
    BY <1>1, <1>2, <2>1 DEF RetryInv, RevisionInv
  <2> QED
    BY <1>1, <1>2, <2>1, <2>2
<1> QED
  BY <1>1, <1>2 DEF GrantedInv

\* A tracked row of such an incident is not older either.
LEMMA TrackedSince ==
    ASSUME ReconciliationInv, RetriedInv, NEW reports, NEW label,
           NEW row \in Tracked(reports, label), NEW h \in retried, row.key = h.id.key
    PROVE  row.first \in Int /\ h.at <= row.first
<1>1. /\ time \in Int /\ h.at \in Int /\ h.at <= time
      /\ \A x \in cooling : x.first \in Int /\ (x.key = h.id.key => h.at <= x.first)
  BY DEF ReconciliationInv, StreakInv, RowInv, RetriedInv
<1>2. CASE row \in cooling
  BY <1>1, <1>2
<1>3. ASSUME NEW r \in Cooled(reports), row = TrackCooling(r, label)
      PROVE  row.first \in Int /\ h.at <= row.first
  <2> DEFINE before == {x \in cooling : Continues(x, r, label)}
             Row(first) == [key |-> r.key, root |-> r.root, members |-> r.members,
                            epoch |-> label, first |-> first, last |-> time, lastWall |-> Wall]
  <2>1. row = IF before = {} THEN Row(time) ELSE Row((CHOOSE x \in before : TRUE).first)
    BY <1>3 DEF TrackCooling
  <2>2. CASE before = {}
    <3>1. row.first = time
      BY <2>1, <2>2
    <3> QED
      BY <1>1, <3>1
  <2>3. CASE before # {}
    <3>1. PICK x \in before : x = CHOOSE y \in before : TRUE
      BY <2>3
    <3>2. row = Row(x.first)
      BY <2>1, <2>3, <3>1
    <3>3. row.first = x.first /\ row.key = r.key
      BY <3>2
    <3>4. x \in cooling /\ x.key = r.key
      BY DEF Continues
    <3> QED
      BY <1>1, <3>3, <3>4
  <2> QED
    BY <2>2, <2>3
<1> QED
  BY <1>2, <1>3 DEF Tracked

\* Steps that neither grant a retry, add a row nor judge anything.
LEMMA QuietRetry ==
    ASSUME ReconciliationInv, RetryInv, cooling' \subseteq cooling,
           UNCHANGED <<cycle, retried, revision, clients>>, time' \in Int, time <= time'
    PROVE  RetryInv'
<1>1. time \in Int
  BY DEF ReconciliationInv, StreakInv
<1>2. RevisionInv'
  BY DEF RetryInv, RevisionInv, OneClient
<1>3. RetriedInv'
  BY <1>1 DEF RetryInv, RetriedInv
<1>4. GrantedInv'
  <2> SUFFICES ASSUME Judged, OneClient, PolicyStands, NEW h \in retried, NEW r \in cycle.reports,
                      r.state = "confirmed", Incident(r) = h.id
               PROVE  time' - h.at >= Grace
    BY DEF GrantedInv, Judged, OneClient, PolicyStands, Incident
  <2>1. time - h.at >= Grace /\ h.at \in Int
    BY DEF RetryInv, GrantedInv, RetriedInv
  <2> QED
    BY <1>1, <2>1, ReconciliationAssumption
<1> QED
  BY <1>2, <1>3, <1>4 DEF RetryInv

\* The world, the operator and the end of an attempt.
LEMMA AroundRetry ==
    ASSUME ReconciliationInv, RetryInv, Around \/ UNCHANGED vars
    PROVE  RetryInv'
<1> USE DEF Daemon, store, control, physical, history
<1>1. time \in Int
  BY DEF ReconciliationInv, StreakInv
<1>2. UNCHANGED <<cycle, cooling, retried, revision, clients>> /\ time' \in Int /\ time <= time'
  <2>1. CASE AttemptEnds
    BY <1>1, <2>1 DEF AttemptEnds
  <2>2. CASE Disarm \/ Arm \/ Stop
    BY <1>1, <2>2 DEF Disarm, Arm, Stop
  <2>3. CASE SceneChanges \/ OwnerEnds \/ OwnerFinishes \/ ClockJumps \/ Tick
    BY <1>1, <2>3 DEF SceneChanges, OwnerEnds, OwnerFinishes, ClockJumps, Tick
  <2>4. CASE UNCHANGED vars
    BY <1>1, <2>4 DEF vars
  <2> QED
    BY <2>1, <2>2, <2>3, <2>4 DEF Around
<1> QED
  BY <1>2, QuietRetry

\* A command retires the running cycle, and a retry also the rows it granted.
LEMMA CommandRetry ==
    ASSUME ReconciliationInv, RetryInv, NEW client \in Clients, Says(client) \/ Retries(client)
    PROVE  RetryInv'
<1> USE DEF Commands, store, physical
<1>1. CASE Says(client)
  <2>1. Commit(client) /\ UNCHANGED <<cycle, cooling, retried, time>>
    BY <1>1 DEF Says, ProtectIncident, UnprotectIncident, OtherCommand
  <2>2. RevisionInv' /\ GrantedInv'
    BY <2>1, CommandRetires
  <2>3. RetriedInv'
    BY <2>1 DEF RetryInv, RetriedInv
  <2> QED
    BY <2>2, <2>3 DEF RetryInv
<1>2. CASE Retries(client)
  <2>1. PICK b \in blocks : AuthorizeRetry(b, client)
    BY <1>2 DEF Retries
  <2>2. /\ Commit(client) /\ UNCHANGED <<cycle, time>>
        /\ cooling' = {row \in cooling : row.key # b.id.key}
        /\ retried' = {h \in retried : h.id # b.id} \cup {[id |-> b.id, at |-> time]}
    BY <2>1 DEF AuthorizeRetry
  <2>3. RevisionInv' /\ GrantedInv'
    BY <2>2, CommandRetires
  <2>4. RetriedInv'
    <3>1. time \in Int
      BY DEF ReconciliationInv, StreakInv
    <3> QED
      BY <2>2, <3>1 DEF RetryInv, RetriedInv
  <2> QED
    BY <2>3, <2>4 DEF RetryInv
<1> QED
  BY <1>1, <1>2

\* A public request without effect moves nothing for an owner who has only the App.
LEMMA NoChangeRetry ==
    ASSUME ReconciliationInv, RetryInv, PublicNoChange
    PROVE  RetryInv'
<1>1. PICK r \in 1 .. revision.durable :
         /\ revision' = [revision EXCEPT !.memory = r]
         /\ clients' = clients \cup {IF r = revision.durable THEN "app" ELSE "resend"}
  BY DEF PublicNoChange
<1>2. UNCHANGED <<cycle, cooling, retried, time>>
  BY DEF PublicNoChange, Commands, store, physical
<1>3. /\ revision \in [memory : Nat, durable : Nat] /\ r \in Nat
      /\ revision' \in [memory : Nat, durable : Nat]
      /\ revision'.memory = r /\ revision'.durable = revision.durable
  BY <1>1 DEF RetryInv, RevisionInv
<1>4. ASSUME OneClient'
      PROVE  OneClient /\ "cli" \notin clients /\ r = revision.durable
  BY <1>1, <1>4 DEF OneClient
<1>5. ASSUME OneClient' PROVE OneClient /\ revision' = revision
  <2>1. revision.memory = r /\ OneClient
    BY <1>4, <1>5 DEF RetryInv, RevisionInv
  <2> QED
    BY <1>1, <1>3, <2>1
<1>6. RevisionInv'
  <2>1. ASSUME OneClient' PROVE RevisionInv'
    BY <1>2, <1>3, <1>4, <1>5, <2>1 DEF RetryInv, RevisionInv
  <2>2. ASSUME ~OneClient' PROVE RevisionInv'
    BY <1>3, <2>2 DEF RevisionInv
  <2> QED
    BY <2>1, <2>2
<1>7. RetriedInv'
  BY <1>2 DEF RetryInv, RetriedInv
<1>8. GrantedInv'
  BY <1>2, <1>5 DEF RetryInv, GrantedInv, Judged, PolicyStands, Incident
<1> QED
  BY <1>6, <1>7, <1>8 DEF RetryInv

\* Steps of the cycle that judge nothing new.
LEMMA StepRetry ==
    ASSUME ReconciliationInv, RetryInv, UNCHANGED <<cooling, retried, revision, clients, time>>,
           cycle.at # "idle", cycle'.at # "idle", cycle'.revision = cycle.revision,
           Judged' => \A r \in cycle'.reports :
                         r.state = "confirmed" => Judged /\ r \in cycle.reports
    PROVE  RetryInv'
<1>1. RevisionInv' /\ RetriedInv'
  BY DEF RetryInv, RevisionInv, RetriedInv, OneClient
<1>2. GrantedInv'
  BY DEF RetryInv, GrantedInv, OneClient, PolicyStands, Incident
<1> QED
  BY <1>1, <1>2 DEF RetryInv

\* The steps after the looks, dispatch included.
LEMMA CycleRetry ==
    ASSUME ReconciliationInv, RetryInv,
           \/ Interrupted \/ SettleRows \/ Publish
           \/ NoDispatch \/ \E r \in cycle.reports : Dispatch(r)
    PROVE  RetryInv'
<1>0. UNCHANGED <<cooling, retried, revision, clients, time>>
  BY DEF Interrupted, SettleRows, Publish, NoDispatch, Dispatch, physical, store, history
<1>1. CASE Interrupted
  <2>1. /\ cycle.at = "waiting" /\ cycle'.at = "settle"
        /\ cycle'.revision = cycle.revision /\ cycle'.reports = cycle.reports
    BY <1>1 DEF Interrupted, Settling
  <2>2. \A r \in cycle.reports : r.state # "confirmed"
    BY <2>1 DEF ReconciliationInv, CycleInv, Idle, Judged
  <2> QED
    BY <1>0, <2>1, <2>2, StepRetry
<1>2. CASE SettleRows
  <2>1. cycle.at # "idle" /\ cycle'.at # "idle"
    BY <1>2, SettleFacts DEF Judged
  <2> QED
    BY <1>0, <1>2, <2>1, SettleFacts, StepRetry
<1>3. CASE Publish \/ NoDispatch \/ \E r \in cycle.reports : Dispatch(r)
  <2>1. PICK at \in {"dispatch", "finish"} : cycle' = [cycle EXCEPT !.at = at]
    BY <1>3 DEF Publish, NoDispatch, Dispatch
  <2>2. cycle.at \in {"publish", "dispatch"}
    BY <1>3 DEF Publish, NoDispatch, Dispatch
  <2>3. cycle = [at |-> cycle.at, now |-> cycle.now, label |-> cycle.label,
                 revision |-> cycle.revision, sight |-> cycle.sight, reports |-> cycle.reports]
    BY <2>2 DEF ReconciliationInv, CycleInv, Judged, Idle
  <2>4. cycle' = [at |-> at, now |-> cycle.now, label |-> cycle.label,
                  revision |-> cycle.revision, sight |-> cycle.sight, reports |-> cycle.reports]
    BY <2>1, <2>3
  <2>5. /\ cycle'.at # "idle" /\ cycle'.revision = cycle.revision
        /\ cycle'.reports = cycle.reports
    BY <2>4
  <2> QED
    BY <1>0, <2>2, <2>5, StepRetry DEF Judged
<1> QED
  BY <1>1, <1>2, <1>3

\* The ends of a cycle: nothing is held any more.  A new process takes the
\* durable revision, and nobody has told it anything yet.
LEMMA EndRetry ==
    ASSUME ReconciliationInv, RetryInv, FinishCycle \/ CycleFails \/ Restart
    PROVE  RetryInv'
<1>1. cycle' = Idle /\ UNCHANGED <<cooling, retried, time>>
  BY DEF FinishCycle, CycleFails, Restart, physical, store, history
<1>2. cycle'.at = "idle"
  BY <1>1 DEF Idle
<1>3. RevisionInv'
  <2>1. CASE UNCHANGED <<revision, clients>>
    BY <1>2, <2>1 DEF RetryInv, RevisionInv, OneClient
  <2>2. CASE Restart
    <3>1. revision' = [revision EXCEPT !.memory = revision.durable]
      BY <2>2 DEF Restart
    <3>2. /\ revision' \in [memory : Nat, durable : Nat]
          /\ revision'.memory = revision'.durable
      BY <3>1 DEF RetryInv, RevisionInv
    <3> QED
      BY <1>2, <3>2 DEF RevisionInv
  <2>3. CASE FinishCycle \/ CycleFails
    <3>1. UNCHANGED <<revision, clients>>
      BY <2>3 DEF FinishCycle, CycleFails, history
    <3> QED
      BY <2>1, <3>1
  <2> QED
    BY <2>2, <2>3
<1>4. RetriedInv' /\ GrantedInv'
  BY <1>1, <1>2 DEF RetryInv, RetriedInv, GrantedInv, Judged
<1> QED
  BY <1>3, <1>4 DEF RetryInv

\* A cycle captures the revision of this moment.
LEMMA BeginRetry == ASSUME ReconciliationInv, RetryInv, BeginCycle PROVE RetryInv'
<1>1. /\ cycle'.at = "first" /\ cycle'.revision = revision.memory
      /\ UNCHANGED <<cooling, retried, revision, clients, time>>
  BY DEF BeginCycle, physical, store, history
<1> QED
  BY <1>1 DEF RetryInv, RevisionInv, RetriedInv, GrantedInv, Judged, OneClient

\* The first look confirms nothing, and its rows are not older than the retry.
LEMMA FirstRetry == ASSUME ReconciliationInv, RetryInv, FirstLook PROVE RetryInv'
<1> DEFINE reports == Observe(Context(lease'), cycle.sight.table, cycle.sight.at)
<1>1. /\ cycle.at = "first"
      /\ cooling' = IF Cooled(reports) # {} THEN Tracked(reports, cycle.label) ELSE {}
      /\ cycle'.at # "idle" /\ cycle'.revision = cycle.revision /\ cycle'.reports = reports
      /\ UNCHANGED <<retried, revision, clients, time>>
  BY DEF FirstLook, Settling
<1>2. \A r \in reports : r.state # "confirmed"
  BY ObserveFacts
<1> HIDE DEF reports
<1>3. RevisionInv'
  BY <1>1 DEF RetryInv, RevisionInv, OneClient
<1>4. RetriedInv'
  <2>1. RetriedInv
    BY DEF RetryInv
  <2>2. ASSUME NEW h \in retried, NEW row \in cooling', row.key = h.id.key
        PROVE  h.at <= row.first
    BY <1>1, <2>1, <2>2, TrackedSince
  <2> QED
    BY <1>1, <2>1, <2>2 DEF RetriedInv
<1>5. GrantedInv'
  BY <1>1, <1>2 DEF GrantedInv
<1> QED
  BY <1>3, <1>4, <1>5 DEF RetryInv

\* What the second look confirms has a row as old as the grace, and no row is
\* older than the retry.
LEMMA SecondRetry == ASSUME ReconciliationInv, RetryInv, SecondLook PROVE RetryInv'
<1>0. PICK shot \in Snapshots :
         \E reports \in {Observe(cycle.ctx, shot[2].table, shot[2].at)} :
            LET rows == Tracked(reports, cycle.label)
            IN /\ cooling' = RetainCooling(rows, reports)
               /\ cycle' = Settling(cycle,
                                    Reconcile(cycle.reports, reports, Elapsed(rows)), shot[2])
  BY DEF SecondLook
<1> DEFINE reports == Observe(cycle.ctx, shot[2].table, shot[2].at)
           rows == Tracked(reports, cycle.label)
           judged == Reconcile(cycle.reports, reports, Elapsed(rows))
<1>1. cooling' = RetainCooling(rows, reports) /\ cycle' = Settling(cycle, judged, shot[2])
  BY <1>0
<1>2. cycle.at = "waiting" /\ UNCHANGED <<retried, revision, clients, time>>
  BY DEF SecondLook, physical
<1>3. \A r \in reports : IsReport(r) /\ r.state # "confirmed"
  BY ObserveFacts
<1> HIDE DEF reports
<1>4. \A q \in judged : q.state = "confirmed" => q.key \in Elapsed(rows)
  BY <1>3, ReconcileFacts
<1> HIDE DEF judged
<1>5. /\ cycle'.at = "settle" /\ cycle'.revision = cycle.revision /\ cycle'.reports = judged
      /\ cooling' \subseteq rows
  BY <1>1 DEF Settling, RetainCooling
<1>6. RevisionInv'
  BY <1>2, <1>5 DEF RetryInv, RevisionInv, OneClient
<1>7. RetriedInv /\ time \in Int
  BY DEF RetryInv, ReconciliationInv, StreakInv
<1>8. ASSUME NEW h \in retried, NEW row \in rows, row.key = h.id.key
      PROVE  row.first \in Int /\ h.at <= row.first /\ h.at \in Int
  BY <1>7, <1>8, TrackedSince DEF RetriedInv
<1> HIDE DEF rows
<1>9. RetriedInv'
  BY <1>2, <1>5, <1>7, <1>8 DEF RetriedInv
<1>10. ASSUME NEW h \in retried, NEW q \in judged, q.state = "confirmed", Incident(q) = h.id
       PROVE  time - h.at >= Grace
  <2>1. q.key = h.id.key
    BY <1>10 DEF Incident
  <2>2. PICK row \in rows : row.key = q.key /\ time - row.first >= Grace
    BY <1>4, <1>10 DEF Elapsed
  <2> QED
    BY <1>7, <1>8, <2>1, <2>2, ReconciliationAssumption
<1>11. GrantedInv'
  BY <1>2, <1>5, <1>10 DEF GrantedInv, Incident
<1> QED
  BY <1>6, <1>9, <1>11 DEF RetryInv

\* Every step keeps the invariant of the retries.
LEMMA StepRetries == ASSUME ReconciliationInv, RetryInv, [Next]_vars PROVE RetryInv'
<1>1. CASE BeginCycle
  BY <1>1, BeginRetry
<1>2. CASE FirstLook
  BY <1>2, FirstRetry
<1>3. CASE SecondLook
  BY <1>3, SecondRetry
<1>4. CASE \/ Interrupted \/ SettleRows \/ Publish \/ NoDispatch
           \/ \E r \in IF cycle.at = "dispatch" THEN cycle.reports ELSE {} : Dispatch(r)
  <2>1. \/ Interrupted \/ SettleRows \/ Publish \/ NoDispatch
        \/ \E r \in cycle.reports : Dispatch(r)
    BY <1>4
  <2> QED
    BY <2>1, CycleRetry
<1>5. CASE FinishCycle \/ CycleFails \/ Restart
  BY <1>5, EndRetry
<1>6. CASE PublicNoChange
  BY <1>6, NoChangeRetry
<1>7. CASE \E client \in Clients : Says(client) \/ Retries(client)
  BY <1>7, CommandRetry
<1>8. CASE Around \/ UNCHANGED vars
  BY <1>8, AroundRetry
<1> QED
  BY <1>1, <1>2, <1>3, <1>4, <1>5, <1>6, <1>7, <1>8 DEF Next, Says, Retries, Around

-----------------------------------------------------------------------------
(* The theorems *)

\* Of every behaviour of the engine: cycles hold honest snapshots, an epoch is
\* used once, every row that still counts was earned by an unbroken observation,
\* and what a cycle confirmed has its grace behind it.
THEOREM ReconciliationInvariant == Spec => []ReconciliationInv
<1>1. Init => ReconciliationInv
  BY InitReconciliation
<1>2. ReconciliationInv /\ [Next]_vars => ReconciliationInv'
  BY StepKeeps
<1> QED
  BY <1>1, <1>2, PTL DEF Spec

\* Only a dispatch opens an attempt.
LEMMA OnlyDispatchOpens ==
    ASSUME [Next]_vars, NEW r \in attempt' \ attempt
    PROVE  \E q \in cycle.reports : Dispatch(q)
BY DEF Next, BeginCycle, FirstLook, SecondLook, Interrupted, SettleRows, Publish, NoDispatch,
   FinishCycle, CycleFails, AttemptEnds, ProtectIncident, UnprotectIncident, AuthorizeRetry,
   OtherCommand, PublicNoChange, Disarm, Arm, Stop, Restart, SceneChanges, OwnerEnds,
   OwnerFinishes, Tick, ClockJumps, Commands, Daemon, vars

\* An attempt opens only after a whole grace of unbroken observation under the
\* present epoch (begin_cleanup_attempt_if_armed, track_cooling).
THEOREM AttemptEarnsGrace == Spec => GraceEarned
<1> DEFINE Fresh == \A r \in attempt' \ attempt :
                        \E s \in streak : /\ s.root = r.root /\ s.members = r.members
                                          /\ s.epoch = epoch /\ s.last - s.since >= Grace
<1>1. ASSUME ReconciliationInv, [Next]_vars PROVE [Fresh]_vars
  <2> SUFFICES ASSUME NEW r \in attempt' \ attempt
               PROVE  \E s \in streak : /\ s.root = r.root /\ s.members = r.members
                                        /\ s.epoch = epoch /\ s.last - s.since >= Grace
    OBVIOUS
  <2>2. PICK q \in cycle.reports : Dispatch(q)
    BY <1>1, OnlyDispatchOpens
  <2>3. /\ r = q /\ q.state = "confirmed" /\ cycle.at = "dispatch"
        /\ cycle.label = epoch
    BY <2>2 DEF Dispatch, Dispatchable, SignalGateMatches
  <2>4. Judged /\ epoch \in Nat /\ epoch >= 1 /\ GraceInv
    BY <1>1, <2>3 DEF Judged, ReconciliationInv, EpochInv
  <2>5. Proved(q, epoch)
    BY <2>3, <2>4 DEF GraceInv
  <2> QED
    BY <2>3, <2>5 DEF Proved
<1>2. Spec => []ReconciliationInv
  BY ReconciliationInvariant
<1> QED
  BY <1>1, <1>2, PTL DEF Spec, GraceEarned

\* For an owner with one client a retry starts over: neither a report confirmed
\* before it nor a row from before it opens an attempt (authorize_retry,
\* begin_cleanup_attempt_if_armed).
THEOREM RetryBuysNothing == Spec => RetryStartsOver
<1> DEFINE Fresh == \A r \in attempt' \ attempt : \A h \in retried :
                        OneClient /\ Incident(r) = h.id => time - h.at >= Grace
<1>1. ASSUME ReconciliationInv, RetryInv, [Next]_vars PROVE [Fresh]_vars
  <2> SUFFICES ASSUME NEW r \in attempt' \ attempt, NEW h \in retried,
                      OneClient, Incident(r) = h.id
               PROVE  time - h.at >= Grace
    OBVIOUS
  <2>1. PICK q \in cycle.reports : Dispatch(q)
    BY <1>1, OnlyDispatchOpens
  <2>2. r = q /\ q.state = "confirmed" /\ cycle.at = "dispatch" /\ PolicyStands
    BY <2>1 DEF Dispatch, Dispatchable
  <2> QED
    BY <1>1, <2>2 DEF RetryInv, GrantedInv, Judged
<1>2. Init => RetryInv
  BY InitRetry
<1>3. ReconciliationInv /\ RetryInv /\ [Next]_vars => RetryInv'
  BY StepRetries
<1>4. Spec => []ReconciliationInv
  BY ReconciliationInvariant
<1> QED
  BY <1>1, <1>2, <1>3, <1>4, PTL DEF Spec, RetryStartsOver

\* The overview says clear only of a machine that had no candidate when the
\* roster was taken (browser_overview_phase).
THEOREM ClearOverviewIsTrue == Spec => []ClearIsHonest
<1>1. ASSUME ReconciliationInv PROVE ClearIsHonest
  <2> SUFFICES ASSUME BrowserOverviewPhase = "clear"
               PROVE  Candidates(TableIn(roster.really[1], roster.really[2])) = {}
    BY DEF ClearIsHonest
  <2>1. /\ roster.complete
        /\ ~Shows("confirmed") /\ ~Shows("cooling") /\ ~Shows("active")
        /\ ~Shows("protected") /\ ~Shows("ambiguous")
    BY DEF BrowserOverviewPhase
  <2>2. RosterInv
    BY <1>1 DEF ReconciliationInv
  <2>3. roster.reports = {}
    BY <2>1, <2>2 DEF RosterInv, Shows, States
  <2> QED
    BY <2>1, <2>2, <2>3 DEF RosterInv
<1>2. Spec => []ReconciliationInv
  BY ReconciliationInvariant
<1> QED
  BY <1>1, <1>2, PTL
=============================================================================
