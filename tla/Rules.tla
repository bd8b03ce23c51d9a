------------------------------- MODULE Rules -------------------------------
(***************************************************************************)
(* The analyzer: which groups of processes are automation sessions, and    *)
(* what may be said of each.  It is a pure function of a process table, of *)
(* the observation time and of the context frozen for the cycle.           *)
(*                                                                         *)
(* A table maps a pid to a record.  The text of paths and arguments is     *)
(* abstracted to the facts the rules read from it:                         *)
(*   birth, parent, group, uid, tty     as the kernel reports them;        *)
(*   facts          every classification fact could be read;               *)
(*   controllerOf, browserOf, frameworkOf, recorder                        *)
(*                  the packs whose markers match;                         *)
(*   helper         "none", "crashpad" or the value of --type;             *)
(*   headless, pipe, port   launch switches of a browser;                  *)
(*   profile        at most one [path, markers, temp, standard];           *)
(*   bundle         at most one [product, version];                        *)
(*   peer, peerFacts, socketFacts, sessionFacts, socket                    *)
(*                  debug peers, named sockets and their visibility;       *)
(*   cli            at most one [session, task, version, persistent,       *)
(*                  attached] of a Playwright CLI controller;              *)
(*   tag            the session names its environment or arguments carry.  *)
(* A context is [self, ancestors, tasks, sessions]: the daemon's own line  *)
(* and the bindings, [pid, birth, session, version, released].             *)
(***************************************************************************)
EXTENDS Integers, FiniteSets

CONSTANTS Packs,    \* records [id, rank, mode, product, versions, task, session]
          MinAge    \* youngest candidate that may be acted on

\* RuleSet::embedded refuses two packs of one id.
ASSUME RulesAssumption ==
    /\ MinAge \in Nat /\ IsFiniteSet(Packs)
    /\ \A a, b \in Packs : a.id = b.id => a = b

Playwright == "playwright"

-----------------------------------------------------------------------------
(* The process graph *)

\* parents[n] is the n-th pid up from p, 0 when the walk left the table.
Ancestors(t, p) ==
    LET N == Cardinality(DOMAIN t) + 1
        up[n \in 0..N] == IF n = 0 THEN p
                          ELSE IF up[n - 1] \in DOMAIN t THEN t[up[n - 1]].parent ELSE 0
    IN {up[n] : n \in 1..N} \ {0}

Descendants(t, p) == {q \in DOMAIN t : q = p \/ p \in Ancestors(t, q)}

LineageHasCycle(t, p) == \E q \in (Ancestors(t, p) \cup {p}) \ {1} : q \in Ancestors(t, q)
HasUnresolvedParent(t, p) == t[p].parent \notin (DOMAIN t) \cup {0, 1}

SamePid(t, p, birth) == p \in DOMAIN t /\ t[p].facts
ExactMatch(t, p, birth) == p \in DOMAIN t /\ t[p].birth = birth /\ t[p].facts

\* The controller whose descendants do not hold another one that owns p too.
Nearest(t, p, controllers) ==
    LET owners == Ancestors(t, p) \cap controllers
    IN {c \in owners : \A d \in owners \ {c} : d \notin Descendants(t, c)}

-----------------------------------------------------------------------------
(* Candidates *)

MatchesRecorder(x, pack) == pack.id \in x.recorder
MatchesController(x, pack) == /\ ~MatchesRecorder(x, pack)
                              /\ x.helper = "none"
                              /\ pack.id \in x.controllerOf
IsBrowserRoot(x, pack) == pack.id \in x.browserOf /\ x.helper \in {"none", "crashpad"}

MarksProfile(x, pack) == \E f \in x.profile : pack.id \in f.markers
PackAnchorCount(x, pack) == (IF pack.id \in x.frameworkOf THEN 1 ELSE 0)
                          + (IF MarksProfile(x, pack) THEN 1 ELSE 0)

\* A recorder the controller started in the browser's process group.
JoinedRecorders(t, c, browsers, pack) ==
    IF t[c].group # 0 /\ \E b \in browsers : t[b].group = t[c].group
    THEN {p \in DOMAIN t : /\ t[p].parent = c /\ t[p].uid = t[c].uid /\ ~t[p].tty
                           /\ t[p].birth >= t[c].birth
                           /\ t[p].group = t[c].group
                           /\ MatchesRecorder(t[p], pack)}
    ELSE {}

HasPlausibleUnjoinedRecorder(t, c) ==
    \E p \in DOMAIN t \ c.members :
        /\ MatchesRecorder(t[p], c.pack) /\ t[p].uid = "user" /\ ~t[p].tty
        /\ \E b \in c.browsers : /\ t[p].birth >= t[b].birth
                                 /\ t[p].group # 0 /\ t[p].group = t[b].group

\* A controller with the browsers nearest below it, a controller alone, or a
\* browser no controller owns that a pack's markers claim.
PackCandidates(t, pack) ==
    LET roots == {p \in DOMAIN t : IsBrowserRoot(t[p], pack)}
        controllers == {p \in DOMAIN t \ roots : MatchesController(t[p], pack)}
        Owned(c) == {b \in roots : c \in Nearest(t, b, controllers)}
        unowned == {b \in roots : /\ Nearest(t, b, controllers) = {}
                                  /\ PackAnchorCount(t[b], pack) > 0}
        Led(c) == [pack |-> pack, root |-> c, controller |-> {c}, browsers |-> Owned(c),
                   members |-> {c} \cup UNION {Descendants(t, b) : b \in Owned(c)}
                                   \cup JoinedRecorders(t, c, Owned(c), pack)]
        Alone(b) == [pack |-> pack, root |-> b, controller |-> {}, browsers |-> {b},
                     members |-> Descendants(t, b)]
    IN {Led(c) : c \in controllers} \cup {Alone(b) : b \in unowned}

\* One candidate per root: the pack with more anchors, then the first by name.
Preferred(t, a, b) ==
    LET n == PackAnchorCount(t[a.root], a.pack)
        m == PackAnchorCount(t[b.root], b.pack)
    IN n > m \/ (n = m /\ a.pack.rank <= b.pack.rank)

Candidates(t) ==
    LET all == UNION {PackCandidates(t, pack) : pack \in Packs}
    IN {a \in all : \A b \in all : a.root = b.root => Preferred(t, a, b)}

-----------------------------------------------------------------------------
(* What a candidate's processes show *)

VersionGate(t, c) ==
    LET facts == UNION {t[b].bundle : b \in c.browsers}
        fact == CHOOSE f \in facts : TRUE
    IN IF c.browsers = {} THEN "none"
       ELSE IF \E b \in c.browsers : t[b].bundle = {} THEN "browser_version_missing"
       ELSE IF Cardinality(facts) # 1 THEN "browser_version_mixed"
       ELSE IF c.pack.mode = "observe" THEN "version_observational_only"
       ELSE IF fact.product # c.pack.product THEN "browser_product_unsupported"
       ELSE IF fact.version \notin c.pack.versions THEN "browser_version_unsupported"
       ELSE "supported"

AgeGate(now, birth) == IF birth <= 0 \/ now < birth THEN "candidate_age_unknown"
                       ELSE IF now - birth < MinAge THEN "minimum_candidate_age_not_met"
                       ELSE "eligible"

Profiles(t, c) == UNION {t[b].profile : b \in c.browsers}
Ephemeral(t, c) == /\ Profiles(t, c) # {}
                   /\ \A f \in Profiles(t, c) : c.pack.id \in f.markers /\ f.temp
SharedProfile(t, c) == \E p \in DOMAIN t \ c.members :
                          \E f \in Profiles(t, c), g \in t[p].profile : f.path = g.path
StandardProfile(t, c) == \E f \in Profiles(t, c) : f.standard
Headless(t, c) == c.browsers # {} /\ \A b \in c.browsers : t[b].headless
Debuggable(t, c) == \E b \in c.browsers : t[b].port

\* Work on the session outside the controller and what descends from it.  A
\* crash handler of the session's own browser is not work.
ExternalWork(t, members, session) ==
    \E p \in DOMAIN t \ members :
        /\ session \in t[p].tag
        /\ ~(/\ t[p].helper = "crashpad"
             /\ \E f \in t[p].bundle : f.product = "chrome_for_testing"
             /\ \E b \in members \cap DOMAIN t : t[b].bundle = t[p].bundle)

SessionMembers(t, bindings, session) ==
    UNION {Descendants(t, b.pid) : b \in {x \in bindings : /\ x.session = session
                                                           /\ ExactMatch(t, x.pid, x.birth)}}

TaskHasLiveWork(ctx, t, b) == ExternalWork(t, SessionMembers(t, ctx.tasks, b.session), b.session)
OrdinarySessionHasLiveWork(t, b) == ExternalWork(t, SessionMembers(t, {b}, b.session), b.session)

OwnedTaskController(ctx, t, c) ==
    {b \in ctx.tasks : /\ c.pack.id = Playwright
                       /\ \E k \in t[c.root].cli : /\ k.task /\ k.session = b.session
                                                   /\ k.version = c.pack.task
                       /\ b.pid = c.root /\ ExactMatch(t, c.root, b.birth)}

BoundSessionOwner(ctx, t, c) ==
    {b \in ctx.sessions : /\ c.pack.id = Playwright
                          /\ \E k \in t[c.root].cli : /\ ~k.task /\ k.session = b.session
                                                      /\ k.version = c.pack.session
                                                      /\ k.version = b.version
                          /\ b.pid = c.root /\ ExactMatch(t, c.root, b.birth)}

OrdinarySupported(t, c) == \E k \in t[c.root].cli : ~k.task /\ k.version = c.pack.session

-----------------------------------------------------------------------------
(* Protections: any one of them keeps the candidate from being acted on *)

HardProtections(ctx, t, c) ==
    {why \in {"uid_or_root", "system_pid", "unlinger_or_ancestor",
              "incomplete_or_cyclic_graph", "incomplete_process_facts"} :
        \E p \in c.members :
          CASE why = "uid_or_root" -> t[p].uid # "user"
            [] why = "system_pid" -> p \in {0, 1}
            [] why = "unlinger_or_ancestor" -> p \in {ctx.self} \cup ctx.ancestors
            [] why = "incomplete_or_cyclic_graph" ->
                   LineageHasCycle(t, p) \/ HasUnresolvedParent(t, p)
            [] why = "incomplete_process_facts" -> ~t[p].facts}

BrowserProtections(t, c) ==
    {why \in {"standard_browser_profile", "headed_or_human_control",
              "persistent_or_unknown_profile", "manual_cdp",
              "profile_shared_outside_incident", "attached_debug_peer",
              "debug_peer_visibility_incomplete"} :
        CASE why = "standard_browser_profile" -> StandardProfile(t, c)
          [] why = "headed_or_human_control" -> c.browsers # {} /\ ~Headless(t, c)
          [] why = "persistent_or_unknown_profile" -> Profiles(t, c) # {} /\ ~Ephemeral(t, c)
          [] why = "manual_cdp" -> c.controller = {} /\ ~Ephemeral(t, c) /\ Debuggable(t, c)
          [] why = "profile_shared_outside_incident" -> SharedProfile(t, c)
          [] why = "attached_debug_peer" -> \E b \in c.browsers : t[b].peer
          [] why = "debug_peer_visibility_incomplete" ->
                 Debuggable(t, c) /\ \E b \in c.browsers : ~t[b].peerFacts}

\* What an owner record demands of its controller before it counts as left
\* behind: no live owner, no attached or persistent use, no client.
ClientProtections(t, c, b, working) ==
    LET x == t[c.root]
    IN {why \in {"owner_active", "persistent_or_unknown_profile", "attached_debug_peer",
                 "client_visibility_incomplete", "client_active"} :
          CASE why = "owner_active" -> ~b.released
            [] why = "persistent_or_unknown_profile" -> \E k \in x.cli : k.persistent
            [] why = "attached_debug_peer" -> \E k \in x.cli : k.attached
            [] why = "client_visibility_incomplete" ->
                   ~x.socketFacts \/ \E p \in DOMAIN t : ~t[p].sessionFacts
            [] why = "client_active" -> x.socket \/ working}

OwnershipProtections(ctx, t, c) ==
    LET tasks == OwnedTaskController(ctx, t, c)
        sessions == BoundSessionOwner(ctx, t, c)
    IN IF tasks # {}
       THEN UNION {ClientProtections(t, c, b, TaskHasLiveWork(ctx, t, b)) : b \in tasks}
       ELSE IF c.controller = {} THEN {}
       ELSE IF sessions # {}
       THEN UNION {ClientProtections(t, c, b, OrdinarySessionHasLiveWork(t, b)) : b \in sessions}
       ELSE IF OrdinarySupported(t, c) THEN {"ordinary_session_owner_unverified"}
       ELSE {"controller_version_unverified"}

VersionAgeProtections(t, c, now) ==
    ({VersionGate(t, c)} \ {"none", "supported"})
    \cup ({AgeGate(now, t[c.root].birth)} \ {"eligible"})
    \cup (IF c.browsers # {} /\ HasPlausibleUnjoinedRecorder(t, c)
          THEN {"unjoined_recorder_residue"} ELSE {})

Protections(ctx, t, c, now) ==
    HardProtections(ctx, t, c) \cup BrowserProtections(t, c)
    \cup OwnershipProtections(ctx, t, c) \cup VersionAgeProtections(t, c, now)

-----------------------------------------------------------------------------
(* Provenance, abandonment and the verdict *)

Provenance(t, c) ==
    {kind \in {"controller_lineage", "framework_marker", "ephemeral_profile", "transport",
               "headless_mode", "automation_browser_binary"} :
        CASE kind = "controller_lineage" -> c.controller # {}
          [] kind = "framework_marker" ->
                 \E p \in c.controller \cup c.browsers : c.pack.id \in t[p].frameworkOf
          [] kind = "ephemeral_profile" -> Ephemeral(t, c)
          [] kind = "transport" -> \E b \in c.browsers : t[b].pipe \/ t[b].port
          [] kind = "headless_mode" -> Headless(t, c)
          [] kind = "automation_browser_binary" ->
                 /\ c.browsers # {} /\ c.pack.mode # "observe"
                 /\ \A b \in c.browsers : \E f \in t[b].bundle : f.product = c.pack.product}

StrongProvenance(t, c) ==
    /\ Provenance(t, c) \cap {"controller_lineage", "framework_marker", "ephemeral_profile"} # {}
    /\ Cardinality(Provenance(t, c)) >= 3

\* A recorded owner decides by its release; without one, only lineage does.
OwnerRecords(ctx, t, c) ==
    IF OwnedTaskController(ctx, t, c) # {} THEN OwnedTaskController(ctx, t, c)
    ELSE BoundSessionOwner(ctx, t, c)

OwnerReleased(ctx, t, c) == \E b \in OwnerRecords(ctx, t, c) : b.released
ControllerParentLive(ctx, t, c) ==
    /\ ~OwnerReleased(ctx, t, c)
    /\ \E p \in c.controller : t[p].parent > 1 /\ t[p].parent \in DOMAIN t
OwnerMissing(ctx, t, c) ==
    IF OwnerRecords(ctx, t, c) # {} THEN OwnerReleased(ctx, t, c)
    ELSE \/ \E p \in c.controller : t[p].parent = 1
         \/ /\ c.controller = {} /\ c.browsers # {}
            /\ \A b \in c.browsers : t[b].parent = 1 \/ t[b].parent \notin DOMAIN t

Isolated(t, c) == Ephemeral(t, c) /\ ~SharedProfile(t, c) /\ ~StandardProfile(t, c)

State(ctx, t, c, now) ==
    CASE Protections(ctx, t, c, now) # {} -> "protected"
      [] OTHER -> IF ControllerParentLive(ctx, t, c) THEN "active"
                  ELSE IF StrongProvenance(t, c) /\ OwnerMissing(ctx, t, c) /\ Isolated(t, c)
                       THEN "cooling" ELSE "ambiguous"

\* What the overview says of the browser: whether it is one the daemon would
\* clean up by itself, and if not, whether it knows why.
Compatibility(ctx, t, c) ==
    LET gate == VersionGate(t, c)
        unverified == c.controller # {} /\ OwnerRecords(ctx, t, c) = {}
        blind == Debuggable(t, c) /\ \E b \in c.browsers : ~t[b].peerFacts
    IN CASE gate \in {"browser_version_mixed", "browser_product_unsupported",
                      "browser_version_unsupported"} -> "protected"
         [] gate \in {"none", "browser_version_missing"} -> "unknown"
         [] gate = "version_observational_only" -> "observe_only"
         [] gate = "supported" -> IF unverified \/ blind THEN "protected" ELSE "automatic"

\* Identities, not pids, name an incident; its tracking key follows the pid.
Identity(t, p) == [pid |-> p, birth |-> t[p].birth]
Report(ctx, t, c, now) ==
    [key |-> <<c.pack.id, c.root>>, root |-> Identity(t, c.root),
     members |-> {Identity(t, p) : p \in c.members},
     decision |-> Compatibility(ctx, t, c), state |-> State(ctx, t, c, now)]

Observe(ctx, t, now) == {Report(ctx, t, c, now) : c \in Candidates(t)}

\* The second look: only what cooled in both, unchanged, and whose grace has
\* elapsed is confirmed.
Reconcile(first, second, elapsed) ==
    LET Before(r) == {f \in first : f.key = r.key /\ f.state = "cooling"}
        Same(f, r) == f.root = r.root /\ f.members = r.members
        Verdict(r) == IF r.state # "cooling" \/ Before(r) = {} THEN r.state
                      ELSE IF \E f \in Before(r) : ~Same(f, r) THEN "ambiguous"
                      ELSE IF r.key \in elapsed THEN "confirmed" ELSE "cooling"
    IN {[r EXCEPT !.state = Verdict(r)] : r \in second}

=============================================================================
