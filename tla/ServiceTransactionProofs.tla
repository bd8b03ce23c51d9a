---------------------- MODULE ServiceTransactionProofs ----------------------
(***************************************************************************)
(* What the service commands promise for any number of installs and        *)
(* faults.                                                                 *)
(*                                                                         *)
(* A command is the sequence of the steps it still has to take, so what a  *)
(* step may assume depends on the steps that are gone.  OrderInv says in   *)
(* which order steps can stand in such a sequence; every other part ties   *)
(* the set of the remaining steps to the transaction file (PhaseInv), to   *)
(* launchd and the files (PlaceInv), to the rollback material (TxInv), to  *)
(* the builds that wrote the history (OpenInv) and to the enforce request  *)
(* (RequestInv).                                                           *)
(***************************************************************************)
EXTENDS ServiceTransaction, WellFoundedInduction, TLAPS

-----------------------------------------------------------------------------
(* The order of the steps *)

Marks ==
    {"accept_begin", "accept_commit", "retire_backup", "retire_tx",
     "mark", "evict", "restore", "restore_plist", "restore_manifest", "restart_prior",
     "drop_tx", "drop_backup", "remove_plist", "remove_manifest", "remove_generations",
     "survey", "prepare", "publish_generation", "candidate_durable", "prior_drained",
     "back_up", "database_backed_up", "select_plist", "select_manifest",
     "candidate_selected", "check_restart", "emergency_stop", "clear_request",
     "bootstrap", "await_runtime", "candidate_ready", "contain", "await_contained",
     "publish_report_only", "disarm_unexpected", "preflight", "publish_enforce",
     "arm", "arm_answer"}

\* The place of a step among those it can share a command with.  The steps of
\* Stop and the wait for readiness have none: they occur in several programs.
Rank(step) ==
    CASE step = "accept_begin" -> 1        [] step = "accept_commit" -> 2
      [] step = "retire_backup" -> 3       [] step = "retire_tx" -> 4
      [] step = "mark" -> 11               [] step = "evict" -> 15
      [] step = "restore" -> 16            [] step = "restore_plist" -> 17
      [] step = "restore_manifest" -> 18   [] step = "restart_prior" -> 19
      [] step = "drop_tx" -> 21            [] step = "drop_backup" -> 22
      [] step = "remove_plist" -> 27       [] step = "remove_manifest" -> 28
      [] step = "remove_generations" -> 29
      [] step = "survey" -> 31             [] step = "prepare" -> 32
      [] step = "publish_generation" -> 33 [] step = "candidate_durable" -> 34
      [] step = "prior_drained" -> 38      [] step = "back_up" -> 39
      [] step = "database_backed_up" -> 40 [] step = "select_plist" -> 41
      [] step = "select_manifest" -> 42    [] step = "candidate_selected" -> 43
      [] step = "check_restart" -> 41      [] step = "emergency_stop" -> 42
      [] step = "clear_request" -> 43      [] step = "bootstrap" -> 44
      [] step = "await_runtime" -> 45      [] step = "candidate_ready" -> 46
      [] step = "contain" -> 50            [] step = "await_contained" -> 51
      [] step = "publish_report_only" -> 52
      [] step = "disarm_unexpected" -> 52  [] step = "preflight" -> 53
      [] step = "publish_enforce" -> 54    [] step = "arm" -> 55
      [] step = "arm_answer" -> 56

Stopping == {"disarm", "drain", "bootout", "await_ready"}

\* The steps with which another program may begin after a settled transaction.
Firsts == {"survey", "check_restart", "contain", "disarm_unexpected", "disarm"}

\* How the steps of one command can follow each other: the ranked ones by rank;
\* what Disarm, RestartPrior and a failed containment skip is what they mean to
\* skip; after preflight comes only the rest of set-mode, after remove_plist that
\* of uninstall, before retire_tx that of accept; and a settled transaction is
\* followed by a whole program.
Ordered(s) ==
    /\ s \in Seq(Marks \cup Stopping)
    /\ \A i, j \in 1 .. Len(s) :
          i < j => /\ s[i] \in Marks /\ s[j] \in Marks => Rank(s[i]) < Rank(s[j])
                   /\ s[i] = "preflight" => s[j] \in {"publish_enforce", "arm", "arm_answer"}
                   /\ s[i] = "remove_plist" => s[j] \in {"remove_manifest", "remove_generations"}
                   /\ s[j] = "retire_tx" => s[i] \in {"accept_begin", "accept_commit", "retire_backup"}
    /\ \A i \in 1 .. Len(s) :
          /\ s[i] = "disarm" => i + 2 <= Len(s) /\ s[i + 1] = "drain" /\ s[i + 2] = "bootout"
          /\ s[i] = "drain" => i + 1 <= Len(s) /\ s[i + 1] = "bootout"
          /\ s[i] = "restart_prior" => i + 1 <= Len(s) /\ s[i + 1] = "await_ready"
          /\ s[i] = "contain" => i + 1 <= Len(s) /\ s[i + 1] = "await_contained"
          /\ s[i] \in {"retire_tx", "drop_backup"} /\ i + 1 <= Len(s) => s[i + 1] \in Firsts

OrderInv == Ordered(cli.todo)

-----------------------------------------------------------------------------
(* What the remaining steps say *)

\* The transaction file and the steps that are left.
PhaseInv ==
    /\ "drop_tx" \in Todo => /\ "drop_backup" \in Todo
                             /\ tx.phase \notin {"none", "accepted"}
                             /\ "mark" \notin Todo => tx.phase = "rollback_in_progress"
    /\ "drop_backup" \in Todo => "drop_tx" \in Todo \/ tx.phase = "none"
    /\ "accept_begin" \in Todo => tx.phase = "candidate_ready_report_only"
    /\ "accept_commit" \in Todo /\ "accept_begin" \notin Todo =>
          tx.phase = "acceptance_in_progress"
    /\ "retire_tx" \in Todo /\ "accept_commit" \notin Todo => tx.phase = "accepted"
    /\ "accept_begin" \in Todo => "accept_commit" \in Todo
    /\ "accept_commit" \in Todo \/ "retire_backup" \in Todo => "retire_tx" \in Todo
    /\ "retire_tx" \in Todo => "drop_tx" \notin Todo
    /\ "drop_tx" \in Todo \/ "retire_tx" \in Todo =>
          /\ "candidate_ready" \in Todo => "prepare" \in Todo
          /\ "remove_generations" \in Todo => "remove_plist" \in Todo
    /\ tx.phase = "accepted" => Todo = {} \/ ("retire_tx" \in Todo /\ "accept_commit" \notin Todo)
    /\ ("prepare" \in Todo \/ "remove_generations" \in Todo)
          /\ "drop_tx" \notin Todo /\ "retire_tx" \notin Todo => tx.phase = "none"
    /\ "prepare" \in Todo /\ "drop_backup" \notin Todo /\ "retire_backup" \notin Todo =>
          backup = NoDb
    /\ "candidate_ready" \in Todo /\ "prepare" \notin Todo =>
          /\ "candidate_durable" \in Todo => tx.phase = "prepared"
          /\ "candidate_durable" \notin Todo =>
                /\ "prior_drained" \in Todo => tx.phase = "candidate_durable"
                /\ "prior_drained" \notin Todo /\ "database_backed_up" \in Todo =>
                      tx.phase = "prior_drained"
                /\ "database_backed_up" \notin Todo /\ "candidate_selected" \in Todo =>
                      tx.phase = "database_backed_up"
                /\ "candidate_selected" \notin Todo => tx.phase = "candidate_selected"

\* A program is left from its front: what is left of it includes its later steps.
CloseInv ==
    /\ "mark" \in Todo => "evict" \in Todo
    /\ "evict" \in Todo => "restore" \in Todo
    /\ "restore" \in Todo => "restore_plist" \in Todo
    /\ "restore_plist" \in Todo => "restore_manifest" \in Todo
    /\ "restore_manifest" \in Todo => "restart_prior" \in Todo
    /\ "restart_prior" \in Todo => "drop_tx" \in Todo
    /\ "survey" \in Todo => "prepare" \in Todo
    /\ "prepare" \in Todo => "publish_generation" \in Todo
    /\ "publish_generation" \in Todo => "candidate_durable" \in Todo
    /\ "candidate_durable" \in Todo => "prior_drained" \in Todo
    /\ "prior_drained" \in Todo => "back_up" \in Todo
    /\ "back_up" \in Todo => "database_backed_up" \in Todo
    /\ "database_backed_up" \in Todo => "select_plist" \in Todo
    /\ "select_plist" \in Todo => "select_manifest" \in Todo
    /\ "select_manifest" \in Todo => "candidate_selected" \in Todo
    /\ "candidate_selected" \in Todo => "bootstrap" \in Todo /\ "candidate_ready" \in Todo
    /\ "remove_plist" \in Todo => "remove_manifest" \in Todo
    /\ "remove_manifest" \in Todo => "remove_generations" \in Todo
    /\ "emergency_stop" \in Todo => "clear_request" \in Todo
    /\ "clear_request" \in Todo => "bootstrap" \in Todo
    /\ "disarm_unexpected" \in Todo => "preflight" \in Todo
    /\ "preflight" \in Todo => "publish_enforce" \in Todo
    /\ "publish_enforce" \in Todo => "arm" \in Todo

\* launchd and the selection, between the step that stops the service and the
\* one that starts it again.
PlaceInv ==
    /\ "restart_prior" \in Todo /\ "evict" \notin Todo => job = 0
    /\ "candidate_ready" \in Todo /\ "back_up" \notin Todo /\ "bootstrap" \in Todo => job = 0
    /\ "remove_generations" \in Todo /\ "drop_backup" \notin Todo /\ "retire_tx" \notin Todo
          /\ "bootout" \notin Todo => job = 0
    /\ "drop_tx" \in Todo /\ "restore_plist" \notin Todo => plist = tx.prior
    /\ "drop_tx" \in Todo /\ "restore_manifest" \notin Todo => manifest = RollbackFloor
    /\ "remove_generations" \in Todo /\ "remove_plist" \notin Todo => plist = 0
    /\ "remove_generations" \in Todo /\ "remove_manifest" \notin Todo => manifest = NoManifest

\* A job is that of the selected generation, and a daemon that of the job.
RuntimeInv ==
    /\ job \in {0, plist}
    /\ daemon.state = "none" \/ daemon.gen = 0 => daemon = NoDaemon
    /\ daemon # NoDaemon => job # 0 /\ daemon.gen = job /\ db.gen = job
    /\ cli.exact => daemon # NoDaemon

Settled == {"none", "accepted"}

\* The material of a transaction.
TxInv ==
    /\ tx.phase = "none" => tx = NoTx
    /\ tx.phase # "none" =>
          /\ tx.cand # 0 /\ tx.cand # tx.prior /\ tx.cand <= installs
          /\ tx.prior # 0 => dirs[tx.prior] # 0
          /\ dirs[tx.cand] \in {0, installs}
          /\ tx.phase \notin {"prepared", "rollback_in_progress"} => dirs[tx.cand] # 0
          /\ plist \in {tx.cand, tx.prior} /\ manifest.gen \in {tx.cand, tx.prior}
          /\ plist = tx.cand \/ manifest.gen = tx.cand => dirs[tx.cand] # 0
          /\ "candidate_durable" \in Todo /\ "publish_generation" \notin Todo =>
                dirs[tx.cand] # 0
    /\ \/ tx.phase \in {"prepared", "candidate_durable", "prior_drained"}
       \/ tx.phase = "rollback_in_progress" /\ ~tx.restore
       => plist = tx.prior /\ manifest.gen = tx.prior /\ ~tx.backedUp
    /\ tx.phase \notin Settled \cup {"prior_drained"} => BackupMatches
    /\ tx.phase = "accepted" => Selected(tx.cand) /\ db.gen # 0
    /\ tx.phase = "none" => /\ plist = 0 \/ Selected(plist)
                            /\ manifest.gen # 0 => dirs[manifest.gen] # 0

\* No build is selected over a history that a newer one wrote.
OpenInv ==
    /\ plist # 0 => db.by <= dirs[plist]
    /\ db.by <= installs /\ backup.by <= installs
    /\ \A g \in Generations : dirs[g] <= installs /\ (dirs[g] # 0 => g <= installs)
    /\ tx.phase \notin Settled /\ tx.prior # 0 => backup.by <= dirs[tx.prior]
    /\ "restore" \in Todo /\ "evict" \notin Todo /\ tx.restore => db = NoDb
    /\ "restore_plist" \in Todo /\ "restore" \notin Todo /\ tx.prior # 0 =>
          db.by <= dirs[tx.prior]

Desired(g) == manifest.gen = g /\ manifest.mode = "enforce"

\* Nothing enforces, and nothing would without a new request.
Quiet == ~db.carry /\ ~daemon.pending /\ daemon.state # "enforce"

RequestInv ==
    /\ daemon.state = "enforce" \/ daemon.pending => Desired(daemon.gen) \/ unclaimed
    /\ db.carry => Desired(db.gen) \/ unclaimed
    /\ backup.carry => unclaimed
    /\ job = 0 /\ db.carry => unclaimed
    /\ "publish_report_only" \in Todo /\ "contain" \notin Todo /\ "clear_request" \notin Todo =>
          Quiet /\ "restore" \notin Todo
    /\ "arm" \in Todo /\ "publish_enforce" \notin Todo => manifest.mode = "enforce"
    /\ "arm" \in Todo /\ "preflight" \notin Todo =>
          /\ Todo \subseteq {"publish_enforce", "arm", "arm_answer"}
          /\ cli.exact => daemon.gen = manifest.gen /\ manifest.gen # 0

\* The types of everything but the steps, which Ordered has.
StateTypes ==
    /\ tx \in [phase : Phases \cup {"none"}, cand : 0 .. MaxInstalls,
               prior : 0 .. MaxInstalls, loaded : BOOLEAN,
               backedUp : BOOLEAN, restore : BOOLEAN]
    /\ plist \in 0 .. MaxInstalls
    /\ manifest \in [gen : 0 .. MaxInstalls, mode : {"report_only", "enforce"}]
    /\ db \in [by : 0 .. MaxInstalls, gen : 0 .. MaxInstalls, carry : BOOLEAN]
    /\ backup \in [by : 0 .. MaxInstalls, gen : 0 .. MaxInstalls, carry : BOOLEAN]
    /\ dirs \in [Generations -> 0 .. MaxInstalls]
    /\ job \in 0 .. MaxInstalls
    /\ daemon \in [gen : 0 .. MaxInstalls, pending : BOOLEAN,
                   state : {"none", "recovering", "first_scan", "ready", "enforce",
                            "failed", "draining"}]
    /\ cli = [todo |-> cli.todo, loaded |-> cli.loaded, exact |-> cli.exact]
    /\ cli.loaded \in BOOLEAN /\ cli.exact \in BOOLEAN
    /\ installs \in 0 .. MaxInstalls
    /\ faults \in 0 .. MaxFaults
    /\ unclaimed \in BOOLEAN

ServiceInv ==
    /\ StateTypes /\ OrderInv /\ CloseInv /\ PhaseInv
    /\ PlaceInv /\ RuntimeInv /\ TxInv /\ OpenInv /\ RequestInv

-----------------------------------------------------------------------------
(* Sequences of steps *)

StepsIn(s) == {s[i] : i \in DOMAIN s}

\* What is left of an ordered command is ordered, and its first step is one of
\* those that come before the rest.
LEMMA TailOrdered ==
    ASSUME NEW s, Ordered(s), s # <<>>
    PROVE  /\ Ordered(Tail(s))
           /\ Head(s) \in Marks \cup Stopping
           /\ StepsIn(s) = {Head(s)} \cup StepsIn(Tail(s))
           /\ \A x \in StepsIn(Tail(s)) :
                 /\ Head(s) \in Marks /\ x \in Marks => Rank(Head(s)) < Rank(x)
                 /\ Head(s) = "preflight" => x \in {"publish_enforce", "arm", "arm_answer"}
                 /\ Head(s) = "remove_plist" => x \in {"remove_manifest", "remove_generations"}
                 /\ x = "retire_tx" => Head(s) \in {"accept_begin", "accept_commit", "retire_backup"}
<1>1. /\ s \in Seq(Marks \cup Stopping)
      /\ Tail(s) \in Seq(Marks \cup Stopping)
      /\ Head(s) \in Marks \cup Stopping /\ Head(s) = s[1]
      /\ Len(s) \in Nat /\ Len(s) >= 1 /\ Len(Tail(s)) = Len(s) - 1
      /\ DOMAIN s = 1 .. Len(s) /\ DOMAIN Tail(s) = 1 .. Len(Tail(s))
      /\ \A i \in 1 .. Len(Tail(s)) : Tail(s)[i] = s[i + 1]
  BY DEF Ordered
<1> DEFINE t == Tail(s)
<1> HIDE DEF t
<1>2. /\ t \in Seq(Marks \cup Stopping)
      /\ Len(t) \in Nat /\ Len(s) = Len(t) + 1
      /\ DOMAIN t = 1 .. Len(t)
      /\ \A i \in 1 .. Len(t) : t[i] = s[i + 1] /\ i + 1 \in 1 .. Len(s)
  BY <1>1 DEF t
<1>3. StepsIn(s) = {Head(s)} \cup StepsIn(t)
  <2>1. ASSUME NEW i \in 1 .. Len(s) PROVE s[i] \in {Head(s)} \cup StepsIn(t)
    <3>1. CASE i = 1
      BY <1>1, <3>1
    <3>2. CASE i # 1
      <4>1. i - 1 \in 1 .. Len(t) /\ s[i] = t[i - 1]
        BY <1>1, <1>2, <3>2
      <4> QED
        BY <1>2, <4>1 DEF StepsIn
    <3> QED
      BY <3>1, <3>2
  <2>2. Head(s) \in StepsIn(s)
    BY <1>1 DEF StepsIn
  <2>3. ASSUME NEW i \in 1 .. Len(t) PROVE t[i] \in StepsIn(s)
    BY <1>1, <1>2 DEF StepsIn
  <2> QED
    BY <1>1, <1>2, <2>1, <2>2, <2>3 DEF StepsIn
<1>4. \A x \in StepsIn(t) :
         /\ Head(s) \in Marks /\ x \in Marks => Rank(Head(s)) < Rank(x)
         /\ Head(s) = "preflight" => x \in {"publish_enforce", "arm", "arm_answer"}
         /\ Head(s) = "remove_plist" => x \in {"remove_manifest", "remove_generations"}
         /\ x = "retire_tx" => Head(s) \in {"accept_begin", "accept_commit", "retire_backup"}
  <2> SUFFICES ASSUME NEW i \in 1 .. Len(t)
               PROVE  /\ s[1] \in Marks /\ t[i] \in Marks => Rank(s[1]) < Rank(t[i])
                      /\ s[1] = "preflight" => t[i] \in {"publish_enforce", "arm", "arm_answer"}
                      /\ s[1] = "remove_plist" => t[i] \in {"remove_manifest", "remove_generations"}
                      /\ t[i] = "retire_tx" => s[1] \in {"accept_begin", "accept_commit", "retire_backup"}
    BY <1>1, <1>2 DEF StepsIn
  <2>1. t[i] = s[i + 1] /\ i + 1 \in 1 .. Len(s) /\ 1 < i + 1 /\ 1 \in 1 .. Len(s)
    BY <1>1, <1>2
  <2> QED
    BY <2>1 DEF Ordered
<1>5. Ordered(t)
  <2>1. ASSUME NEW i \in 1 .. Len(t), NEW j \in 1 .. Len(t), i < j
        PROVE  /\ t[i] \in Marks /\ t[j] \in Marks => Rank(t[i]) < Rank(t[j])
               /\ t[i] = "preflight" => t[j] \in {"publish_enforce", "arm", "arm_answer"}
               /\ t[i] = "remove_plist" => t[j] \in {"remove_manifest", "remove_generations"}
               /\ t[j] = "retire_tx" => t[i] \in {"accept_begin", "accept_commit", "retire_backup"}
    <3>1. /\ t[i] = s[i + 1] /\ i + 1 \in 1 .. Len(s)
          /\ t[j] = s[j + 1] /\ j + 1 \in 1 .. Len(s) /\ i + 1 < j + 1
      BY <1>2, <2>1
    <3> QED
      BY <3>1 DEF Ordered
  <2>2. ASSUME NEW i \in 1 .. Len(t)
        PROVE  /\ t[i] = "disarm" => i + 2 <= Len(t) /\ t[i + 1] = "drain" /\ t[i + 2] = "bootout"
               /\ t[i] = "drain" => i + 1 <= Len(t) /\ t[i + 1] = "bootout"
               /\ t[i] = "restart_prior" => i + 1 <= Len(t) /\ t[i + 1] = "await_ready"
               /\ t[i] = "contain" => i + 1 <= Len(t) /\ t[i + 1] = "await_contained"
               /\ t[i] \in {"retire_tx", "drop_backup"} /\ i + 1 <= Len(t) => t[i + 1] \in Firsts
    <3> DEFINE k == i + 1
    <3>1. t[i] = s[k] /\ k \in 1 .. Len(s)
      BY <1>2
    <3>2. /\ s[k] = "disarm" => k + 2 <= Len(s) /\ s[k + 1] = "drain" /\ s[k + 2] = "bootout"
          /\ s[k] = "drain" => k + 1 <= Len(s) /\ s[k + 1] = "bootout"
          /\ s[k] = "restart_prior" => k + 1 <= Len(s) /\ s[k + 1] = "await_ready"
          /\ s[k] = "contain" => k + 1 <= Len(s) /\ s[k + 1] = "await_contained"
          /\ s[k] \in {"retire_tx", "drop_backup"} /\ k + 1 <= Len(s) => s[k + 1] \in Firsts
      BY <3>1 DEF Ordered
    <3>3. /\ k + 2 <= Len(s) => i + 2 <= Len(t) /\ t[i + 2] = s[k + 2]
          /\ k + 1 <= Len(s) <=> i + 1 <= Len(t)
          /\ i + 1 <= Len(t) => t[i + 1] = s[k + 1]
      BY <1>2
    <3> HIDE DEF k
    <3> QED
      BY <1>2, <3>1, <3>2, <3>3
  <2> QED
    BY <1>2, <2>1, <2>2 DEF Ordered
<1> QED
  BY <1>1, <1>3, <1>4, <1>5 DEF t

\* One program after another.
LEMMA ConcatOrdered ==
    ASSUME NEW s, NEW t, Ordered(s), Ordered(t), s # <<>>,
           \A x \in StepsIn(s), y \in StepsIn(t) :
              x \in Marks /\ y \in Marks => Rank(x) < Rank(y),
           "preflight" \notin StepsIn(s), "remove_plist" \notin StepsIn(s), "retire_tx" \notin StepsIn(t),
           s[Len(s)] \in {"retire_tx", "drop_backup"} /\ t # <<>> => Head(t) \in Firsts
    PROVE  /\ Ordered(s \o t)
           /\ StepsIn(s \o t) = StepsIn(s) \cup StepsIn(t)
           /\ Head(s \o t) = Head(s)
<1> DEFINE c == s \o t
           m == Len(s)
           n == Len(t)
<1>1. /\ s \in Seq(Marks \cup Stopping) /\ t \in Seq(Marks \cup Stopping)
      /\ c \in Seq(Marks \cup Stopping)
      /\ m \in Nat /\ m >= 1 /\ n \in Nat /\ Len(c) = m + n
      /\ DOMAIN s = 1 .. m /\ DOMAIN t = 1 .. n /\ DOMAIN c = 1 .. m + n
      /\ \A i \in 1 .. m : c[i] = s[i]
      /\ \A i \in 1 .. n : c[m + i] = t[i]
      /\ Head(s) = s[1] /\ Head(c) = c[1]
  BY DEF Ordered
<1>t. t # <<>> => Head(t) = t[1]
  BY <1>1
<1>e. n >= 1 => t # <<>>
  BY <1>1
<1> HIDE DEF c, m, n
<1>2. /\ \A i \in 1 .. m : s[i] \in StepsIn(s)
      /\ \A i \in 1 .. n : t[i] \in StepsIn(t)
  BY <1>1 DEF StepsIn
<1>3. \A i \in 1 .. m + n : \/ i \in 1 .. m /\ c[i] = s[i]
                            \/ i - m \in 1 .. n /\ i > m /\ c[i] = t[i - m]
  <2> TAKE i \in 1 .. m + n
  <2>1. CASE i <= m
    BY <1>1, <2>1
  <2>2. CASE i > m
    <3>1. i - m \in 1 .. n /\ m + (i - m) = i
      BY <1>1, <2>2
    <3> QED
      BY <1>1, <2>2, <3>1
  <2> QED
    BY <1>1, <2>1, <2>2
<1>4. ASSUME NEW i \in 1 .. m + n, NEW j \in 1 .. m + n, i < j
      PROVE  /\ c[i] \in Marks /\ c[j] \in Marks => Rank(c[i]) < Rank(c[j])
             /\ c[i] = "preflight" => c[j] \in {"publish_enforce", "arm", "arm_answer"}
             /\ c[i] = "remove_plist" => c[j] \in {"remove_manifest", "remove_generations"}
             /\ c[j] = "retire_tx" => c[i] \in {"accept_begin", "accept_commit", "retire_backup"}
  <2>1. CASE j \in 1 .. m /\ c[j] = s[j]
    <3>1. i \in 1 .. m /\ c[i] = s[i]
      BY <1>1, <1>4, <2>1
    <3> QED
      BY <1>4, <2>1, <3>1 DEF Ordered, m
  <2>2. CASE j > m /\ j - m \in 1 .. n /\ c[j] = t[j - m]
    <3>1. CASE i \in 1 .. m /\ c[i] = s[i]
      BY <1>2, <2>2, <3>1
    <3>2. CASE i > m /\ i - m \in 1 .. n /\ c[i] = t[i - m]
      <4>1. i - m < j - m
        BY <1>1, <1>4
      <4> QED
        BY <2>2, <3>2, <4>1 DEF Ordered, n
    <3> QED
      BY <1>3, <3>1, <3>2
  <2> QED
    BY <1>3, <2>1, <2>2
<1>5. ASSUME NEW i \in 1 .. m + n
      PROVE  /\ c[i] = "disarm" => i + 2 <= m + n /\ c[i + 1] = "drain" /\ c[i + 2] = "bootout"
             /\ c[i] = "drain" => i + 1 <= m + n /\ c[i + 1] = "bootout"
             /\ c[i] = "restart_prior" => i + 1 <= m + n /\ c[i + 1] = "await_ready"
             /\ c[i] = "contain" => i + 1 <= m + n /\ c[i + 1] = "await_contained"
             /\ c[i] \in {"retire_tx", "drop_backup"} /\ i + 1 <= m + n => c[i + 1] \in Firsts
  <2>1. CASE i \in 1 .. m /\ c[i] = s[i]
    <3>1. /\ s[i] = "disarm" => i + 2 <= m /\ s[i + 1] = "drain" /\ s[i + 2] = "bootout"
          /\ s[i] = "drain" => i + 1 <= m /\ s[i + 1] = "bootout"
          /\ s[i] = "restart_prior" => i + 1 <= m /\ s[i + 1] = "await_ready"
          /\ s[i] = "contain" => i + 1 <= m /\ s[i + 1] = "await_contained"
          /\ s[i] \in {"retire_tx", "drop_backup"} /\ i + 1 <= m => s[i + 1] \in Firsts
      BY <2>1 DEF Ordered, m
    <3>2. /\ i + 1 <= m => c[i + 1] = s[i + 1]
          /\ i + 2 <= m => c[i + 2] = s[i + 2] /\ c[i + 1] = s[i + 1]
      BY <1>1
    <3>3. CASE i + 1 <= m
      BY <1>1, <2>1, <3>1, <3>2, <3>3
    <3>4. CASE i + 1 > m
      <4>1. i = m /\ (i + 1 <= m + n => n >= 1 /\ c[i + 1] = t[1])
        BY <1>1, <2>1, <3>4
      <4>2. s[i] \in {"retire_tx", "drop_backup"} /\ i + 1 <= m + n => c[i + 1] \in Firsts
        BY <1>t, <1>e, <4>1 DEF m
      <4>3. s[i] \notin {"disarm", "drain", "restart_prior", "contain"}
        BY <1>1, <2>1, <3>1, <4>1
      <4> QED
        BY <2>1, <4>2, <4>3
    <3> QED
      BY <1>1, <3>3, <3>4
  <2>2. CASE i > m /\ i - m \in 1 .. n /\ c[i] = t[i - m]
    <3> DEFINE k == i - m
    <3>1. k \in 1 .. n /\ c[i] = t[k] /\ i = m + k
      BY <1>1, <2>2
    <3> HIDE DEF k
    <3>2. /\ t[k] = "disarm" => k + 2 <= n /\ t[k + 1] = "drain" /\ t[k + 2] = "bootout"
          /\ t[k] = "drain" => k + 1 <= n /\ t[k + 1] = "bootout"
          /\ t[k] = "restart_prior" => k + 1 <= n /\ t[k + 1] = "await_ready"
          /\ t[k] = "contain" => k + 1 <= n /\ t[k + 1] = "await_contained"
          /\ t[k] \in {"retire_tx", "drop_backup"} /\ k + 1 <= n => t[k + 1] \in Firsts
      BY <3>1 DEF Ordered, n
    <3>3. /\ k + 1 <= n => c[i + 1] = t[k + 1] /\ i + 1 <= m + n
          /\ k + 2 <= n => c[i + 2] = t[k + 2] /\ c[i + 1] = t[k + 1] /\ i + 2 <= m + n
          /\ i + 1 <= m + n => k + 1 <= n
      <4>1. /\ k + 1 <= n => k + 1 \in 1 .. n /\ m + (k + 1) = i + 1
            /\ k + 2 <= n => k + 2 \in 1 .. n /\ m + (k + 2) = i + 2 /\ k + 1 <= n
            /\ k + 1 <= n => i + 1 <= m + n
            /\ k + 2 <= n => i + 2 <= m + n
            /\ i + 1 <= m + n => k + 1 <= n
        BY <1>1, <3>1
      <4> QED
        BY <1>1, <4>1
    <3> QED
      BY <3>1, <3>2, <3>3
  <2> QED
    BY <1>3, <2>1, <2>2
<1>6. Ordered(c)
  BY <1>1, <1>4, <1>5 DEF Ordered
<1>7. StepsIn(c) = StepsIn(s) \cup StepsIn(t)
  <2>1. ASSUME NEW i \in 1 .. m + n PROVE c[i] \in StepsIn(s) \cup StepsIn(t)
    BY <1>2, <1>3
  <2>2. ASSUME NEW i \in 1 .. m PROVE s[i] \in StepsIn(c)
    <3>1. i \in 1 .. m + n /\ c[i] = s[i]
      BY <1>1
    <3> QED
      BY <1>1, <3>1 DEF StepsIn
  <2>3. ASSUME NEW i \in 1 .. n PROVE t[i] \in StepsIn(c)
    <3>1. m + i \in 1 .. m + n /\ c[m + i] = t[i]
      BY <1>1
    <3> QED
      BY <1>1, <3>1 DEF StepsIn
  <2>4. StepsIn(c) \subseteq StepsIn(s) \cup StepsIn(t)
    <3> SUFFICES ASSUME NEW x \in StepsIn(c) PROVE x \in StepsIn(s) \cup StepsIn(t)
      OBVIOUS
    <3>1. PICK i \in DOMAIN c : x = c[i]
      BY Zenon DEF StepsIn
    <3>2. i \in 1 .. m + n
      BY <1>1, Zenon
    <3> QED
      BY <2>1, <3>1, <3>2, Zenon
  <2>5. StepsIn(s) \subseteq StepsIn(c) /\ StepsIn(t) \subseteq StepsIn(c)
    BY <1>1, <2>2, <2>3, SMTT(30) DEF StepsIn
  <2> QED
    BY <2>4, <2>5
<1> QED
  BY <1>1, <1>6, <1>7 DEF c

-----------------------------------------------------------------------------
(* The programs: each is ordered, and these are its steps *)

\* The program Rollback is ordered, and these are its steps.
LEMMA RollbackProgram ==
    /\ Ordered(Rollback)
    /\ StepsIn(Rollback) =
          {"mark", "disarm", "drain", "bootout", "evict", "restore", "restore_plist",
           "restore_manifest", "restart_prior", "await_ready", "drop_tx", "drop_backup"}
    /\ Rollback # <<>> /\ Head(Rollback) = "mark"
    /\ Rollback[Len(Rollback)] = "drop_backup"
    /\ \A x \in StepsIn(Rollback) : x \in Marks => Rank(x) \in 11 .. 22
<1> DEFINE S == Marks \cup Stopping
           p == Rollback
<1>1. /\ "mark" \in S /\ "disarm" \in S /\ "drain" \in S /\ "bootout" \in S
      /\ "evict" \in S /\ "restore" \in S /\ "restore_plist" \in S
      /\ "restore_manifest" \in S /\ "restart_prior" \in S /\ "await_ready" \in S
      /\ "drop_tx" \in S /\ "drop_backup" \in S
  BY DEF Marks, Stopping
<1> HIDE DEF S
<1>2. p \in Seq(S) /\ Len(p) = 12
  BY <1>1 DEF Rollback, Stop
<1>3. /\ p[1] = "mark" /\ p[2] = "disarm" /\ p[3] = "drain" /\ p[4] = "bootout"
      /\ p[5] = "evict" /\ p[6] = "restore" /\ p[7] = "restore_plist"
      /\ p[8] = "restore_manifest" /\ p[9] = "restart_prior" /\ p[10] = "await_ready"
      /\ p[11] = "drop_tx" /\ p[12] = "drop_backup"
  BY DEF Rollback, Stop
<1> HIDE DEF p
<1>4. \A i \in 1 .. 12 : p[i] \in Marks => Rank(p[i]) = 10 + i
  BY <1>3 DEF Marks, Rank
<1>5. DOMAIN p = 1 .. 12 /\ p # <<>> /\ Head(p) = p[1]
  <2>1. DOMAIN p = 1 .. 12 /\ Head(p) = p[1]
    BY <1>2
  <2>2. Len(<<>>) = 0
    OBVIOUS
  <2>3. p # <<>>
    BY <1>2, <2>2, 0 # 12, Zenon
  <2> QED
    BY <2>1, <2>3
<1>6. \A i \in 1 .. 12 :
          /\ p[i] \notin {"remove_plist", "preflight", "retire_tx", "contain"}
          /\ p[i] = "disarm" => i = 2
          /\ p[i] = "drain" => i = 3
          /\ p[i] = "restart_prior" => i = 9
          /\ p[i] = "drop_backup" => i = 12
  BY <1>3
<1>7. Ordered(p)
  BY <1>2, <1>3, <1>4, <1>6 DEF Ordered, S
<1>8. StepsIn(p) = {p[1], p[2], p[3], p[4], p[5], p[6], p[7], p[8], p[9], p[10], p[11],
                    p[12]}
  BY <1>5 DEF StepsIn
<1>9. \A x \in StepsIn(p) : x \in Marks => Rank(x) \in 11 .. 22
  <2> SUFFICES ASSUME NEW i \in 1 .. 12, p[i] \in Marks PROVE Rank(p[i]) \in 11 .. 22
    BY <1>5 DEF StepsIn
  <2> QED
    BY <1>4
<1> QED
  BY <1>2, <1>3, <1>5, <1>7, <1>8, <1>9 DEF p

\* The program Install is ordered, and these are its steps.
LEMMA InstallProgram ==
    /\ Ordered(Install)
    /\ StepsIn(Install) =
          {"survey", "prepare", "publish_generation", "candidate_durable", "disarm",
           "drain", "bootout", "prior_drained", "back_up", "database_backed_up",
           "select_plist", "select_manifest", "candidate_selected", "bootstrap",
           "await_ready", "candidate_ready"}
    /\ Install # <<>> /\ Head(Install) = "survey"
    /\ Install[Len(Install)] = "candidate_ready"
    /\ \A x \in StepsIn(Install) : x \in Marks => Rank(x) \in 31 .. 46
<1> DEFINE S == Marks \cup Stopping
           p == Install
<1>1. /\ "survey" \in S /\ "prepare" \in S /\ "publish_generation" \in S
      /\ "candidate_durable" \in S /\ "disarm" \in S /\ "drain" \in S
      /\ "bootout" \in S /\ "prior_drained" \in S /\ "back_up" \in S
      /\ "database_backed_up" \in S /\ "select_plist" \in S /\ "select_manifest" \in S
      /\ "candidate_selected" \in S /\ "bootstrap" \in S /\ "await_ready" \in S
      /\ "candidate_ready" \in S
  BY DEF Marks, Stopping
<1> HIDE DEF S
<1>2. p \in Seq(S) /\ Len(p) = 16
  BY <1>1 DEF Install, Stop
<1>3. /\ p[1] = "survey" /\ p[2] = "prepare" /\ p[3] = "publish_generation"
      /\ p[4] = "candidate_durable" /\ p[5] = "disarm" /\ p[6] = "drain"
      /\ p[7] = "bootout" /\ p[8] = "prior_drained" /\ p[9] = "back_up"
      /\ p[10] = "database_backed_up" /\ p[11] = "select_plist"
      /\ p[12] = "select_manifest" /\ p[13] = "candidate_selected"
      /\ p[14] = "bootstrap" /\ p[15] = "await_ready" /\ p[16] = "candidate_ready"
  BY DEF Install, Stop
<1> HIDE DEF p
<1>4. \A i \in 1 .. 16 : p[i] \in Marks => Rank(p[i]) = 30 + i
  BY <1>3 DEF Marks, Rank
<1>5. DOMAIN p = 1 .. 16 /\ p # <<>> /\ Head(p) = p[1]
  <2>1. DOMAIN p = 1 .. 16 /\ Head(p) = p[1]
    BY <1>2
  <2>2. Len(<<>>) = 0
    OBVIOUS
  <2>3. p # <<>>
    BY <1>2, <2>2, 0 # 16, Zenon
  <2> QED
    BY <2>1, <2>3
<1>6. \A i \in 1 .. 16 :
          /\ p[i] \notin {"remove_plist", "preflight", "retire_tx", "drop_backup",
                       "restart_prior", "contain"}
          /\ p[i] = "disarm" => i = 5
          /\ p[i] = "drain" => i = 6
  BY <1>3
<1>7. Ordered(p)
  BY <1>2, <1>3, <1>4, <1>6, SMTT(30) DEF Ordered, S
<1>8. StepsIn(p) = {p[1], p[2], p[3], p[4], p[5], p[6], p[7], p[8], p[9], p[10], p[11],
                    p[12], p[13], p[14], p[15], p[16]}
  BY <1>5 DEF StepsIn
<1>9. \A x \in StepsIn(p) : x \in Marks => Rank(x) \in 31 .. 46
  <2> SUFFICES ASSUME NEW i \in 1 .. 16, p[i] \in Marks PROVE Rank(p[i]) \in 31 .. 46
    BY <1>5 DEF StepsIn
  <2> QED
    BY <1>4
<1> QED
  BY <1>2, <1>3, <1>5, <1>7, <1>8, <1>9 DEF p

\* The program Finalize is ordered, and these are its steps.
LEMMA FinalizeProgram ==
    /\ Ordered(Finalize)
    /\ StepsIn(Finalize) =
          {"retire_backup", "retire_tx"}
    /\ Finalize # <<>> /\ Head(Finalize) = "retire_backup"
    /\ Finalize[Len(Finalize)] = "retire_tx"
    /\ \A x \in StepsIn(Finalize) : x \in Marks => Rank(x) \in 3 .. 4
<1> DEFINE S == Marks \cup Stopping
           p == Finalize
<1>1. /\ "retire_backup" \in S /\ "retire_tx" \in S
  BY DEF Marks, Stopping
<1> HIDE DEF S
<1>2. p \in Seq(S) /\ Len(p) = 2
  BY <1>1 DEF Finalize
<1>3. /\ p[1] = "retire_backup" /\ p[2] = "retire_tx"
  BY DEF Finalize
<1> HIDE DEF p
<1>4. \A i \in 1 .. 2 : p[i] \in Marks => Rank(p[i]) = 2 + i
  BY <1>3 DEF Marks, Rank
<1>5. DOMAIN p = 1 .. 2 /\ p # <<>> /\ Head(p) = p[1]
  <2>1. DOMAIN p = 1 .. 2 /\ Head(p) = p[1]
    BY <1>2
  <2>2. Len(<<>>) = 0
    OBVIOUS
  <2>3. p # <<>>
    BY <1>2, <2>2, 0 # 2, Zenon
  <2> QED
    BY <2>1, <2>3
<1>6. \A i \in 1 .. 2 :
          /\ p[i] \notin {"remove_plist", "preflight", "drop_backup", "restart_prior",
                       "contain", "disarm", "drain"}
          /\ p[i] = "retire_tx" => i = 2
  BY <1>3
<1>7. Ordered(p)
  BY <1>2, <1>3, <1>4, <1>6 DEF Ordered, S
<1>8. StepsIn(p) = {p[1], p[2]}
  BY <1>5 DEF StepsIn
<1>9. \A x \in StepsIn(p) : x \in Marks => Rank(x) \in 3 .. 4
  <2> SUFFICES ASSUME NEW i \in 1 .. 2, p[i] \in Marks PROVE Rank(p[i]) \in 3 .. 4
    BY <1>5 DEF StepsIn
  <2> QED
    BY <1>4
<1> QED
  BY <1>2, <1>3, <1>5, <1>7, <1>8, <1>9 DEF p

\* The program Accept is ordered, and these are its steps.
LEMMA AcceptProgram ==
    /\ Ordered(Accept)
    /\ StepsIn(Accept) =
          {"accept_begin", "accept_commit", "retire_backup", "retire_tx"}
    /\ Accept # <<>> /\ Head(Accept) = "accept_begin"
    /\ Accept[Len(Accept)] = "retire_tx"
    /\ \A x \in StepsIn(Accept) : x \in Marks => Rank(x) \in 1 .. 4
<1> DEFINE S == Marks \cup Stopping
           p == Accept
<1>1. /\ "accept_begin" \in S /\ "accept_commit" \in S /\ "retire_backup" \in S
      /\ "retire_tx" \in S
  BY DEF Marks, Stopping
<1> HIDE DEF S
<1>2. p \in Seq(S) /\ Len(p) = 4
  BY <1>1 DEF Accept, Finalize
<1>3. /\ p[1] = "accept_begin" /\ p[2] = "accept_commit" /\ p[3] = "retire_backup"
      /\ p[4] = "retire_tx"
  BY DEF Accept, Finalize
<1> HIDE DEF p
<1>4. \A i \in 1 .. 4 : p[i] \in Marks => Rank(p[i]) = 0 + i
  BY <1>3 DEF Marks, Rank
<1>5. DOMAIN p = 1 .. 4 /\ p # <<>> /\ Head(p) = p[1]
  <2>1. DOMAIN p = 1 .. 4 /\ Head(p) = p[1]
    BY <1>2
  <2>2. Len(<<>>) = 0
    OBVIOUS
  <2>3. p # <<>>
    BY <1>2, <2>2, 0 # 4, Zenon
  <2> QED
    BY <2>1, <2>3
<1>6. \A i \in 1 .. 4 :
          /\ p[i] \notin {"remove_plist", "preflight", "drop_backup", "restart_prior",
                       "contain", "disarm", "drain"}
          /\ p[i] = "retire_tx" => i = 4
  BY <1>3
<1>7. Ordered(p)
  BY <1>2, <1>3, <1>4, <1>6 DEF Ordered, S
<1>8. StepsIn(p) = {p[1], p[2], p[3], p[4]}
  BY <1>5 DEF StepsIn
<1>9. \A x \in StepsIn(p) : x \in Marks => Rank(x) \in 1 .. 4
  <2> SUFFICES ASSUME NEW i \in 1 .. 4, p[i] \in Marks PROVE Rank(p[i]) \in 1 .. 4
    BY <1>5 DEF StepsIn
  <2> QED
    BY <1>4
<1> QED
  BY <1>2, <1>3, <1>5, <1>7, <1>8, <1>9 DEF p

\* The program Emergency is ordered, and these are its steps.
LEMMA EmergencyProgram ==
    /\ Ordered(Emergency)
    /\ StepsIn(Emergency) =
          {"emergency_stop", "clear_request", "bootstrap", "await_runtime"}
    /\ Emergency # <<>> /\ Head(Emergency) = "emergency_stop"
    /\ Emergency[Len(Emergency)] = "await_runtime"
    /\ \A x \in StepsIn(Emergency) : x \in Marks => Rank(x) \in 42 .. 45
<1> DEFINE S == Marks \cup Stopping
           p == Emergency
<1>1. /\ "emergency_stop" \in S /\ "clear_request" \in S /\ "bootstrap" \in S
      /\ "await_runtime" \in S
  BY DEF Marks, Stopping
<1> HIDE DEF S
<1>2. p \in Seq(S) /\ Len(p) = 4
  BY <1>1 DEF Emergency
<1>3. /\ p[1] = "emergency_stop" /\ p[2] = "clear_request" /\ p[3] = "bootstrap"
      /\ p[4] = "await_runtime"
  BY DEF Emergency
<1> HIDE DEF p
<1>4. \A i \in 1 .. 4 : p[i] \in Marks => Rank(p[i]) = 41 + i
  BY <1>3 DEF Marks, Rank
<1>5. DOMAIN p = 1 .. 4 /\ p # <<>> /\ Head(p) = p[1]
  <2>1. DOMAIN p = 1 .. 4 /\ Head(p) = p[1]
    BY <1>2
  <2>2. Len(<<>>) = 0
    OBVIOUS
  <2>3. p # <<>>
    BY <1>2, <2>2, 0 # 4, Zenon
  <2> QED
    BY <2>1, <2>3
<1>6. \A i \in 1 .. 4 :
          /\ p[i] \notin {"remove_plist", "preflight", "retire_tx", "drop_backup",
                       "restart_prior", "contain", "disarm", "drain"}
  BY <1>3
<1>7. Ordered(p)
  BY <1>2, <1>3, <1>4, <1>6 DEF Ordered, S
<1>8. StepsIn(p) = {p[1], p[2], p[3], p[4]}
  BY <1>5 DEF StepsIn
<1>9. \A x \in StepsIn(p) : x \in Marks => Rank(x) \in 42 .. 45
  <2> SUFFICES ASSUME NEW i \in 1 .. 4, p[i] \in Marks PROVE Rank(p[i]) \in 42 .. 45
    BY <1>5 DEF StepsIn
  <2> QED
    BY <1>4
<1> QED
  BY <1>2, <1>3, <1>5, <1>7, <1>8, <1>9 DEF p

\* The program Restart is ordered, and these are its steps.
LEMMA RestartProgram ==
    /\ Ordered(Restart)
    /\ StepsIn(Restart) =
          {"check_restart", "emergency_stop", "clear_request", "bootstrap",
           "await_runtime", "await_ready"}
    /\ Restart # <<>> /\ Head(Restart) = "check_restart"
    /\ Restart[Len(Restart)] = "await_ready"
    /\ \A x \in StepsIn(Restart) : x \in Marks => Rank(x) \in 41 .. 46
<1> DEFINE S == Marks \cup Stopping
           p == Restart
<1>1. /\ "check_restart" \in S /\ "emergency_stop" \in S /\ "clear_request" \in S
      /\ "bootstrap" \in S /\ "await_runtime" \in S /\ "await_ready" \in S
  BY DEF Marks, Stopping
<1> HIDE DEF S
<1>2. p \in Seq(S) /\ Len(p) = 6
  BY <1>1 DEF Restart, Emergency
<1>3. /\ p[1] = "check_restart" /\ p[2] = "emergency_stop" /\ p[3] = "clear_request"
      /\ p[4] = "bootstrap" /\ p[5] = "await_runtime" /\ p[6] = "await_ready"
  BY DEF Restart, Emergency
<1> HIDE DEF p
<1>4. \A i \in 1 .. 6 : p[i] \in Marks => Rank(p[i]) = 40 + i
  BY <1>3 DEF Marks, Rank
<1>5. DOMAIN p = 1 .. 6 /\ p # <<>> /\ Head(p) = p[1]
  <2>1. DOMAIN p = 1 .. 6 /\ Head(p) = p[1]
    BY <1>2
  <2>2. Len(<<>>) = 0
    OBVIOUS
  <2>3. p # <<>>
    BY <1>2, <2>2, 0 # 6, Zenon
  <2> QED
    BY <2>1, <2>3
<1>6. \A i \in 1 .. 6 :
          /\ p[i] \notin {"remove_plist", "preflight", "retire_tx", "drop_backup",
                       "restart_prior", "contain", "disarm", "drain"}
  BY <1>3
<1>7. Ordered(p)
  BY <1>2, <1>3, <1>4, <1>6 DEF Ordered, S
<1>8. StepsIn(p) = {p[1], p[2], p[3], p[4], p[5], p[6]}
  BY <1>5 DEF StepsIn
<1>9. \A x \in StepsIn(p) : x \in Marks => Rank(x) \in 41 .. 46
  <2> SUFFICES ASSUME NEW i \in 1 .. 6, p[i] \in Marks PROVE Rank(p[i]) \in 41 .. 46
    BY <1>5 DEF StepsIn
  <2> QED
    BY <1>4
<1> QED
  BY <1>2, <1>3, <1>5, <1>7, <1>8, <1>9 DEF p

\* The program Contain is ordered, and these are its steps.
LEMMA ContainProgram ==
    /\ Ordered(Contain)
    /\ StepsIn(Contain) =
          {"contain", "await_contained"}
    /\ Contain # <<>> /\ Head(Contain) = "contain"
    /\ Contain[Len(Contain)] = "await_contained"
    /\ \A x \in StepsIn(Contain) : x \in Marks => Rank(x) \in 50 .. 51
<1> DEFINE S == Marks \cup Stopping
           p == Contain
<1>1. /\ "contain" \in S /\ "await_contained" \in S
  BY DEF Marks, Stopping
<1> HIDE DEF S
<1>2. p \in Seq(S) /\ Len(p) = 2
  BY <1>1 DEF Contain
<1>3. /\ p[1] = "contain" /\ p[2] = "await_contained"
  BY DEF Contain
<1> HIDE DEF p
<1>4. \A i \in 1 .. 2 : p[i] \in Marks => Rank(p[i]) = 49 + i
  BY <1>3 DEF Marks, Rank
<1>5. DOMAIN p = 1 .. 2 /\ p # <<>> /\ Head(p) = p[1]
  <2>1. DOMAIN p = 1 .. 2 /\ Head(p) = p[1]
    BY <1>2
  <2>2. Len(<<>>) = 0
    OBVIOUS
  <2>3. p # <<>>
    BY <1>2, <2>2, 0 # 2, Zenon
  <2> QED
    BY <2>1, <2>3
<1>6. \A i \in 1 .. 2 :
          /\ p[i] \notin {"remove_plist", "preflight", "retire_tx", "drop_backup",
                       "restart_prior", "disarm", "drain"}
          /\ p[i] = "contain" => i = 1
  BY <1>3
<1>7. Ordered(p)
  BY <1>2, <1>3, <1>4, <1>6 DEF Ordered, S
<1>8. StepsIn(p) = {p[1], p[2]}
  BY <1>5 DEF StepsIn
<1>9. \A x \in StepsIn(p) : x \in Marks => Rank(x) \in 50 .. 51
  <2> SUFFICES ASSUME NEW i \in 1 .. 2, p[i] \in Marks PROVE Rank(p[i]) \in 50 .. 51
    BY <1>5 DEF StepsIn
  <2> QED
    BY <1>4
<1> QED
  BY <1>2, <1>3, <1>5, <1>7, <1>8, <1>9 DEF p

\* The program SetReportOnly is ordered, and these are its steps.
LEMMA SetReportOnlyProgram ==
    /\ Ordered(SetReportOnly)
    /\ StepsIn(SetReportOnly) =
          {"contain", "await_contained", "publish_report_only"}
    /\ SetReportOnly # <<>> /\ Head(SetReportOnly) = "contain"
    /\ SetReportOnly[Len(SetReportOnly)] = "publish_report_only"
    /\ \A x \in StepsIn(SetReportOnly) : x \in Marks => Rank(x) \in 50 .. 52
<1> DEFINE S == Marks \cup Stopping
           p == SetReportOnly
<1>1. /\ "contain" \in S /\ "await_contained" \in S /\ "publish_report_only" \in S
  BY DEF Marks, Stopping
<1> HIDE DEF S
<1>2. p \in Seq(S) /\ Len(p) = 3
  BY <1>1 DEF SetReportOnly, Contain
<1>3. /\ p[1] = "contain" /\ p[2] = "await_contained" /\ p[3] = "publish_report_only"
  BY DEF SetReportOnly, Contain
<1> HIDE DEF p
<1>4. \A i \in 1 .. 3 : p[i] \in Marks => Rank(p[i]) = 49 + i
  BY <1>3 DEF Marks, Rank
<1>5. DOMAIN p = 1 .. 3 /\ p # <<>> /\ Head(p) = p[1]
  <2>1. DOMAIN p = 1 .. 3 /\ Head(p) = p[1]
    BY <1>2
  <2>2. Len(<<>>) = 0
    OBVIOUS
  <2>3. p # <<>>
    BY <1>2, <2>2, 0 # 3, Zenon
  <2> QED
    BY <2>1, <2>3
<1>6. \A i \in 1 .. 3 :
          /\ p[i] \notin {"remove_plist", "preflight", "retire_tx", "drop_backup",
                       "restart_prior", "disarm", "drain"}
          /\ p[i] = "contain" => i = 1
  BY <1>3
<1>7. Ordered(p)
  BY <1>2, <1>3, <1>4, <1>6 DEF Ordered, S
<1>8. StepsIn(p) = {p[1], p[2], p[3]}
  BY <1>5 DEF StepsIn
<1>9. \A x \in StepsIn(p) : x \in Marks => Rank(x) \in 50 .. 52
  <2> SUFFICES ASSUME NEW i \in 1 .. 3, p[i] \in Marks PROVE Rank(p[i]) \in 50 .. 52
    BY <1>5 DEF StepsIn
  <2> QED
    BY <1>4
<1> QED
  BY <1>2, <1>3, <1>5, <1>7, <1>8, <1>9 DEF p

\* The program SetEnforce is ordered, and these are its steps.
LEMMA SetEnforceProgram ==
    /\ Ordered(SetEnforce)
    /\ StepsIn(SetEnforce) =
          {"disarm_unexpected", "preflight", "publish_enforce", "arm", "arm_answer"}
    /\ SetEnforce # <<>> /\ Head(SetEnforce) = "disarm_unexpected"
    /\ SetEnforce[Len(SetEnforce)] = "arm_answer"
    /\ \A x \in StepsIn(SetEnforce) : x \in Marks => Rank(x) \in 52 .. 56
<1> DEFINE S == Marks \cup Stopping
           p == SetEnforce
<1>1. /\ "disarm_unexpected" \in S /\ "preflight" \in S /\ "publish_enforce" \in S
      /\ "arm" \in S /\ "arm_answer" \in S
  BY DEF Marks, Stopping
<1> HIDE DEF S
<1>2. p \in Seq(S) /\ Len(p) = 5
  BY <1>1 DEF SetEnforce
<1>3. /\ p[1] = "disarm_unexpected" /\ p[2] = "preflight" /\ p[3] = "publish_enforce"
      /\ p[4] = "arm" /\ p[5] = "arm_answer"
  BY DEF SetEnforce
<1> HIDE DEF p
<1>4. \A i \in 1 .. 5 : p[i] \in Marks => Rank(p[i]) = 51 + i
  BY <1>3 DEF Marks, Rank
<1>5. DOMAIN p = 1 .. 5 /\ p # <<>> /\ Head(p) = p[1]
  <2>1. DOMAIN p = 1 .. 5 /\ Head(p) = p[1]
    BY <1>2
  <2>2. Len(<<>>) = 0
    OBVIOUS
  <2>3. p # <<>>
    BY <1>2, <2>2, 0 # 5, Zenon
  <2> QED
    BY <2>1, <2>3
<1>6. \A i \in 1 .. 5 :
          /\ p[i] \notin {"remove_plist", "retire_tx", "drop_backup", "restart_prior",
                       "contain", "disarm", "drain"}
          /\ p[i] = "preflight" => i = 2
  BY <1>3
<1>7. Ordered(p)
  BY <1>2, <1>3, <1>4, <1>6 DEF Ordered, S
<1>8. StepsIn(p) = {p[1], p[2], p[3], p[4], p[5]}
  BY <1>5 DEF StepsIn
<1>9. \A x \in StepsIn(p) : x \in Marks => Rank(x) \in 52 .. 56
  <2> SUFFICES ASSUME NEW i \in 1 .. 5, p[i] \in Marks PROVE Rank(p[i]) \in 52 .. 56
    BY <1>5 DEF StepsIn
  <2> QED
    BY <1>4
<1> QED
  BY <1>2, <1>3, <1>5, <1>7, <1>8, <1>9 DEF p

\* The program Uninstall is ordered, and these are its steps.
LEMMA UninstallProgram ==
    /\ Ordered(Uninstall)
    /\ StepsIn(Uninstall) =
          {"disarm", "drain", "bootout", "remove_plist", "remove_manifest",
           "remove_generations"}
    /\ Uninstall # <<>> /\ Head(Uninstall) = "disarm"
    /\ Uninstall[Len(Uninstall)] = "remove_generations"
    /\ \A x \in StepsIn(Uninstall) : x \in Marks => Rank(x) \in 24 .. 29
<1> DEFINE S == Marks \cup Stopping
           p == Uninstall
<1>1. /\ "disarm" \in S /\ "drain" \in S /\ "bootout" \in S /\ "remove_plist" \in S
      /\ "remove_manifest" \in S /\ "remove_generations" \in S
  BY DEF Marks, Stopping
<1> HIDE DEF S
<1>2. p \in Seq(S) /\ Len(p) = 6
  BY <1>1 DEF Uninstall, Stop
<1>3. /\ p[1] = "disarm" /\ p[2] = "drain" /\ p[3] = "bootout"
      /\ p[4] = "remove_plist" /\ p[5] = "remove_manifest"
      /\ p[6] = "remove_generations"
  BY DEF Uninstall, Stop
<1> HIDE DEF p
<1>4. \A i \in 1 .. 6 : p[i] \in Marks => Rank(p[i]) = 23 + i
  BY <1>3 DEF Marks, Rank
<1>5. DOMAIN p = 1 .. 6 /\ p # <<>> /\ Head(p) = p[1]
  <2>1. DOMAIN p = 1 .. 6 /\ Head(p) = p[1]
    BY <1>2
  <2>2. Len(<<>>) = 0
    OBVIOUS
  <2>3. p # <<>>
    BY <1>2, <2>2, 0 # 6, Zenon
  <2> QED
    BY <2>1, <2>3
<1>6. \A i \in 1 .. 6 :
          /\ p[i] \notin {"preflight", "retire_tx", "drop_backup", "restart_prior",
                       "contain"}
          /\ p[i] = "disarm" => i = 1
          /\ p[i] = "drain" => i = 2
          /\ p[i] = "remove_plist" => i = 4
  BY <1>3
<1>7. Ordered(p)
  BY <1>2, <1>3, <1>4, <1>6 DEF Ordered, S
<1>8. StepsIn(p) = {p[1], p[2], p[3], p[4], p[5], p[6]}
  BY <1>5 DEF StepsIn
<1>9. \A x \in StepsIn(p) : x \in Marks => Rank(x) \in 24 .. 29
  <2> SUFFICES ASSUME NEW i \in 1 .. 6, p[i] \in Marks PROVE Rank(p[i]) \in 24 .. 29
    BY <1>5 DEF StepsIn
  <2> QED
    BY <1>4
<1> QED
  BY <1>2, <1>3, <1>5, <1>7, <1>8, <1>9 DEF p

\* The program DropBackup is ordered, and these are its steps.
LEMMA DropBackupProgram ==
    /\ Ordered(<<"drop_backup">>)
    /\ StepsIn(<<"drop_backup">>) =
          {"drop_backup"}
    /\ <<"drop_backup">> # <<>> /\ Head(<<"drop_backup">>) = "drop_backup"
    /\ <<"drop_backup">>[Len(<<"drop_backup">>)] = "drop_backup"
    /\ \A x \in StepsIn(<<"drop_backup">>) : x \in Marks => Rank(x) \in 22 .. 22
<1> DEFINE S == Marks \cup Stopping
           p == <<"drop_backup">>
<1>1. /\ "drop_backup" \in S
  BY DEF Marks, Stopping
<1> HIDE DEF S
<1>2. p \in Seq(S) /\ Len(p) = 1
  BY <1>1
<1>3. /\ p[1] = "drop_backup"
  OBVIOUS
<1> HIDE DEF p
<1>4. \A i \in 1 .. 1 : p[i] \in Marks => Rank(p[i]) = 21 + i
  BY <1>3 DEF Marks, Rank
<1>5. DOMAIN p = 1 .. 1 /\ p # <<>> /\ Head(p) = p[1]
  <2>1. DOMAIN p = 1 .. 1 /\ Head(p) = p[1]
    BY <1>2
  <2>2. Len(<<>>) = 0
    OBVIOUS
  <2>3. p # <<>>
    BY <1>2, <2>2, 0 # 1, Zenon
  <2> QED
    BY <2>1, <2>3
<1>6. \A i \in 1 .. 1 :
          /\ p[i] \notin {"remove_plist", "preflight", "retire_tx", "restart_prior",
                       "contain", "disarm", "drain"}
          /\ p[i] = "drop_backup" => i = 1
  BY <1>3
<1>7. Ordered(p)
  BY <1>2, <1>3, <1>4, <1>6 DEF Ordered, S
<1>8. StepsIn(p) = {p[1]}
  BY <1>5 DEF StepsIn
<1>9. \A x \in StepsIn(p) : x \in Marks => Rank(x) \in 22 .. 22
  <2> SUFFICES ASSUME NEW i \in 1 .. 1, p[i] \in Marks PROVE Rank(p[i]) \in 22 .. 22
    BY <1>5 DEF StepsIn
  <2> QED
    BY <1>4
<1> QED
  BY <1>2, <1>3, <1>5, <1>7, <1>8, <1>9 DEF p

-----------------------------------------------------------------------------
(* What a command begins with, and what its failure leaves it to do *)

\* The value of every rank.
LEMMA Ranks ==
    /\ Rank("accept_begin") = 1        /\ Rank("accept_commit") = 2
    /\ Rank("retire_backup") = 3       /\ Rank("retire_tx") = 4
    /\ Rank("mark") = 11               /\ Rank("evict") = 15
    /\ Rank("restore") = 16            /\ Rank("restore_plist") = 17
    /\ Rank("restore_manifest") = 18   /\ Rank("restart_prior") = 19
    /\ Rank("drop_tx") = 21            /\ Rank("drop_backup") = 22
    /\ Rank("remove_plist") = 27       /\ Rank("remove_manifest") = 28
    /\ Rank("remove_generations") = 29
    /\ Rank("survey") = 31             /\ Rank("prepare") = 32
    /\ Rank("publish_generation") = 33 /\ Rank("candidate_durable") = 34
    /\ Rank("prior_drained") = 38      /\ Rank("back_up") = 39
    /\ Rank("database_backed_up") = 40 /\ Rank("select_plist") = 41
    /\ Rank("select_manifest") = 42    /\ Rank("candidate_selected") = 43
    /\ Rank("check_restart") = 41      /\ Rank("emergency_stop") = 42
    /\ Rank("clear_request") = 43      /\ Rank("bootstrap") = 44
    /\ Rank("await_runtime") = 45      /\ Rank("candidate_ready") = 46
    /\ Rank("contain") = 50            /\ Rank("await_contained") = 51
    /\ Rank("publish_report_only") = 52
    /\ Rank("disarm_unexpected") = 52  /\ Rank("preflight") = 53
    /\ Rank("publish_enforce") = 54    /\ Rank("arm") = 55
    /\ Rank("arm_answer") = 56
  BY DEF Rank

\* Every ranked step has a rank.
LEMMA MarkRanks == \A x \in Marks : Rank(x) \in 1 .. 56
<1> SUFFICES ASSUME NEW x \in Marks PROVE Rank(x) \in 1 .. 56
  OBVIOUS
<1> QED
  BY Ranks DEF Marks

\* Which steps are ranked.
LEMMA MarkNames ==
    /\ "accept_begin" \in Marks /\ "accept_commit" \in Marks
    /\ "retire_backup" \in Marks /\ "retire_tx" \in Marks /\ "mark" \in Marks
    /\ "evict" \in Marks /\ "restore" \in Marks /\ "restore_plist" \in Marks
    /\ "restore_manifest" \in Marks /\ "restart_prior" \in Marks
    /\ "drop_tx" \in Marks /\ "drop_backup" \in Marks /\ "remove_plist" \in Marks
    /\ "remove_manifest" \in Marks /\ "remove_generations" \in Marks
    /\ "survey" \in Marks /\ "prepare" \in Marks /\ "publish_generation" \in Marks
    /\ "candidate_durable" \in Marks /\ "prior_drained" \in Marks
    /\ "back_up" \in Marks /\ "database_backed_up" \in Marks
    /\ "select_plist" \in Marks /\ "select_manifest" \in Marks
    /\ "candidate_selected" \in Marks /\ "check_restart" \in Marks
    /\ "emergency_stop" \in Marks /\ "clear_request" \in Marks
    /\ "bootstrap" \in Marks /\ "await_runtime" \in Marks
    /\ "candidate_ready" \in Marks /\ "contain" \in Marks
    /\ "await_contained" \in Marks /\ "publish_report_only" \in Marks
    /\ "disarm_unexpected" \in Marks /\ "preflight" \in Marks
    /\ "publish_enforce" \in Marks /\ "arm" \in Marks /\ "arm_answer" \in Marks
  BY DEF Marks

\* A command with nothing left to do is ordered.
LEMMA EmptyOrdered == Ordered(<<>>) /\ StepsIn(<<>>) = {}
<1>1. <<>> \in Seq(Marks \cup Stopping) /\ Len(<<>>) = 0 /\ DOMAIN <<>> = 1 .. 0
  OBVIOUS
<1> QED
  BY <1>1 DEF Ordered, StepsIn

\* The ranks each program uses.
LEMMA ProgramRanks ==
    /\ \A x \in StepsIn(Rollback) : x \in Marks => Rank(x) \in 11 .. 22
    /\ \A x \in StepsIn(Install) : x \in Marks => Rank(x) \in 31 .. 46
    /\ \A x \in StepsIn(Finalize) : x \in Marks => Rank(x) \in 3 .. 4
    /\ \A x \in StepsIn(Accept) : x \in Marks => Rank(x) \in 1 .. 4
    /\ \A x \in StepsIn(Emergency) : x \in Marks => Rank(x) \in 42 .. 45
    /\ \A x \in StepsIn(Restart) : x \in Marks => Rank(x) \in 41 .. 46
    /\ \A x \in StepsIn(Contain) : x \in Marks => Rank(x) \in 50 .. 51
    /\ \A x \in StepsIn(SetReportOnly) : x \in Marks => Rank(x) \in 50 .. 52
    /\ \A x \in StepsIn(SetEnforce) : x \in Marks => Rank(x) \in 52 .. 56
    /\ \A x \in StepsIn(Uninstall) : x \in Marks => Rank(x) \in 24 .. 29
<1>1. \A x \in StepsIn(Rollback) : x \in Marks => Rank(x) \in 11 .. 22
  BY RollbackProgram, Zenon
<1>2. \A x \in StepsIn(Install) : x \in Marks => Rank(x) \in 31 .. 46
  BY InstallProgram, Zenon
<1>3. \A x \in StepsIn(Finalize) : x \in Marks => Rank(x) \in 3 .. 4
  BY FinalizeProgram, Zenon
<1>4. \A x \in StepsIn(Accept) : x \in Marks => Rank(x) \in 1 .. 4
  BY AcceptProgram, Zenon
<1>5. \A x \in StepsIn(Emergency) : x \in Marks => Rank(x) \in 42 .. 45
  BY EmergencyProgram, Zenon
<1>6. \A x \in StepsIn(Restart) : x \in Marks => Rank(x) \in 41 .. 46
  BY RestartProgram, Zenon
<1>7. \A x \in StepsIn(Contain) : x \in Marks => Rank(x) \in 50 .. 51
  BY ContainProgram, Zenon
<1>8. \A x \in StepsIn(SetReportOnly) : x \in Marks => Rank(x) \in 50 .. 52
  BY SetReportOnlyProgram, Zenon
<1>9. \A x \in StepsIn(SetEnforce) : x \in Marks => Rank(x) \in 52 .. 56
  BY SetEnforceProgram, Zenon
<1>10. \A x \in StepsIn(Uninstall) : x \in Marks => Rank(x) \in 24 .. 29
  BY UninstallProgram, Zenon
<1> QED
  BY <1>1, <1>2, <1>3, <1>4, <1>5, <1>6, <1>7, <1>8, <1>9, <1>10, Zenon

\* The programs that may follow a settled transaction, with their steps.
Followers == {Install, Restart, SetReportOnly, SetEnforce, Uninstall}

\* What the programs that follow a settled transaction have in common.
LEMMA FollowerSteps ==
    \A p \in Followers :
        /\ Ordered(p) /\ p # <<>> /\ Head(p) \in Firsts
        /\ "retire_tx" \notin StepsIn(p)
        /\ \A x \in StepsIn(p) : x \in Marks => Rank(x) \in 24 .. 56
<1>1. Ordered(Install) /\ Ordered(Restart) /\ Ordered(SetReportOnly) /\ Ordered(SetEnforce)
      /\ Ordered(Uninstall)
  BY InstallProgram, RestartProgram, SetReportOnlyProgram, SetEnforceProgram,
     UninstallProgram
<1>2. \A p \in Followers : p # <<>> /\ Head(p) \in Firsts
  BY InstallProgram, RestartProgram, SetReportOnlyProgram, SetEnforceProgram,
     UninstallProgram DEF Followers, Firsts
<1>3. \A p \in Followers : "retire_tx" \notin StepsIn(p)
  <2>1. "retire_tx" \notin StepsIn(Install)
    BY InstallProgram
  <2>2. "retire_tx" \notin StepsIn(Restart) /\ "retire_tx" \notin StepsIn(Uninstall)
    BY RestartProgram, UninstallProgram
  <2>3. /\ "retire_tx" \notin StepsIn(SetReportOnly)
        /\ "retire_tx" \notin StepsIn(SetEnforce)
    BY SetReportOnlyProgram, SetEnforceProgram
  <2> QED
    BY <2>1, <2>2, <2>3, Zenon DEF Followers
<1>4. \A p \in Followers, x \in Marks : x \in StepsIn(p) => Rank(x) \in 24 .. 56
  <2> TAKE p \in Followers, x \in Marks
  <2>1. CASE p \in {Install, Restart}
    BY <2>1, ProgramRanks
  <2>2. CASE p \in {SetReportOnly, SetEnforce, Uninstall}
    BY <2>2, ProgramRanks
  <2> QED
    BY <2>1, <2>2, Zenon DEF Followers
<1> QED
  BY <1>1, <1>2, <1>3, <1>4 DEF Followers

\* Settling a transaction ranks before any program that follows it.
LEMMA RankGap ==
    ASSUME NEW A, NEW B,
           \A x \in A : x \in Marks => Rank(x) \in 1 .. 22,
           \A x \in B : x \in Marks => Rank(x) \in 24 .. 56
    PROVE  \A x \in A, y \in B : x \in Marks /\ y \in Marks => Rank(x) < Rank(y)
  OBVIOUS

\* Begin: the settling of a transaction, and then the program of the command.
LEMMA SettledThenProgram ==
    ASSUME NEW p, p \in Followers \/ p = <<>>
    PROVE  /\ Ordered(Finalize \o p) /\ StepsIn(Finalize \o p) = StepsIn(Finalize) \cup StepsIn(p)
           /\ Ordered(Rollback \o p) /\ StepsIn(Rollback \o p) = StepsIn(Rollback) \cup StepsIn(p)
           /\ Ordered(<<"drop_backup">> \o p)
           /\ StepsIn(<<"drop_backup">> \o p) = {"drop_backup"} \cup StepsIn(p)
<1>1. /\ Ordered(p) /\ "retire_tx" \notin StepsIn(p)
      /\ p # <<>> => Head(p) \in Firsts
      /\ \A x \in StepsIn(p) : x \in Marks => Rank(x) \in 24 .. 56
  BY FollowerSteps, EmptyOrdered
<1>2. ASSUME NEW s, Ordered(s), s # <<>>, "preflight" \notin StepsIn(s), "remove_plist" \notin StepsIn(s),
             \A x \in StepsIn(s) : x \in Marks => Rank(x) \in 1 .. 22
      PROVE  Ordered(s \o p) /\ StepsIn(s \o p) = StepsIn(s) \cup StepsIn(p)
  <2>1. \A x \in StepsIn(s), y \in StepsIn(p) : x \in Marks /\ y \in Marks => Rank(x) < Rank(y)
    <3>1. \A x \in StepsIn(p) : x \in Marks => Rank(x) \in 24 .. 56
      BY <1>1
    <3>2. \A x \in StepsIn(s) : x \in Marks => Rank(x) \in 1 .. 22
      BY <1>2
    <3> QED
      BY <3>1, <3>2, RankGap, Zenon
  <2> QED
    BY <1>1, <1>2, <2>1, ConcatOrdered
<1>3. \A x \in StepsIn(Finalize) : x \in Marks => Rank(x) \in 1 .. 22
  BY ProgramRanks
<1>4. \A x \in StepsIn(Rollback) : x \in Marks => Rank(x) \in 1 .. 22
  BY ProgramRanks
<1>5. \A x \in StepsIn(<<"drop_backup">>) : x \in Marks => Rank(x) \in 1 .. 22
  BY DropBackupProgram
<1>6. /\ Ordered(Finalize) /\ Finalize # <<>> /\ "preflight" \notin StepsIn(Finalize)
      /\ Ordered(Rollback) /\ Rollback # <<>> /\ "preflight" \notin StepsIn(Rollback)
      /\ "remove_plist" \notin StepsIn(Finalize) /\ "remove_plist" \notin StepsIn(Rollback)
  BY FinalizeProgram, RollbackProgram
<1>7. /\ Ordered(<<"drop_backup">>) /\ <<"drop_backup">> # <<>>
      /\ "preflight" \notin StepsIn(<<"drop_backup">>)
      /\ "remove_plist" \notin StepsIn(<<"drop_backup">>)
      /\ StepsIn(<<"drop_backup">>) = {"drop_backup"}
  BY DropBackupProgram
<1>8. Ordered(Finalize \o p) /\ StepsIn(Finalize \o p) = StepsIn(Finalize) \cup StepsIn(p)
  BY <1>2, <1>3, <1>6, Zenon
<1>9. Ordered(Rollback \o p) /\ StepsIn(Rollback \o p) = StepsIn(Rollback) \cup StepsIn(p)
  BY <1>2, <1>4, <1>6, Zenon
<1>10. /\ Ordered(<<"drop_backup">> \o p)
       /\ StepsIn(<<"drop_backup">> \o p) = {"drop_backup"} \cup StepsIn(p)
  BY <1>2, <1>5, <1>7, Zenon
<1> QED
  BY <1>8, <1>9, <1>10, Zenon

\* What Begin gives a command to do, by the phase it finds.
LEMMA BegunSteps ==
    ASSUME NEW c \in Commands, tx.phase \in Phases \cup {"none"}
    PROVE  /\ Ordered(Begun(c))
           /\ tx.phase = "none" =>
                 \/ StepsIn(Begun(c)) \in {{}, StepsIn(Restart)}
                 \/ \E p \in {Install, SetReportOnly, SetEnforce, Uninstall} :
                       StepsIn(Begun(c)) = {"drop_backup"} \cup StepsIn(p)
           /\ tx.phase = "candidate_ready_report_only" =>
                 StepsIn(Begun(c)) \in {{}, StepsIn(Accept), StepsIn(Rollback), StepsIn(Restart)}
           /\ tx.phase = "accepted" =>
                 \/ StepsIn(Begun(c)) = StepsIn(Finalize)
                 \/ \E p \in Followers : StepsIn(Begun(c)) = StepsIn(Finalize) \cup StepsIn(p)
           /\ tx.phase \notin {"none", "candidate_ready_report_only", "accepted"} =>
                 \/ StepsIn(Begun(c)) = StepsIn(Rollback)
                 \/ \E p \in {Install, SetReportOnly, SetEnforce, Uninstall} :
                       StepsIn(Begun(c)) = StepsIn(Rollback) \cup StepsIn(p)
<1>1. /\ c \notin {"accept", "rollback"} => Program(c) \in Followers
      /\ c \notin {"accept", "rollback", "restart"} =>
            Program(c) \in {Install, SetReportOnly, SetEnforce, Uninstall}
      /\ c = "restart" => Program(c) = Restart
      /\ c = "accept" => Program(c) = Accept
      /\ c = "rollback" => Program(c) = Rollback
  BY DEF Commands, Program, Followers
<1>2. CASE tx.phase = "none"
  <2>1. Begun(c) = IF c \in {"accept", "rollback"} THEN <<>>
                   ELSE IF c = "restart" THEN Restart ELSE <<"drop_backup">> \o Program(c)
    BY <1>2 DEF Begun, Disposition
  <2> QED
    BY <1>1, <1>2, <2>1, EmptyOrdered, RestartProgram, SettledThenProgram
<1>3. CASE tx.phase = "candidate_ready_report_only"
  <2>1. Begun(c) = IF c \in {"accept", "rollback"} \/ c = "restart" THEN Program(c) ELSE <<>>
    BY <1>3 DEF Begun, Disposition
  <2> QED
    BY <1>1, <1>3, <2>1, EmptyOrdered, RestartProgram, AcceptProgram, RollbackProgram
<1>4. CASE tx.phase = "accepted"
  <2>1. Begun(c) = Finalize \o (IF c \in {"accept", "rollback"} THEN <<>> ELSE Program(c))
    BY <1>4 DEF Begun, Disposition
  <2>2. CASE c \in {"accept", "rollback"}
    <3>1. Begun(c) = Finalize \o <<>>
      BY <2>1, <2>2
    <3>2. Ordered(Finalize \o <<>>) /\ StepsIn(Finalize \o <<>>) = StepsIn(Finalize) \cup {}
      BY EmptyOrdered, SettledThenProgram, Zenon
    <3> QED
      BY <1>4, <3>1, <3>2
  <2>3. CASE c \notin {"accept", "rollback"}
    BY <1>1, <1>4, <2>1, <2>3, SettledThenProgram
  <2> QED
    BY <2>2, <2>3
<1>5. CASE tx.phase \notin {"none", "candidate_ready_report_only", "accepted"}
  <2>1. Begun(c) = Rollback \o (IF c \in {"accept", "rollback"} \/ c = "restart" THEN <<>>
                                ELSE Program(c))
    BY <1>5 DEF Begun, Disposition
  <2>2. CASE c \in {"accept", "rollback", "restart"}
    <3>1. Begun(c) = Rollback \o <<>>
      BY <2>1, <2>2
    <3>2. Ordered(Rollback \o <<>>) /\ StepsIn(Rollback \o <<>>) = StepsIn(Rollback) \cup {}
      BY EmptyOrdered, SettledThenProgram, Zenon
    <3> QED
      BY <1>5, <3>1, <3>2
  <2>3. CASE c \notin {"accept", "rollback", "restart"}
    BY <1>1, <1>5, <2>1, <2>3, SettledThenProgram
  <2> QED
    BY <2>2, <2>3
<1> QED
  BY <1>2, <1>3, <1>4, <1>5

\* The order of two adjacent steps of Stop and of Contain.
LEMMA NextStep ==
    ASSUME NEW s, Ordered(s), s # <<>>
    PROVE  /\ Head(s) = "contain" => Tail(s) # <<>> /\ Head(Tail(s)) = "await_contained"
           /\ Head(s) = "restart_prior" => Tail(s) # <<>> /\ Head(Tail(s)) = "await_ready"
           /\ Head(s) = "drain" => Tail(s) # <<>> /\ Head(Tail(s)) = "bootout"
           /\ Head(s) = "disarm" => Tail(s) # <<>> /\ Head(Tail(s)) = "drain"
           /\ Head(s) \in {"retire_tx", "drop_backup"} /\ Tail(s) # <<>> => Head(Tail(s)) \in Firsts
<1>1. /\ s \in Seq(Marks \cup Stopping) /\ Tail(s) \in Seq(Marks \cup Stopping)
      /\ Len(s) \in Nat /\ Len(s) >= 1 /\ Len(Tail(s)) = Len(s) - 1
      /\ Head(s) = s[1] /\ 1 \in 1 .. Len(s)
  BY DEF Ordered
<1>2. /\ Len(s) >= 2 <=> Tail(s) # <<>>
      /\ Tail(s) # <<>> => Head(Tail(s)) = s[2]
  BY <1>1
<1>3. /\ s[1] = "disarm" => 1 + 2 <= Len(s) /\ s[1 + 1] = "drain" /\ s[1 + 2] = "bootout"
      /\ s[1] = "drain" => 1 + 1 <= Len(s) /\ s[1 + 1] = "bootout"
      /\ s[1] = "restart_prior" => 1 + 1 <= Len(s) /\ s[1 + 1] = "await_ready"
      /\ s[1] = "contain" => 1 + 1 <= Len(s) /\ s[1 + 1] = "await_contained"
      /\ s[1] \in {"retire_tx", "drop_backup"} /\ 1 + 1 <= Len(s) => s[1 + 1] \in Firsts
  BY <1>1 DEF Ordered
<1>4. /\ s[1] = "disarm" => 2 <= Len(s) /\ s[2] = "drain"
      /\ s[1] = "drain" => 2 <= Len(s) /\ s[2] = "bootout"
      /\ s[1] = "restart_prior" => 2 <= Len(s) /\ s[2] = "await_ready"
      /\ s[1] = "contain" => 2 <= Len(s) /\ s[2] = "await_contained"
      /\ s[1] \in {"retire_tx", "drop_backup"} /\ 2 <= Len(s) => s[2] \in Firsts
  BY <1>1, <1>3
<1> QED
  BY <1>1, <1>2, <1>4

\* What h says of the set T of the steps after it.
After(h, T) ==
    \A x \in T :
        /\ h \in Marks /\ x \in Marks => Rank(h) < Rank(x)
        /\ h = "preflight" => x \in {"publish_enforce", "arm", "arm_answer"}
        /\ h = "remove_plist" => x \in {"remove_manifest", "remove_generations"}
        /\ x = "retire_tx" => h \in {"accept_begin", "accept_commit", "retire_backup"}

\* Taking the first step off leaves the steps that may come after it.
LEMMA TailAfter ==
    ASSUME NEW s, Ordered(s), s # <<>>
    PROVE  /\ StepsIn(s) = {Head(s)} \cup StepsIn(Tail(s))
           /\ After(Head(s), StepsIn(Tail(s)))
           /\ Ordered(Tail(s))
  BY TailOrdered, Zenon DEF After

\* What a failed containment or arming can still have after it.
LEMMA AfterContainment ==
    ASSUME NEW T, NEW h, After(h, T),
           h \in {"arm", "arm_answer", "contain", "await_contained", "disarm_unexpected"}
    PROVE  /\ h \notin T /\ "candidate_ready" \notin T /\ "contain" \notin T
           /\ "retire_tx" \notin T
           /\ h = "contain" \/ "await_contained" \notin T
           /\ h # "contain" => \A x \in T : x \in Marks => Rank(x) \in 52 .. 56
<1>1. h \in Marks /\ Rank(h) \in 50 .. 56 /\ (h = "contain" \/ Rank(h) \in 51 .. 56)
  BY Ranks, MarkNames
<1>2. \A x \in T : x \in Marks => Rank(h) < Rank(x)
  BY <1>1 DEF After
<1>3. h \notin T /\ "candidate_ready" \notin T /\ "contain" \notin T
  BY <1>1, <1>2, Ranks, MarkNames
<1>4. h = "contain" \/ "await_contained" \notin T
  BY <1>1, <1>2, Ranks, MarkNames
<1>5. h # "contain" => \A x \in T : x \in Marks => Rank(x) \in 52 .. 56
  BY <1>1, <1>2, MarkRanks
<1> QED
  BY <1>3, <1>4, <1>5 DEF After

\* Containment ranks before the rest of set-mode.
LEMMA RankGapContain ==
    ASSUME NEW A, NEW B,
           \A x \in A : x \in Marks => Rank(x) \in 42 .. 51,
           \A x \in B : x \in Marks => Rank(x) \in 52 .. 56
    PROVE  \A x \in A, y \in B : x \in Marks /\ y \in Marks => Rank(x) < Rank(y)
  OBVIOUS

\* The error path puts a containment before the rest of set-mode.
LEMMA ContainmentFirst ==
    ASSUME NEW p, p = Emergency \/ p = Contain, NEW s, Ordered(s), s # <<>>,
           Head(s) \in {"await_contained", "disarm_unexpected"}
    PROVE  Ordered(p \o Tail(s)) /\ StepsIn(p \o Tail(s)) = StepsIn(p) \cup StepsIn(Tail(s))
<1>1. /\ Ordered(p) /\ p # <<>> /\ "preflight" \notin StepsIn(p)
      /\ "remove_plist" \notin StepsIn(p)
      /\ p[Len(p)] \notin {"retire_tx", "drop_backup"}
  <2>1. CASE p = Emergency
    BY <2>1, EmergencyProgram
  <2>2. CASE p = Contain
    BY <2>2, ContainProgram
  <2> QED
    BY <2>1, <2>2
<1>2. \A x \in StepsIn(p) : x \in Marks => Rank(x) \in 42 .. 51
  BY ProgramRanks
<1>3. /\ Ordered(Tail(s)) /\ "retire_tx" \notin StepsIn(Tail(s))
      /\ \A x \in StepsIn(Tail(s)) : x \in Marks => Rank(x) \in 52 .. 56
  BY TailAfter, AfterContainment
<1>4. \A x \in StepsIn(p), y \in StepsIn(Tail(s)) : x \in Marks /\ y \in Marks => Rank(x) < Rank(y)
  BY <1>2, <1>3, RankGapContain, Zenon
<1> QED
  BY <1>1, <1>3, <1>4, ConcatOrdered

\* The steps that each error path of OnFailure leaves.
LEMMA FailureSteps ==
    ASSUME OrderInv, cli.todo # <<>>
    PROVE  /\ Ordered(OnFailure)
           /\ \/ /\ InInstall \/ Head(cli.todo) = "accept_commit"
                 /\ StepsIn(OnFailure) = StepsIn(Rollback)
              \/ /\ Head(cli.todo) \in {"arm", "arm_answer"}
                 /\ StepsIn(OnFailure) = StepsIn(SetReportOnly)
              \/ /\ ~InInstall
                 /\ Head(cli.todo) \in {"contain", "await_contained"}
                 /\ StepsIn(OnFailure) =
                       StepsIn(Emergency) \cup (Todo \ {"contain", "await_contained"})
              \/ /\ ~InInstall
                 /\ Head(cli.todo) = "disarm_unexpected"
                 /\ StepsIn(OnFailure) = StepsIn(Contain) \cup (Todo \ {"disarm_unexpected"})
              \/ ~InInstall /\ Head(cli.todo) # "accept_commit" /\ OnFailure = <<>>
<1> DEFINE h == Head(cli.todo)
           s == cli.todo
<1>1. /\ Ordered(s) /\ Todo = StepsIn(s)
      /\ Todo = {h} \cup StepsIn(Tail(s)) /\ Ordered(Tail(s))
      /\ After(h, StepsIn(Tail(s)))
  BY TailAfter DEF OrderInv, Todo, StepsIn
<1>2. OnFailure = CASE InInstall \/ h = "accept_commit" -> Rollback
          [] h \in {"arm", "arm_answer"} -> SetReportOnly
          [] h = "contain" -> Emergency \o Tail(Tail(s))
          [] h = "await_contained" -> Emergency \o Tail(s)
          [] h = "disarm_unexpected" /\ daemon.state = "enforce"
                                       /\ manifest.mode = "report_only" -> Contain \o Tail(s)
          [] OTHER -> <<>>
  BY DEF OnFailure
<1>i. h \in {"arm", "arm_answer", "contain", "await_contained", "disarm_unexpected",
             "accept_commit"} /\ InInstall => h = "accept_commit"
  BY <1>1, AfterContainment DEF InInstall
<1>3. CASE InInstall \/ h = "accept_commit"
  <2>1. OnFailure = Rollback
    BY <1>3, <1>i DEF OnFailure
  <2> QED
    BY <1>3, <2>1, RollbackProgram
<1>4. CASE ~InInstall /\ h \in {"arm", "arm_answer"}
  <2>1. OnFailure = SetReportOnly
    BY <1>4 DEF OnFailure
  <2> QED
    BY <1>4, <2>1, SetReportOnlyProgram
<1>5. CASE ~InInstall /\ h = "contain"
  <2>1. OnFailure = Emergency \o Tail(Tail(s))
    BY <1>5 DEF OnFailure
  <2> DEFINE t == Tail(s)
  <2>2. Ordered(t) /\ t # <<>> /\ Head(t) = "await_contained"
    BY <1>1, <1>5, NextStep
  <2>3. /\ StepsIn(t) = {"await_contained"} \cup StepsIn(Tail(t))
        /\ After("await_contained", StepsIn(Tail(t)))
    BY <2>2, TailAfter
  <2>4. "contain" \notin StepsIn(Tail(t)) /\ "await_contained" \notin StepsIn(Tail(t))
    BY <2>3, AfterContainment
  <2>5. StepsIn(Tail(t)) = Todo \ {"contain", "await_contained"}
    BY <1>1, <1>5, <2>3, <2>4
  <2>6. /\ Ordered(Emergency \o Tail(t))
        /\ StepsIn(Emergency \o Tail(t)) = StepsIn(Emergency) \cup StepsIn(Tail(t))
    BY <2>2, ContainmentFirst
  <2> QED
    BY <1>5, <2>1, <2>5, <2>6
<1>6. CASE ~InInstall /\ h = "await_contained"
  <2>1. OnFailure = Emergency \o Tail(s)
    BY <1>6 DEF OnFailure
  <2>3. "contain" \notin StepsIn(Tail(s)) /\ "await_contained" \notin StepsIn(Tail(s))
    BY <1>1, <1>6, AfterContainment
  <2>4. StepsIn(Tail(s)) = Todo \ {"contain", "await_contained"}
    BY <1>1, <1>6, <2>3
  <2>5. /\ Ordered(Emergency \o Tail(s))
        /\ StepsIn(Emergency \o Tail(s)) = StepsIn(Emergency) \cup StepsIn(Tail(s))
    BY <1>1, <1>6, ContainmentFirst
  <2> QED
    BY <1>6, <2>1, <2>4, <2>5
<1>7. CASE ~InInstall /\ h = "disarm_unexpected"
  <2>1. OnFailure = Contain \o Tail(s) \/ OnFailure = <<>>
    BY <1>7 DEF OnFailure
  <2>3. "disarm_unexpected" \notin StepsIn(Tail(s))
    BY <1>1, <1>7, AfterContainment
  <2>4. StepsIn(Tail(s)) = Todo \ {"disarm_unexpected"}
    BY <1>1, <1>7, <2>3
  <2>5. /\ Ordered(Contain \o Tail(s))
        /\ StepsIn(Contain \o Tail(s)) = StepsIn(Contain) \cup StepsIn(Tail(s))
    BY <1>1, <1>7, ContainmentFirst
  <2> QED
    BY <1>7, <2>1, <2>4, <2>5, EmptyOrdered
<1>8. CASE ~InInstall /\ h \notin {"accept_commit", "arm", "arm_answer", "contain",
                                   "await_contained", "disarm_unexpected"}
  <2>1. OnFailure = <<>>
    BY <1>8 DEF OnFailure
  <2> QED
    BY <1>8, <2>1, EmptyOrdered
<1> QED
  BY <1>3, <1>4, <1>5, <1>6, <1>7, <1>8

-----------------------------------------------------------------------------
(* One step of a command *)

\* The step h is gone, and what is left comes after it.
Pops(h) == /\ h \in Todo /\ Todo = {h} \cup Todo'
           /\ After(h, Todo')

\* Todo is the set of the steps that are left.
LEMMA TodoSteps == Todo = StepsIn(cli.todo) /\ Todo' = StepsIn(cli'.todo)
  BY DEF Todo, StepsIn

\* A step that succeeds is taken off the front.
LEMMA Advances ==
    ASSUME OrderInv, NEW h, cli.todo # <<>>, Head(cli.todo) = h,
           cli'.todo = Tail(cli.todo)
    PROVE  OrderInv' /\ Pops(h)
<1>1. /\ Ordered(cli'.todo)
      /\ StepsIn(cli.todo) = {h} \cup StepsIn(cli'.todo)
      /\ After(h, StepsIn(cli'.todo))
  BY TailAfter DEF OrderInv
<1> QED
  BY <1>1, TodoSteps DEF OrderInv, Pops

\* No program but uninstall removes the generations.
LEMMA FirstsAfter ==
    ASSUME NEW h \in Firsts, h # "disarm", NEW T, After(h, T)
    PROVE  "remove_generations" \notin {h} \cup T
<1>1. h \in Marks /\ Rank(h) \in 30 .. 56
  BY Ranks, MarkNames DEF Firsts
<1>2. "remove_generations" \in Marks /\ Rank("remove_generations") = 29
  BY Ranks, MarkNames
<1> QED
  BY <1>1, <1>2 DEF After

\* An uninstall after a settled transaction begins with a stop.
LEMMA StopsFirst ==
    ASSUME OrderInv, cli.todo # <<>>, Head(cli.todo) \in {"retire_tx", "drop_backup"},
           cli'.todo = Tail(cli.todo)
    PROVE  "remove_generations" \in Todo' => "bootout" \in Todo'
<1> DEFINE t == Tail(cli.todo)
<1>1. Ordered(t) /\ (t # <<>> => Head(t) \in Firsts) /\ Todo' = StepsIn(t)
  BY TailAfter, NextStep, TodoSteps DEF OrderInv
<1>2. CASE t = <<>>
  BY <1>1, <1>2, EmptyOrdered
<1>3. CASE t # <<>> /\ Head(t) = "disarm"
  <2> DEFINE u == Tail(t)
             w == Tail(u)
  <2>1. StepsIn(t) = {"disarm"} \cup StepsIn(u) /\ Ordered(u) /\ u # <<>> /\ Head(u) = "drain"
    BY <1>1, <1>3, TailAfter, NextStep
  <2>2. StepsIn(u) = {"drain"} \cup StepsIn(w) /\ Ordered(w) /\ w # <<>> /\ Head(w) = "bootout"
    BY <2>1, TailAfter, NextStep
  <2>3. StepsIn(w) = {"bootout"} \cup StepsIn(Tail(w))
    BY <2>2, TailAfter
  <2> QED
    BY <1>1, <2>1, <2>2, <2>3
<1>4. CASE t # <<>> /\ Head(t) # "disarm"
  <2> DEFINE T == StepsIn(Tail(t))
             h == Head(t)
  <2>1. StepsIn(t) = {h} \cup T /\ After(h, T) /\ h \in Firsts \ {"disarm"}
    BY <1>1, <1>4, TailAfter
  <2> HIDE DEF T, h
  <2>2. "remove_generations" \notin {h} \cup T
    BY <2>1, FirstsAfter
  <2> QED
    BY <1>1, <2>1, <2>2
<1> QED
  BY <1>2, <1>3, <1>4

\* Disarm may skip the rest of Stop, RestartPrior the wait.
LEMMA Skips ==
    ASSUME OrderInv, cli.todo # <<>>
    PROVE  /\ Head(cli.todo) = "disarm" /\ cli'.todo = Tail(Tail(cli.todo)) =>
                 /\ OrderInv' /\ Todo = {"disarm", "drain"} \cup Todo'
                 /\ "bootout" \in Todo'
           /\ Head(cli.todo) = "disarm" /\ cli'.todo = Tail(Tail(Tail(cli.todo))) =>
                 OrderInv' /\ Todo = {"disarm", "drain", "bootout"} \cup Todo'
           /\ Head(cli.todo) = "restart_prior" /\ cli'.todo = Tail(Tail(cli.todo)) =>
                 /\ OrderInv' /\ Todo = {"restart_prior", "await_ready"} \cup Todo'
                 /\ After("restart_prior", Todo')
<1> DEFINE s == cli.todo
           t == Tail(s)
           u == Tail(t)
           w == Tail(u)
<1>1. Ordered(s) /\ s # <<>> /\ Ordered(t) /\ StepsIn(s) = {Head(s)} \cup StepsIn(t)
      /\ After(Head(s), StepsIn(t))
  BY TailAfter DEF OrderInv
<1>2. CASE Head(s) = "disarm"
  <2>1. t # <<>> /\ Head(t) = "drain" /\ StepsIn(t) = {"drain"} \cup StepsIn(u) /\ Ordered(u)
    BY <1>1, <1>2, TailAfter, NextStep
  <2> HIDE DEF t, s
  <2>a. u # <<>> /\ Head(u) = "bootout"
    BY <1>1, <2>1, NextStep
  <2> HIDE DEF u
  <2>2. /\ u # <<>> /\ Head(u) = "bootout" /\ StepsIn(u) = {"bootout"} \cup StepsIn(w)
        /\ Ordered(w)
    BY <2>1, <2>a, TailAfter
  <2> HIDE DEF w
  <2>3. cli'.todo = u => OrderInv' /\ Todo = {"disarm", "drain"} \cup Todo' /\ "bootout" \in Todo'
    BY <1>1, <1>2, <2>1, <2>2, TodoSteps DEF OrderInv, s
  <2>4. cli'.todo = w => OrderInv' /\ Todo = {"disarm", "drain", "bootout"} \cup Todo'
    BY <1>1, <1>2, <2>1, <2>2, TodoSteps DEF OrderInv, s
  <2> QED
    BY <1>2, <2>3, <2>4 DEF w, u, t, s
<1>3. CASE Head(s) = "restart_prior"
  <2>1. /\ t # <<>> /\ Head(t) = "await_ready" /\ StepsIn(t) = {"await_ready"} \cup StepsIn(u)
        /\ Ordered(u)
    BY <1>1, <1>3, TailAfter, NextStep
  <2> HIDE DEF w, u, t, s
  <2>2. /\ StepsIn(s) = {"restart_prior", "await_ready"} \cup StepsIn(u)
        /\ After("restart_prior", StepsIn(u))
    BY <1>1, <1>3, <2>1 DEF After
  <2>3. cli'.todo = u => /\ OrderInv' /\ Todo = {"restart_prior", "await_ready"} \cup Todo'
                         /\ After("restart_prior", Todo')
    BY <2>1, <2>2, TodoSteps DEF OrderInv, s
  <2> QED
    BY <1>3, <2>3 DEF w, u, t, s
<1> QED
  BY <1>2, <1>3

\* The condition of each step on its own.
LEMMA AbleIs ==
    /\ Able("mark") <=> RollbackValid
    /\ Able("disarm") <=>
          /\ InRollback => /\ InScope(plist) /\ InScope(manifest.gen)
                           /\ daemon.gen \in {0, plist}
          /\ job = 0 \/ BlindStop \/ (IpcUp /\ (InInstall => cli.exact))
    /\ Able("drain") <=> cli.exact
    /\ \A h \in {"evict", "restore", "back_up", "bootstrap", "restart_prior"} :
          Able(h) <=> job = 0
    /\ Able("prepare") <=> /\ installs < MaxInstalls
                           /\ plist = manifest.gen /\ (cli.loaded => plist # 0)
    /\ \A h \in {"accept_begin", "accept_commit"} : Able(h) <=> AcceptanceState
    /\ Able("contain") <=> IpcUp /\ daemon.gen = manifest.gen
    /\ Able("emergency_stop") <=> Selected(manifest.gen) /\ daemon.gen \in {0, manifest.gen}
    /\ Able("clear_request") <=> Selected(manifest.gen) /\ job = 0 /\ db.gen = manifest.gen
    /\ Able("disarm_unexpected") <=> IpcUp /\ daemon.gen = manifest.gen
    /\ Able("preflight") <=> RuntimeReady(manifest.gen)
    /\ Able("arm") <=> cli.exact /\ daemon.state = "ready"
  BY DEF Able

-----------------------------------------------------------------------------
(* The state *)

\* The types of the fields.
LEMMA Fields ==
    ASSUME StateTypes
    PROVE  /\ MaxInstalls \in Nat /\ installs \in 0 .. MaxInstalls
           /\ plist \in 0 .. MaxInstalls /\ job \in 0 .. MaxInstalls
           /\ tx.cand \in 0 .. MaxInstalls /\ tx.prior \in 0 .. MaxInstalls
           /\ tx.phase \in Phases \cup {"none"}
           /\ tx.loaded \in BOOLEAN /\ tx.backedUp \in BOOLEAN /\ tx.restore \in BOOLEAN
           /\ manifest.gen \in 0 .. MaxInstalls /\ manifest.mode \in {"report_only", "enforce"}
           /\ db.by \in 0 .. MaxInstalls /\ db.gen \in 0 .. MaxInstalls /\ db.carry \in BOOLEAN
           /\ backup.by \in 0 .. MaxInstalls /\ backup.gen \in 0 .. MaxInstalls
           /\ backup.carry \in BOOLEAN
           /\ daemon.gen \in 0 .. MaxInstalls /\ daemon.pending \in BOOLEAN
           /\ \A g \in Generations : dirs[g] \in 0 .. MaxInstalls
           /\ cli.exact \in BOOLEAN /\ unclaimed \in BOOLEAN
  BY TransactionAssumption DEF StateTypes

\* The types of the absent file, history and daemon.
LEMMA NothingTypes ==
    /\ NoTx \in [phase : Phases \cup {"none"}, cand : 0 .. MaxInstalls,
                 prior : 0 .. MaxInstalls, loaded : BOOLEAN,
                 backedUp : BOOLEAN, restore : BOOLEAN]
    /\ NoManifest \in [gen : 0 .. MaxInstalls, mode : {"report_only", "enforce"}]
    /\ NoDb \in [by : 0 .. MaxInstalls, gen : 0 .. MaxInstalls, carry : BOOLEAN]
    /\ NoDaemon \in [gen : 0 .. MaxInstalls, pending : BOOLEAN,
                     state : {"none", "recovering", "first_scan", "ready", "enforce",
                              "failed", "draining"}]
  BY TransactionAssumption DEF NoTx, NoManifest, NoDb, NoDaemon

\* The fields of the absent file, history and daemon.
LEMMA NothingFields ==
    /\ NoTx.phase = "none" /\ NoTx.cand = 0 /\ NoTx.prior = 0
    /\ NoTx.loaded = FALSE /\ NoTx.backedUp = FALSE /\ NoTx.restore = FALSE
    /\ NoManifest.gen = 0 /\ NoManifest.mode = "report_only"
    /\ NoDb.by = 0 /\ NoDb.gen = 0 /\ NoDb.carry = FALSE
    /\ NoDaemon.gen = 0 /\ NoDaemon.state = "none" /\ NoDaemon.pending = FALSE
  BY DEF NoTx, NoManifest, NoDb, NoDaemon

\* A set of naturals that is not empty has a least member.
LEMMA LeastNatural ==
    ASSUME NEW T, T \subseteq Nat, T # {}
    PROVE  \E x \in T : \A y \in T : x <= y
<1> DEFINE R == OpToRel(<, Nat)
<1>1. IsWellFoundedOn(R, Nat)
  BY NatLessThanWellFounded
<1>2. PICK x \in T : \A y \in T : ~(<<y, x>> \in R)
  <2> HIDE DEF R
  <2> QED
    BY <1>1, WFMin
<1>3. ASSUME NEW y \in T PROVE x <= y
  <2>1. x \in Nat /\ y \in Nat
    OBVIOUS
  <2>2. <<y, x>> \notin R /\ <<y, x>> \in Nat \X Nat
    BY <1>2, <2>1
  <2>3. ~(y < x)
    BY <2>2 DEF OpToRel
  <2> QED
    BY <2>1, <2>3
<1> QED
  BY <1>3

\* The generation an install takes is one that has no directory.
LEMMA FreshGeneration ==
    ASSUME StateTypes, OpenInv, installs < MaxInstalls
    PROVE  /\ NextGeneration \in 1 .. installs + 1
           /\ dirs[NextGeneration] = 0
<1> DEFINE Bound(m) == \A g \in Generations : dirs[g] # 0 => g <= m
           U == {m \in 0 .. MaxInstalls : Bound(m)}
           top == CHOOSE m \in 0 .. MaxInstalls : /\ m # 0 => dirs[m] # 0
                                                  /\ Bound(m)
<1>1. U \subseteq Nat /\ MaxInstalls \in U
  BY Fields DEF Generations
<1>2. PICK m \in U : \A n \in U : m <= n
  <2> HIDE DEF U
  <2> QED
    BY <1>1, LeastNatural
<1>3. m # 0 => dirs[m] # 0
  <2> SUFFICES ASSUME m # 0, dirs[m] = 0 PROVE FALSE
    OBVIOUS
  <2>1. m \in Nat /\ m - 1 \in 0 .. MaxInstalls /\ MaxInstalls \in Nat
    BY Fields
  <2>2. Bound(m - 1)
    <3> SUFFICES ASSUME NEW g \in Generations, dirs[g] # 0 PROVE g <= m - 1
      OBVIOUS
    <3>1. g <= m /\ g # m /\ g \in Nat
      BY DEF Generations
    <3> QED
      BY <2>1, <3>1
  <2>3. m - 1 \in U
    BY <2>1, <2>2
  <2>4. m <= m - 1
    BY <1>2, <2>3
  <2> QED
    BY <2>1, <2>4
<1>4. top \in 0 .. MaxInstalls /\ (top # 0 => dirs[top] # 0) /\ Bound(top)
  <2>1. \E k \in 0 .. MaxInstalls : (k # 0 => dirs[k] # 0) /\ Bound(k)
    BY <1>3
  <2> HIDE DEF Bound
  <2> QED
    BY <2>1
<1>5. NextGeneration = 1 + top
  BY DEF NextGeneration
<1> HIDE DEF top
<1>6. top \in Nat /\ top <= installs /\ installs \in Nat /\ MaxInstalls \in Nat
  BY <1>4, Fields DEF OpenInv, Generations
<1>7. NextGeneration \in Generations /\ NextGeneration > top
  BY <1>5, <1>6 DEF Generations
<1>8. dirs[NextGeneration] = 0
  BY <1>4, <1>6, <1>7 DEF Generations
<1> QED
  BY <1>5, <1>6, <1>8

\* Drain keeps the invariant.
LEMMA DrainKeeps ==
    ASSUME ServiceInv, Drain
    PROVE  ServiceInv'
<1>1. /\ cli.todo # <<>> /\ Head(cli.todo) = "drain" /\ cli'.todo = Tail(cli.todo)
      /\ cli' = [todo |-> cli'.todo, loaded |-> cli'.loaded, exact |-> cli'.exact]
      /\ cli'.loaded \in BOOLEAN /\ cli'.exact \in BOOLEAN
  BY DEF Drain, Advance, Do, ServiceInv, StateTypes
<1>2. /\ cli'.exact = cli.exact /\ cli.exact
      /\ db' = [db EXCEPT !.carry = FALSE]
      /\ daemon' = [daemon EXCEPT !.state = "draining", !.pending = FALSE]
      /\ db'.by = db.by /\ db'.gen = db.gen /\ db'.carry = FALSE
      /\ daemon'.gen = daemon.gen /\ daemon'.state = "draining"
      /\ daemon'.pending = FALSE
      /\ UNCHANGED <<tx, plist, manifest, backup, dirs, job, installs, faults, unclaimed>>
  BY AbleIs DEF Drain, Advance, Do, durable, ServiceInv, StateTypes
<1>3. OrderInv' /\ Pops("drain")
  BY <1>1, Advances DEF ServiceInv
<1>4. Todo = {"drain"} \cup Todo'
  BY <1>3 DEF Pops
<1>6. StateTypes'
  <2>1. db' \in [by : 0 .. MaxInstalls, gen : 0 .. MaxInstalls, carry : BOOLEAN]
    BY <1>2, Fields, NothingTypes, TransactionAssumption DEF ServiceInv, StateTypes, Phases
  <2>2. daemon' \in [gen : 0 .. MaxInstalls, pending : BOOLEAN,
                   state : {"none", "recovering", "first_scan", "ready", "enforce",
                            "failed", "draining"}]
    BY <1>2, Fields, NothingTypes, TransactionAssumption DEF ServiceInv, StateTypes, Phases
  <2> QED
    BY <1>1, <1>2, <2>1, <2>2 DEF ServiceInv, StateTypes
<1>7. CloseInv'
  BY <1>2, <1>4 DEF ServiceInv, CloseInv
<1>8. PhaseInv'
  BY <1>2, <1>4 DEF ServiceInv, PhaseInv, CloseInv
<1>9. PlaceInv'
  BY <1>2, <1>4 DEF ServiceInv, PlaceInv, RollbackFloor, CloseInv
<1>10. RuntimeInv'
  BY <1>2, <1>4, Fields, NothingFields DEF ServiceInv, CloseInv, RuntimeInv, PlaceInv
<1>11. TxInv'
  BY <1>2, <1>4, Fields, NothingFields DEF ServiceInv, CloseInv, PhaseInv, PlaceInv, TxInv,
     BackupMatches, Selected, Settled
<1>12. OpenInv'
  BY <1>2, <1>4, Fields, NothingFields DEF ServiceInv, CloseInv, PhaseInv, PlaceInv, TxInv,
     OpenInv, RuntimeInv, Settled
<1>13. RequestInv'
  BY <1>2, <1>4, Fields, NothingFields DEF ServiceInv, CloseInv, PlaceInv, RuntimeInv,
     RequestInv, Desired, Quiet
<1> QED
  BY <1>3, <1>6, <1>7, <1>8, <1>9, <1>10, <1>11, <1>12, <1>13 DEF ServiceInv

\* Bootout keeps the invariant.
LEMMA BootoutKeeps ==
    ASSUME ServiceInv, Bootout
    PROVE  ServiceInv'
<1>1. /\ cli.todo # <<>> /\ Head(cli.todo) = "bootout" /\ cli'.todo = Tail(cli.todo)
      /\ cli' = [todo |-> cli'.todo, loaded |-> cli'.loaded, exact |-> cli'.exact]
      /\ cli'.loaded \in BOOLEAN /\ cli'.exact \in BOOLEAN
  BY DEF Bootout, Unload, Terminated, Do, ServiceInv, StateTypes
<1>2. /\ cli'.exact = FALSE
      /\ db' = [db EXCEPT !.carry = db.carry \/ daemon.pending]
      /\ job' = 0
      /\ daemon' = NoDaemon
      /\ unclaimed' = (unclaimed \/ HoldsRequest)
      /\ db'.by = db.by /\ db'.gen = db.gen
      /\ db'.carry = (db.carry \/ daemon.pending)
      /\ UNCHANGED <<tx, plist, manifest, backup, dirs, installs, faults>>
  BY AbleIs DEF Bootout, Unload, Terminated, Do, durable, ServiceInv, StateTypes, NoDaemon
<1>3. OrderInv' /\ Pops("bootout")
  BY <1>1, Advances DEF ServiceInv
<1>4. Todo = {"bootout"} \cup Todo'
  BY <1>3 DEF Pops
<1>5. job = 0 => db' = db
  <2> SUFFICES ASSUME job = 0 PROVE db' = db
    OBVIOUS
  <2>1. daemon.pending = FALSE /\ db.carry \in BOOLEAN
    BY Fields, NothingFields DEF ServiceInv, RuntimeInv
  <2>2. (db.carry \/ daemon.pending) = db.carry
    BY <2>1
  <2> QED
    BY <1>2, <2>2 DEF ServiceInv, StateTypes
<1>6. StateTypes'
  <2>1. db' \in [by : 0 .. MaxInstalls, gen : 0 .. MaxInstalls, carry : BOOLEAN]
    BY <1>2, <1>5, Fields, NothingTypes, TransactionAssumption DEF ServiceInv, StateTypes,
       Phases
  <2>2. job' \in 0 .. MaxInstalls
    BY <1>2, <1>5, Fields, NothingTypes, TransactionAssumption DEF ServiceInv, StateTypes,
       Phases
  <2>3. daemon' \in [gen : 0 .. MaxInstalls, pending : BOOLEAN,
                   state : {"none", "recovering", "first_scan", "ready", "enforce",
                            "failed", "draining"}]
    BY <1>2, <1>5, Fields, NothingTypes, TransactionAssumption DEF ServiceInv, StateTypes,
       Phases
  <2>4. unclaimed' \in BOOLEAN
    BY <1>2, <1>5, Fields, NothingTypes, TransactionAssumption DEF ServiceInv, StateTypes,
       Phases
  <2> QED
    BY <1>1, <1>2, <2>1, <2>2, <2>3, <2>4 DEF ServiceInv, StateTypes
<1>7. CloseInv'
  BY <1>2, <1>4, <1>5 DEF ServiceInv, CloseInv
<1>8. PhaseInv'
  BY <1>2, <1>4, <1>5 DEF ServiceInv, PhaseInv, CloseInv
<1>9. PlaceInv'
  BY <1>2, <1>4, <1>5, Fields, NothingFields DEF ServiceInv, CloseInv, PhaseInv, PlaceInv,
     RollbackFloor
<1>10. RuntimeInv'
  BY <1>2, <1>4, <1>5, Fields, NothingFields DEF ServiceInv, CloseInv, RuntimeInv, PlaceInv
<1>11. TxInv'
  BY <1>2, <1>4, <1>5, Fields, NothingFields DEF ServiceInv, CloseInv, PhaseInv, PlaceInv,
     TxInv, BackupMatches, Selected, Settled
<1>12. OpenInv'
  BY <1>2, <1>4, <1>5, Fields, NothingFields DEF ServiceInv, CloseInv, PhaseInv, PlaceInv,
     TxInv, OpenInv, RuntimeInv, Settled
<1>13. RequestInv'
  BY <1>2, <1>4, <1>5, Fields, NothingFields DEF ServiceInv, CloseInv, PlaceInv, RuntimeInv,
     RequestInv, Desired, Quiet, HoldsRequest
<1> QED
  BY <1>3, <1>6, <1>7, <1>8, <1>9, <1>10, <1>11, <1>12, <1>13 DEF ServiceInv

\* EmergencyStop keeps the invariant.
LEMMA EmergencyStopKeeps ==
    ASSUME ServiceInv, EmergencyStop
    PROVE  ServiceInv'
<1>1. /\ cli.todo # <<>> /\ Head(cli.todo) = "emergency_stop" /\ cli'.todo = Tail(cli.todo)
      /\ cli' = [todo |-> cli'.todo, loaded |-> cli'.loaded, exact |-> cli'.exact]
      /\ cli'.loaded \in BOOLEAN /\ cli'.exact \in BOOLEAN
  BY DEF EmergencyStop, Unload, Terminated, Do, ServiceInv, StateTypes
<1>2. /\ cli'.exact = FALSE
      /\ db' = [db EXCEPT !.carry = db.carry \/ daemon.pending]
      /\ job' = 0
      /\ daemon' = NoDaemon
      /\ unclaimed' = (unclaimed \/ HoldsRequest)
      /\ db'.by = db.by /\ db'.gen = db.gen
      /\ db'.carry = (db.carry \/ daemon.pending)
      /\ UNCHANGED <<tx, plist, manifest, backup, dirs, installs, faults>>
  BY AbleIs DEF EmergencyStop, Unload, Terminated, Do, durable, ServiceInv, StateTypes,
     NoDaemon
<1>3. OrderInv' /\ Pops("emergency_stop")
  BY <1>1, Advances DEF ServiceInv
<1>4. /\ Todo = {"emergency_stop"} \cup Todo' /\ "survey" \notin Todo'
      /\ "publish_generation" \notin Todo' /\ "select_plist" \notin Todo'
      /\ "select_manifest" \notin Todo' /\ "emergency_stop" \notin Todo'
      /\ "drop_tx" \notin Todo' /\ "drop_backup" \notin Todo' /\ "mark" \notin Todo'
      /\ "accept_begin" \notin Todo' /\ "accept_commit" \notin Todo'
      /\ "retire_backup" \notin Todo' /\ "prepare" \notin Todo'
      /\ "remove_generations" \notin Todo' /\ "candidate_durable" \notin Todo'
      /\ "prior_drained" \notin Todo' /\ "database_backed_up" \notin Todo'
      /\ "restart_prior" \notin Todo' /\ "evict" \notin Todo'
      /\ "back_up" \notin Todo' /\ "restore_plist" \notin Todo'
      /\ "restore_manifest" \notin Todo' /\ "remove_plist" \notin Todo'
      /\ "remove_manifest" \notin Todo' /\ "restore" \notin Todo'
      /\ "retire_tx" \notin Todo'
  BY <1>3, Ranks, MarkNames DEF Pops, After
<1>6. StateTypes'
  <2>1. db' \in [by : 0 .. MaxInstalls, gen : 0 .. MaxInstalls, carry : BOOLEAN]
    BY <1>2, Fields, NothingTypes, TransactionAssumption DEF ServiceInv, StateTypes, Phases
  <2>2. job' \in 0 .. MaxInstalls
    BY <1>2, Fields, NothingTypes, TransactionAssumption DEF ServiceInv, StateTypes, Phases
  <2>3. daemon' \in [gen : 0 .. MaxInstalls, pending : BOOLEAN,
                   state : {"none", "recovering", "first_scan", "ready", "enforce",
                            "failed", "draining"}]
    BY <1>2, Fields, NothingTypes, TransactionAssumption DEF ServiceInv, StateTypes, Phases
  <2>4. unclaimed' \in BOOLEAN
    BY <1>2, Fields, NothingTypes, TransactionAssumption DEF ServiceInv, StateTypes, Phases
  <2> QED
    BY <1>1, <1>2, <2>1, <2>2, <2>3, <2>4 DEF ServiceInv, StateTypes
<1>7. CloseInv'
  BY <1>2, <1>4 DEF ServiceInv, CloseInv
<1>8. PhaseInv'
  BY <1>2, <1>4 DEF ServiceInv, PhaseInv, CloseInv
<1>9. PlaceInv'
  BY <1>2, <1>4, Fields, NothingFields DEF ServiceInv, CloseInv, PhaseInv, PlaceInv,
     RollbackFloor
<1>10. RuntimeInv'
  BY <1>2, <1>4, Fields, NothingFields DEF ServiceInv, CloseInv, RuntimeInv, PlaceInv
<1>11. TxInv'
  BY <1>2, <1>4, Fields, NothingFields DEF ServiceInv, CloseInv, PhaseInv, PlaceInv, TxInv,
     BackupMatches, Selected, Settled
<1>12. OpenInv'
  BY <1>2, <1>4, Fields, NothingFields DEF ServiceInv, CloseInv, PhaseInv, PlaceInv, TxInv,
     OpenInv, RuntimeInv, Settled
<1>13. RequestInv'
  BY <1>2, <1>4, Fields, NothingFields DEF ServiceInv, CloseInv, PlaceInv, RuntimeInv,
     RequestInv, Desired, Quiet, HoldsRequest
<1> QED
  BY <1>3, <1>6, <1>7, <1>8, <1>9, <1>10, <1>11, <1>12, <1>13 DEF ServiceInv

\* ClearRequest keeps the invariant.
LEMMA ClearRequestKeeps ==
    ASSUME ServiceInv, ClearRequest
    PROVE  ServiceInv'
<1>1. /\ cli.todo # <<>> /\ Head(cli.todo) = "clear_request" /\ cli'.todo = Tail(cli.todo)
      /\ cli' = [todo |-> cli'.todo, loaded |-> cli'.loaded, exact |-> cli'.exact]
      /\ cli'.loaded \in BOOLEAN /\ cli'.exact \in BOOLEAN
  BY DEF ClearRequest, Advance, Do, ServiceInv, StateTypes
<1>2. /\ cli'.exact = cli.exact /\ job = 0
      /\ db' = [db EXCEPT !.carry = FALSE]
      /\ unclaimed' = backup.carry
      /\ db'.by = db.by /\ db'.gen = db.gen /\ db'.carry = FALSE
      /\ UNCHANGED <<tx, plist, manifest, backup, dirs, job, daemon, installs, faults>>
  BY AbleIs DEF ClearRequest, Advance, Do, durable, ServiceInv, StateTypes
<1>3. OrderInv' /\ Pops("clear_request")
  BY <1>1, Advances DEF ServiceInv
<1>4. /\ Todo = {"clear_request"} \cup Todo' /\ "survey" \notin Todo'
      /\ "publish_generation" \notin Todo' /\ "select_plist" \notin Todo'
      /\ "select_manifest" \notin Todo' /\ "emergency_stop" \notin Todo'
      /\ "drop_tx" \notin Todo' /\ "drop_backup" \notin Todo' /\ "mark" \notin Todo'
      /\ "accept_begin" \notin Todo' /\ "accept_commit" \notin Todo'
      /\ "retire_backup" \notin Todo' /\ "prepare" \notin Todo'
      /\ "remove_generations" \notin Todo' /\ "candidate_durable" \notin Todo'
      /\ "prior_drained" \notin Todo' /\ "database_backed_up" \notin Todo'
      /\ "candidate_selected" \notin Todo' /\ "restart_prior" \notin Todo'
      /\ "evict" \notin Todo' /\ "back_up" \notin Todo'
      /\ "restore_plist" \notin Todo' /\ "restore_manifest" \notin Todo'
      /\ "remove_plist" \notin Todo' /\ "remove_manifest" \notin Todo'
      /\ "restore" \notin Todo' /\ "clear_request" \notin Todo'
      /\ "retire_tx" \notin Todo'
  BY <1>3, Ranks, MarkNames DEF Pops, After
<1>6. StateTypes'
  <2>1. db' \in [by : 0 .. MaxInstalls, gen : 0 .. MaxInstalls, carry : BOOLEAN]
    BY <1>2, Fields, NothingTypes, TransactionAssumption DEF ServiceInv, StateTypes, Phases
  <2>2. unclaimed' \in BOOLEAN
    BY <1>2, Fields, NothingTypes, TransactionAssumption DEF ServiceInv, StateTypes, Phases
  <2> QED
    BY <1>1, <1>2, <2>1, <2>2 DEF ServiceInv, StateTypes
<1>7. CloseInv'
  BY <1>2, <1>4 DEF ServiceInv, CloseInv
<1>8. PhaseInv'
  BY <1>2, <1>4 DEF ServiceInv, PhaseInv, CloseInv
<1>9. PlaceInv'
  BY <1>2, <1>4 DEF ServiceInv, PlaceInv, RollbackFloor, CloseInv
<1>10. RuntimeInv'
  BY <1>2, <1>4, Fields, NothingFields DEF ServiceInv, CloseInv, RuntimeInv, PlaceInv
<1>11. TxInv'
  BY <1>2, <1>4, Fields, NothingFields DEF ServiceInv, CloseInv, PhaseInv, PlaceInv, TxInv,
     BackupMatches, Selected, Settled
<1>12. OpenInv'
  BY <1>2, <1>4, Fields, NothingFields DEF ServiceInv, CloseInv, PhaseInv, PlaceInv, TxInv,
     OpenInv, RuntimeInv, Settled
<1>13. RequestInv'
  BY <1>2, <1>4, Fields, NothingFields DEF ServiceInv, CloseInv, PlaceInv, RuntimeInv,
     RequestInv, Desired, Quiet
<1> QED
  BY <1>3, <1>6, <1>7, <1>8, <1>9, <1>10, <1>11, <1>12, <1>13 DEF ServiceInv

\* Bootstrap keeps the invariant.
LEMMA BootstrapKeeps ==
    ASSUME ServiceInv, Bootstrap
    PROVE  ServiceInv'
<1>1. /\ cli.todo # <<>> /\ Head(cli.todo) = "bootstrap" /\ cli'.todo = Tail(cli.todo)
      /\ cli' = [todo |-> cli'.todo, loaded |-> cli'.loaded, exact |-> cli'.exact]
      /\ cli'.loaded \in BOOLEAN /\ cli'.exact \in BOOLEAN
  BY DEF Bootstrap, Advance, Do, ServiceInv, StateTypes
<1>2. /\ cli'.exact = cli.exact /\ job = 0
      /\ job' = plist
      /\ UNCHANGED <<tx, plist, manifest, db, backup, dirs, daemon, installs, faults, unclaimed>>
  BY AbleIs DEF Bootstrap, Advance, Do, durable, ServiceInv, StateTypes
<1>3. OrderInv' /\ Pops("bootstrap")
  BY <1>1, Advances DEF ServiceInv
<1>4. /\ Todo = {"bootstrap"} \cup Todo' /\ "survey" \notin Todo'
      /\ "publish_generation" \notin Todo' /\ "select_plist" \notin Todo'
      /\ "select_manifest" \notin Todo' /\ "emergency_stop" \notin Todo'
      /\ "drop_tx" \notin Todo' /\ "drop_backup" \notin Todo' /\ "mark" \notin Todo'
      /\ "accept_begin" \notin Todo' /\ "accept_commit" \notin Todo'
      /\ "retire_backup" \notin Todo' /\ "prepare" \notin Todo'
      /\ "remove_generations" \notin Todo' /\ "candidate_durable" \notin Todo'
      /\ "prior_drained" \notin Todo' /\ "database_backed_up" \notin Todo'
      /\ "candidate_selected" \notin Todo' /\ "restart_prior" \notin Todo'
      /\ "evict" \notin Todo' /\ "back_up" \notin Todo' /\ "bootstrap" \notin Todo'
      /\ "restore_plist" \notin Todo' /\ "restore_manifest" \notin Todo'
      /\ "remove_plist" \notin Todo' /\ "remove_manifest" \notin Todo'
      /\ "restore" \notin Todo' /\ "clear_request" \notin Todo'
      /\ "retire_tx" \notin Todo'
  BY <1>3, Ranks, MarkNames DEF Pops, After
<1>6. StateTypes'
  <2>1. job' \in 0 .. MaxInstalls
    BY <1>2, Fields, NothingTypes, TransactionAssumption DEF ServiceInv, StateTypes, Phases
  <2> QED
    BY <1>1, <1>2, <2>1 DEF ServiceInv, StateTypes
<1>7. CloseInv'
  BY <1>2, <1>4 DEF ServiceInv, CloseInv
<1>8. PhaseInv'
  BY <1>2, <1>4 DEF ServiceInv, PhaseInv, CloseInv
<1>9. PlaceInv'
  BY <1>2, <1>4, Fields, NothingFields DEF ServiceInv, CloseInv, PhaseInv, PlaceInv,
     RollbackFloor
<1>10. RuntimeInv'
  BY <1>2, <1>4, Fields, NothingFields DEF ServiceInv, CloseInv, RuntimeInv, PlaceInv
<1>11. TxInv'
  BY <1>2, <1>4 DEF ServiceInv, TxInv, CloseInv, BackupMatches, Selected
<1>12. OpenInv'
  BY <1>2, <1>4 DEF ServiceInv, OpenInv, CloseInv
<1>13. RequestInv'
  BY <1>2, <1>4, Fields, NothingFields DEF ServiceInv, CloseInv, PlaceInv, RuntimeInv,
     RequestInv, Desired, Quiet
<1> QED
  BY <1>3, <1>6, <1>7, <1>8, <1>9, <1>10, <1>11, <1>12, <1>13 DEF ServiceInv

\* Prepare keeps the invariant.
LEMMA PrepareKeeps ==
    ASSUME ServiceInv, Prepare
    PROVE  ServiceInv'
<1>1. /\ cli.todo # <<>> /\ Head(cli.todo) = "prepare" /\ cli'.todo = Tail(cli.todo)
      /\ cli' = [todo |-> cli'.todo, loaded |-> cli'.loaded, exact |-> cli'.exact]
      /\ cli'.loaded \in BOOLEAN /\ cli'.exact \in BOOLEAN
  BY DEF Prepare, Do, ServiceInv, StateTypes
<1>2. /\ cli'.exact = cli.exact /\ installs < MaxInstalls /\ plist = manifest.gen
      /\ tx' = [NoTx EXCEPT !.phase = "prepared", !.cand = NextGeneration,
                        !.prior = manifest.gen, !.loaded = cli.loaded]
      /\ installs' = installs + 1
      /\ tx'.phase = "prepared" /\ tx'.cand = NextGeneration
      /\ tx'.prior = manifest.gen /\ tx'.loaded = cli.loaded
      /\ tx'.backedUp = NoTx.backedUp /\ tx'.restore = NoTx.restore
      /\ UNCHANGED <<plist, manifest, db, backup, dirs, job, daemon, faults, unclaimed>>
  BY AbleIs DEF Prepare, Do, durable, ServiceInv, StateTypes, NoTx
<1>3. OrderInv' /\ Pops("prepare")
  BY <1>1, Advances DEF ServiceInv
<1>4. /\ Todo = {"prepare"} \cup Todo' /\ "survey" \notin Todo'
      /\ "drop_tx" \notin Todo' /\ "drop_backup" \notin Todo' /\ "mark" \notin Todo'
      /\ "accept_begin" \notin Todo' /\ "accept_commit" \notin Todo'
      /\ "retire_backup" \notin Todo' /\ "prepare" \notin Todo'
      /\ "remove_generations" \notin Todo' /\ "restart_prior" \notin Todo'
      /\ "evict" \notin Todo' /\ "restore_plist" \notin Todo'
      /\ "restore_manifest" \notin Todo' /\ "remove_plist" \notin Todo'
      /\ "remove_manifest" \notin Todo' /\ "restore" \notin Todo'
      /\ "retire_tx" \notin Todo'
  BY <1>3, Ranks, MarkNames DEF Pops, After
<1>5. /\ NextGeneration \in 1 .. installs + 1 /\ NextGeneration \in 0 .. MaxInstalls
      /\ dirs[NextGeneration] = 0 /\ cli.loaded \in BOOLEAN
      /\ tx' = [phase |-> "prepared", cand |-> NextGeneration, prior |-> manifest.gen,
                loaded |-> cli.loaded, backedUp |-> FALSE, restore |-> FALSE]
  <2>1. NextGeneration \in 1 .. installs + 1 /\ dirs[NextGeneration] = 0
    BY <1>2, FreshGeneration DEF ServiceInv
  <2>2. NextGeneration \in 0 .. MaxInstalls /\ cli.loaded \in BOOLEAN
    BY <1>2, <2>1, Fields DEF ServiceInv, StateTypes
  <2> QED
    BY <1>2, <2>1, <2>2 DEF NoTx
<1>6. StateTypes'
  <2>1. tx' \in [phase : Phases \cup {"none"}, cand : 0 .. MaxInstalls,
               prior : 0 .. MaxInstalls, loaded : BOOLEAN,
               backedUp : BOOLEAN, restore : BOOLEAN]
    BY <1>2, <1>5, Fields, NothingTypes, TransactionAssumption DEF ServiceInv, StateTypes,
       Phases, NoTx, Generations
  <2>2. installs' \in 0 .. MaxInstalls
    <3>1. installs' = installs + 1 /\ installs < MaxInstalls
      BY <1>2, Zenon
    <3>2. installs \in 0 .. MaxInstalls /\ MaxInstalls \in Nat
      BY Fields DEF ServiceInv
    <3> QED
      BY <3>1, <3>2
  <2> QED
    BY <1>1, <1>2, <2>1, <2>2 DEF ServiceInv, StateTypes
<1>7. CloseInv'
  BY <1>2, <1>4, <1>5 DEF ServiceInv, CloseInv
<1>8. PhaseInv'
  BY <1>2, <1>4, <1>5, Fields, NothingFields DEF ServiceInv, CloseInv, PhaseInv
<1>9. PlaceInv'
  BY <1>2, <1>4, <1>5, Fields, NothingFields DEF ServiceInv, CloseInv, PhaseInv, PlaceInv,
     RollbackFloor
<1>10. RuntimeInv'
  BY <1>2, <1>4, <1>5 DEF ServiceInv, RuntimeInv
<1>11. TxInv'
  BY <1>2, <1>4, <1>5, Fields, NothingFields DEF ServiceInv, CloseInv, PhaseInv, PlaceInv,
     TxInv, BackupMatches, Selected, Settled, Generations
<1>12. OpenInv'
  BY <1>2, <1>4, <1>5, Fields, NothingFields DEF ServiceInv, CloseInv, PhaseInv, PlaceInv,
     TxInv, OpenInv, RuntimeInv, Settled, Generations
<1>13. RequestInv'
  BY <1>2, <1>4, <1>5 DEF ServiceInv, RequestInv, Desired, Quiet, CloseInv
<1> QED
  BY <1>3, <1>6, <1>7, <1>8, <1>9, <1>10, <1>11, <1>12, <1>13 DEF ServiceInv

\* CreateGeneration keeps the invariant.
LEMMA CreateGenerationKeeps ==
    ASSUME ServiceInv, CreateGeneration
    PROVE  ServiceInv'
<1>1. /\ cli.todo # <<>> /\ Head(cli.todo) = "publish_generation" /\ cli'.todo = Tail(cli.todo)
      /\ cli' = [todo |-> cli'.todo, loaded |-> cli'.loaded, exact |-> cli'.exact]
      /\ cli'.loaded \in BOOLEAN /\ cli'.exact \in BOOLEAN
  BY DEF CreateGeneration, Advance, Do, ServiceInv, StateTypes
<1>2. /\ cli'.exact = cli.exact
      /\ dirs' = [dirs EXCEPT ![tx.cand] = installs]
      /\ UNCHANGED <<tx, plist, manifest, db, backup, job, daemon, installs, faults, unclaimed>>
  BY AbleIs DEF CreateGeneration, Advance, Do, durable, ServiceInv, StateTypes
<1>3. OrderInv' /\ Pops("publish_generation")
  BY <1>1, Advances DEF ServiceInv
<1>4. /\ Todo = {"publish_generation"} \cup Todo' /\ "survey" \notin Todo'
      /\ "publish_generation" \notin Todo' /\ "drop_tx" \notin Todo'
      /\ "drop_backup" \notin Todo' /\ "mark" \notin Todo'
      /\ "accept_begin" \notin Todo' /\ "accept_commit" \notin Todo'
      /\ "retire_backup" \notin Todo' /\ "prepare" \notin Todo'
      /\ "remove_generations" \notin Todo' /\ "restart_prior" \notin Todo'
      /\ "evict" \notin Todo' /\ "restore_plist" \notin Todo'
      /\ "restore_manifest" \notin Todo' /\ "remove_plist" \notin Todo'
      /\ "remove_manifest" \notin Todo' /\ "restore" \notin Todo'
      /\ "retire_tx" \notin Todo'
  BY <1>3, Ranks, MarkNames DEF Pops, After
<1>5. /\ tx.phase = "prepared" /\ tx.cand \in Generations /\ tx.cand <= installs
      /\ \A g \in Generations : dirs'[g] = IF g = tx.cand THEN installs ELSE dirs[g]
  <2>1. tx.phase = "prepared"
    BY <1>4 DEF ServiceInv, PhaseInv, CloseInv
  <2>2. tx.cand \in Generations /\ tx.cand <= installs
    BY <2>1, Fields DEF ServiceInv, TxInv, Generations
  <2> QED
    BY <1>2, <2>1, <2>2 DEF ServiceInv, StateTypes
<1>6. StateTypes'
  <2>1. dirs' \in [Generations -> 0 .. MaxInstalls]
    BY <1>2, <1>5, Fields, NothingTypes, TransactionAssumption DEF ServiceInv, StateTypes,
       Phases
  <2> QED
    BY <1>1, <1>2, <2>1 DEF ServiceInv, StateTypes
<1>7. CloseInv'
  BY <1>2, <1>4, <1>5 DEF ServiceInv, CloseInv
<1>8. PhaseInv'
  BY <1>2, <1>4, <1>5 DEF ServiceInv, PhaseInv, CloseInv
<1>9. PlaceInv'
  BY <1>2, <1>4, <1>5 DEF ServiceInv, PlaceInv, RollbackFloor, CloseInv
<1>10. RuntimeInv'
  BY <1>2, <1>4, <1>5 DEF ServiceInv, RuntimeInv
<1>11. TxInv'
  BY <1>2, <1>4, <1>5, Fields, NothingFields DEF ServiceInv, CloseInv, PhaseInv, PlaceInv,
     TxInv, BackupMatches, Selected, Settled, Generations
<1>12. OpenInv'
  BY <1>2, <1>4, <1>5, Fields, NothingFields DEF ServiceInv, CloseInv, PhaseInv, PlaceInv,
     TxInv, OpenInv, RuntimeInv, Settled
<1>13. RequestInv'
  BY <1>2, <1>4, <1>5 DEF ServiceInv, RequestInv, Desired, Quiet, CloseInv
<1> QED
  BY <1>3, <1>6, <1>7, <1>8, <1>9, <1>10, <1>11, <1>12, <1>13 DEF ServiceInv

\* The transaction is written as candidate_durable: the invariant holds after it.
LEMMA PersistCandidateDurableKeeps ==
    ASSUME ServiceInv, Persist("candidate_durable", "candidate_durable")
    PROVE  ServiceInv'
<1>1. /\ cli.todo # <<>> /\ Head(cli.todo) = "candidate_durable" /\ cli'.todo = Tail(cli.todo)
      /\ cli' = [todo |-> cli'.todo, loaded |-> cli'.loaded, exact |-> cli'.exact]
      /\ cli'.loaded \in BOOLEAN /\ cli'.exact \in BOOLEAN
  BY DEF Persist, Advance, Do, ServiceInv, StateTypes
<1>2. /\ cli'.exact = cli.exact
      /\ tx' = [tx EXCEPT !.phase = "candidate_durable"]
      /\ tx'.phase = "candidate_durable" /\ tx'.cand = tx.cand /\ tx'.prior = tx.prior
      /\ tx'.loaded = tx.loaded /\ tx'.backedUp = tx.backedUp
      /\ tx'.restore = tx.restore
      /\ UNCHANGED <<plist, manifest, db, backup, dirs, job, daemon, installs, faults, unclaimed>>
  BY AbleIs DEF Persist, Advance, Do, durable, ServiceInv, StateTypes
<1>3. OrderInv' /\ Pops("candidate_durable")
  BY <1>1, Advances DEF ServiceInv
<1>4. /\ Todo = {"candidate_durable"} \cup Todo' /\ "survey" \notin Todo'
      /\ "publish_generation" \notin Todo' /\ "drop_tx" \notin Todo'
      /\ "drop_backup" \notin Todo' /\ "mark" \notin Todo'
      /\ "accept_begin" \notin Todo' /\ "accept_commit" \notin Todo'
      /\ "retire_backup" \notin Todo' /\ "prepare" \notin Todo'
      /\ "remove_generations" \notin Todo' /\ "candidate_durable" \notin Todo'
      /\ "restart_prior" \notin Todo' /\ "evict" \notin Todo'
      /\ "restore_plist" \notin Todo' /\ "restore_manifest" \notin Todo'
      /\ "remove_plist" \notin Todo' /\ "remove_manifest" \notin Todo'
      /\ "restore" \notin Todo' /\ "retire_tx" \notin Todo'
  BY <1>3, Ranks, MarkNames DEF Pops, After
<1>6. StateTypes'
  <2>1. tx' \in [phase : Phases \cup {"none"}, cand : 0 .. MaxInstalls,
               prior : 0 .. MaxInstalls, loaded : BOOLEAN,
               backedUp : BOOLEAN, restore : BOOLEAN]
    BY <1>2, Fields, NothingTypes, TransactionAssumption DEF ServiceInv, StateTypes, Phases
  <2> QED
    BY <1>1, <1>2, <2>1 DEF ServiceInv, StateTypes
<1>7. CloseInv'
  BY <1>2, <1>4 DEF ServiceInv, CloseInv
<1>8. PhaseInv'
  BY <1>2, <1>4, Fields, NothingFields DEF ServiceInv, CloseInv, PhaseInv
<1>9. PlaceInv'
  BY <1>2, <1>4, Fields, NothingFields DEF ServiceInv, CloseInv, PhaseInv, PlaceInv,
     RollbackFloor
<1>10. RuntimeInv'
  BY <1>2, <1>4 DEF ServiceInv, RuntimeInv
<1>11. TxInv'
  BY <1>2, <1>4, Fields, NothingFields DEF ServiceInv, CloseInv, PhaseInv, PlaceInv, TxInv,
     BackupMatches, Selected, Settled
<1>12. OpenInv'
  BY <1>2, <1>4, Fields, NothingFields DEF ServiceInv, CloseInv, PhaseInv, PlaceInv, TxInv,
     OpenInv, RuntimeInv, Settled
<1>13. RequestInv'
  BY <1>2, <1>4 DEF ServiceInv, RequestInv, Desired, Quiet, CloseInv
<1> QED
  BY <1>3, <1>6, <1>7, <1>8, <1>9, <1>10, <1>11, <1>12, <1>13 DEF ServiceInv

\* The transaction is written as prior_drained: the invariant holds after it.
LEMMA PersistPriorDrainedKeeps ==
    ASSUME ServiceInv, Persist("prior_drained", "prior_drained")
    PROVE  ServiceInv'
<1>1. /\ cli.todo # <<>> /\ Head(cli.todo) = "prior_drained" /\ cli'.todo = Tail(cli.todo)
      /\ cli' = [todo |-> cli'.todo, loaded |-> cli'.loaded, exact |-> cli'.exact]
      /\ cli'.loaded \in BOOLEAN /\ cli'.exact \in BOOLEAN
  BY DEF Persist, Advance, Do, ServiceInv, StateTypes
<1>2. /\ cli'.exact = cli.exact
      /\ tx' = [tx EXCEPT !.phase = "prior_drained"]
      /\ tx'.phase = "prior_drained" /\ tx'.cand = tx.cand /\ tx'.prior = tx.prior
      /\ tx'.loaded = tx.loaded /\ tx'.backedUp = tx.backedUp
      /\ tx'.restore = tx.restore
      /\ UNCHANGED <<plist, manifest, db, backup, dirs, job, daemon, installs, faults, unclaimed>>
  BY AbleIs DEF Persist, Advance, Do, durable, ServiceInv, StateTypes
<1>3. OrderInv' /\ Pops("prior_drained")
  BY <1>1, Advances DEF ServiceInv
<1>4. /\ Todo = {"prior_drained"} \cup Todo' /\ "survey" \notin Todo'
      /\ "publish_generation" \notin Todo' /\ "drop_tx" \notin Todo'
      /\ "drop_backup" \notin Todo' /\ "mark" \notin Todo'
      /\ "accept_begin" \notin Todo' /\ "accept_commit" \notin Todo'
      /\ "retire_backup" \notin Todo' /\ "prepare" \notin Todo'
      /\ "remove_generations" \notin Todo' /\ "candidate_durable" \notin Todo'
      /\ "prior_drained" \notin Todo' /\ "restart_prior" \notin Todo'
      /\ "evict" \notin Todo' /\ "restore_plist" \notin Todo'
      /\ "restore_manifest" \notin Todo' /\ "remove_plist" \notin Todo'
      /\ "remove_manifest" \notin Todo' /\ "restore" \notin Todo'
      /\ "retire_tx" \notin Todo'
  BY <1>3, Ranks, MarkNames DEF Pops, After
<1>6. StateTypes'
  <2>1. tx' \in [phase : Phases \cup {"none"}, cand : 0 .. MaxInstalls,
               prior : 0 .. MaxInstalls, loaded : BOOLEAN,
               backedUp : BOOLEAN, restore : BOOLEAN]
    BY <1>2, Fields, NothingTypes, TransactionAssumption DEF ServiceInv, StateTypes, Phases
  <2> QED
    BY <1>1, <1>2, <2>1 DEF ServiceInv, StateTypes
<1>7. CloseInv'
  BY <1>2, <1>4 DEF ServiceInv, CloseInv
<1>8. PhaseInv'
  BY <1>2, <1>4, Fields, NothingFields DEF ServiceInv, CloseInv, PhaseInv
<1>9. PlaceInv'
  BY <1>2, <1>4, Fields, NothingFields DEF ServiceInv, CloseInv, PhaseInv, PlaceInv,
     RollbackFloor
<1>10. RuntimeInv'
  BY <1>2, <1>4 DEF ServiceInv, RuntimeInv
<1>11. TxInv'
  BY <1>2, <1>4, Fields, NothingFields DEF ServiceInv, CloseInv, PhaseInv, PlaceInv, TxInv,
     BackupMatches, Selected, Settled
<1>12. OpenInv'
  BY <1>2, <1>4, Fields, NothingFields DEF ServiceInv, CloseInv, PhaseInv, PlaceInv, TxInv,
     OpenInv, RuntimeInv, Settled
<1>13. RequestInv'
  BY <1>2, <1>4 DEF ServiceInv, RequestInv, Desired, Quiet, CloseInv
<1> QED
  BY <1>3, <1>6, <1>7, <1>8, <1>9, <1>10, <1>11, <1>12, <1>13 DEF ServiceInv

\* The transaction is written as candidate_selected: the invariant holds after it.
LEMMA PersistCandidateSelectedKeeps ==
    ASSUME ServiceInv, Persist("candidate_selected", "candidate_selected")
    PROVE  ServiceInv'
<1>1. /\ cli.todo # <<>> /\ Head(cli.todo) = "candidate_selected" /\ cli'.todo = Tail(cli.todo)
      /\ cli' = [todo |-> cli'.todo, loaded |-> cli'.loaded, exact |-> cli'.exact]
      /\ cli'.loaded \in BOOLEAN /\ cli'.exact \in BOOLEAN
  BY DEF Persist, Advance, Do, ServiceInv, StateTypes
<1>2. /\ cli'.exact = cli.exact
      /\ tx' = [tx EXCEPT !.phase = "candidate_selected"]
      /\ tx'.phase = "candidate_selected" /\ tx'.cand = tx.cand
      /\ tx'.prior = tx.prior /\ tx'.loaded = tx.loaded /\ tx'.backedUp = tx.backedUp
      /\ tx'.restore = tx.restore
      /\ UNCHANGED <<plist, manifest, db, backup, dirs, job, daemon, installs, faults, unclaimed>>
  BY AbleIs DEF Persist, Advance, Do, durable, ServiceInv, StateTypes
<1>3. OrderInv' /\ Pops("candidate_selected")
  BY <1>1, Advances DEF ServiceInv
<1>4. /\ Todo = {"candidate_selected"} \cup Todo' /\ "survey" \notin Todo'
      /\ "publish_generation" \notin Todo' /\ "select_plist" \notin Todo'
      /\ "select_manifest" \notin Todo' /\ "emergency_stop" \notin Todo'
      /\ "drop_tx" \notin Todo' /\ "drop_backup" \notin Todo' /\ "mark" \notin Todo'
      /\ "accept_begin" \notin Todo' /\ "accept_commit" \notin Todo'
      /\ "retire_backup" \notin Todo' /\ "prepare" \notin Todo'
      /\ "remove_generations" \notin Todo' /\ "candidate_durable" \notin Todo'
      /\ "prior_drained" \notin Todo' /\ "database_backed_up" \notin Todo'
      /\ "candidate_selected" \notin Todo' /\ "restart_prior" \notin Todo'
      /\ "evict" \notin Todo' /\ "back_up" \notin Todo'
      /\ "restore_plist" \notin Todo' /\ "restore_manifest" \notin Todo'
      /\ "remove_plist" \notin Todo' /\ "remove_manifest" \notin Todo'
      /\ "restore" \notin Todo' /\ "clear_request" \notin Todo'
      /\ "retire_tx" \notin Todo'
  BY <1>3, Ranks, MarkNames DEF Pops, After
<1>6. StateTypes'
  <2>1. tx' \in [phase : Phases \cup {"none"}, cand : 0 .. MaxInstalls,
               prior : 0 .. MaxInstalls, loaded : BOOLEAN,
               backedUp : BOOLEAN, restore : BOOLEAN]
    BY <1>2, Fields, NothingTypes, TransactionAssumption DEF ServiceInv, StateTypes, Phases
  <2> QED
    BY <1>1, <1>2, <2>1 DEF ServiceInv, StateTypes
<1>7. CloseInv'
  BY <1>2, <1>4 DEF ServiceInv, CloseInv
<1>8. PhaseInv'
  BY <1>2, <1>4, Fields, NothingFields DEF ServiceInv, CloseInv, PhaseInv
<1>9. PlaceInv'
  BY <1>2, <1>4, Fields, NothingFields DEF ServiceInv, CloseInv, PhaseInv, PlaceInv,
     RollbackFloor
<1>10. RuntimeInv'
  BY <1>2, <1>4 DEF ServiceInv, RuntimeInv
<1>11. TxInv'
  BY <1>2, <1>4, Fields, NothingFields DEF ServiceInv, CloseInv, PhaseInv, PlaceInv, TxInv,
     BackupMatches, Selected, Settled
<1>12. OpenInv'
  BY <1>2, <1>4, Fields, NothingFields DEF ServiceInv, CloseInv, PhaseInv, PlaceInv, TxInv,
     OpenInv, RuntimeInv, Settled
<1>13. RequestInv'
  BY <1>2, <1>4 DEF ServiceInv, RequestInv, Desired, Quiet, CloseInv
<1> QED
  BY <1>3, <1>6, <1>7, <1>8, <1>9, <1>10, <1>11, <1>12, <1>13 DEF ServiceInv

\* The transaction is written as candidate_ready_report_only: the invariant holds after it.
LEMMA PersistCandidateReadyKeeps ==
    ASSUME ServiceInv, Persist("candidate_ready", "candidate_ready_report_only")
    PROVE  ServiceInv'
<1>1. /\ cli.todo # <<>> /\ Head(cli.todo) = "candidate_ready" /\ cli'.todo = Tail(cli.todo)
      /\ cli' = [todo |-> cli'.todo, loaded |-> cli'.loaded, exact |-> cli'.exact]
      /\ cli'.loaded \in BOOLEAN /\ cli'.exact \in BOOLEAN
  BY DEF Persist, Advance, Do, ServiceInv, StateTypes
<1>2. /\ cli'.exact = cli.exact
      /\ tx' = [tx EXCEPT !.phase = "candidate_ready_report_only"]
      /\ tx'.phase = "candidate_ready_report_only" /\ tx'.cand = tx.cand
      /\ tx'.prior = tx.prior /\ tx'.loaded = tx.loaded /\ tx'.backedUp = tx.backedUp
      /\ tx'.restore = tx.restore
      /\ UNCHANGED <<plist, manifest, db, backup, dirs, job, daemon, installs, faults, unclaimed>>
  BY AbleIs DEF Persist, Advance, Do, durable, ServiceInv, StateTypes
<1>3. OrderInv' /\ Pops("candidate_ready")
  BY <1>1, Advances DEF ServiceInv
<1>4. /\ Todo = {"candidate_ready"} \cup Todo' /\ "survey" \notin Todo'
      /\ "publish_generation" \notin Todo' /\ "select_plist" \notin Todo'
      /\ "select_manifest" \notin Todo' /\ "emergency_stop" \notin Todo'
      /\ "drop_tx" \notin Todo' /\ "drop_backup" \notin Todo' /\ "mark" \notin Todo'
      /\ "accept_begin" \notin Todo' /\ "accept_commit" \notin Todo'
      /\ "retire_backup" \notin Todo' /\ "prepare" \notin Todo'
      /\ "remove_generations" \notin Todo' /\ "candidate_ready" \notin Todo'
      /\ "candidate_durable" \notin Todo' /\ "prior_drained" \notin Todo'
      /\ "database_backed_up" \notin Todo' /\ "candidate_selected" \notin Todo'
      /\ "restart_prior" \notin Todo' /\ "evict" \notin Todo'
      /\ "back_up" \notin Todo' /\ "bootstrap" \notin Todo'
      /\ "restore_plist" \notin Todo' /\ "restore_manifest" \notin Todo'
      /\ "remove_plist" \notin Todo' /\ "remove_manifest" \notin Todo'
      /\ "restore" \notin Todo' /\ "clear_request" \notin Todo'
      /\ "retire_tx" \notin Todo'
  BY <1>3, Ranks, MarkNames DEF Pops, After
<1>6. StateTypes'
  <2>1. tx' \in [phase : Phases \cup {"none"}, cand : 0 .. MaxInstalls,
               prior : 0 .. MaxInstalls, loaded : BOOLEAN,
               backedUp : BOOLEAN, restore : BOOLEAN]
    BY <1>2, Fields, NothingTypes, TransactionAssumption DEF ServiceInv, StateTypes, Phases
  <2> QED
    BY <1>1, <1>2, <2>1 DEF ServiceInv, StateTypes
<1>7. CloseInv'
  BY <1>2, <1>4 DEF ServiceInv, CloseInv
<1>8. PhaseInv'
  BY <1>2, <1>4, Fields, NothingFields DEF ServiceInv, CloseInv, PhaseInv
<1>9. PlaceInv'
  BY <1>2, <1>4, Fields, NothingFields DEF ServiceInv, CloseInv, PhaseInv, PlaceInv,
     RollbackFloor
<1>10. RuntimeInv'
  BY <1>2, <1>4 DEF ServiceInv, RuntimeInv
<1>11. TxInv'
  BY <1>2, <1>4, Fields, NothingFields DEF ServiceInv, CloseInv, PhaseInv, PlaceInv, TxInv,
     BackupMatches, Selected, Settled
<1>12. OpenInv'
  BY <1>2, <1>4, Fields, NothingFields DEF ServiceInv, CloseInv, PhaseInv, PlaceInv, TxInv,
     OpenInv, RuntimeInv, Settled
<1>13. RequestInv'
  BY <1>2, <1>4 DEF ServiceInv, RequestInv, Desired, Quiet, CloseInv
<1> QED
  BY <1>3, <1>6, <1>7, <1>8, <1>9, <1>10, <1>11, <1>12, <1>13 DEF ServiceInv

\* The transaction is written as acceptance_in_progress: the invariant holds after it.
LEMMA PersistAcceptBeginKeeps ==
    ASSUME ServiceInv, Persist("accept_begin", "acceptance_in_progress")
    PROVE  ServiceInv'
<1>1. /\ cli.todo # <<>> /\ Head(cli.todo) = "accept_begin" /\ cli'.todo = Tail(cli.todo)
      /\ cli' = [todo |-> cli'.todo, loaded |-> cli'.loaded, exact |-> cli'.exact]
      /\ cli'.loaded \in BOOLEAN /\ cli'.exact \in BOOLEAN
  BY DEF Persist, Advance, Do, ServiceInv, StateTypes
<1>2. /\ cli'.exact = cli.exact /\ AcceptanceState
      /\ tx' = [tx EXCEPT !.phase = "acceptance_in_progress"]
      /\ tx'.phase = "acceptance_in_progress" /\ tx'.cand = tx.cand
      /\ tx'.prior = tx.prior /\ tx'.loaded = tx.loaded /\ tx'.backedUp = tx.backedUp
      /\ tx'.restore = tx.restore
      /\ UNCHANGED <<plist, manifest, db, backup, dirs, job, daemon, installs, faults, unclaimed>>
  BY AbleIs DEF Persist, Advance, Do, durable, ServiceInv, StateTypes
<1>3. OrderInv' /\ Pops("accept_begin")
  BY <1>1, Advances DEF ServiceInv
<1>4. /\ Todo = {"accept_begin"} \cup Todo' /\ "accept_begin" \notin Todo'
  BY <1>3, Ranks, MarkNames DEF Pops, After
<1>6. StateTypes'
  <2>1. tx' \in [phase : Phases \cup {"none"}, cand : 0 .. MaxInstalls,
               prior : 0 .. MaxInstalls, loaded : BOOLEAN,
               backedUp : BOOLEAN, restore : BOOLEAN]
    BY <1>2, Fields, NothingTypes, TransactionAssumption DEF ServiceInv, StateTypes, Phases
  <2> QED
    BY <1>1, <1>2, <2>1 DEF ServiceInv, StateTypes
<1>7. CloseInv'
  BY <1>2, <1>4 DEF ServiceInv, CloseInv
<1>8. PhaseInv'
  BY <1>2, <1>4, Fields, NothingFields DEF ServiceInv, CloseInv, PhaseInv
<1>9. PlaceInv'
  BY <1>2, <1>4, Fields, NothingFields DEF ServiceInv, CloseInv, PhaseInv, PlaceInv,
     RollbackFloor
<1>10. RuntimeInv'
  BY <1>2, <1>4 DEF ServiceInv, RuntimeInv
<1>11. TxInv'
  BY <1>2, <1>4, Fields, NothingFields DEF ServiceInv, CloseInv, PhaseInv, PlaceInv, TxInv,
     BackupMatches, Selected, Settled
<1>12. OpenInv'
  BY <1>2, <1>4, Fields, NothingFields DEF ServiceInv, CloseInv, PhaseInv, PlaceInv, TxInv,
     OpenInv, RuntimeInv, Settled
<1>13. RequestInv'
  BY <1>2, <1>4 DEF ServiceInv, RequestInv, Desired, Quiet, CloseInv
<1> QED
  BY <1>3, <1>6, <1>7, <1>8, <1>9, <1>10, <1>11, <1>12, <1>13 DEF ServiceInv

\* The transaction is written as accepted: the invariant holds after it.
LEMMA PersistAcceptCommitKeeps ==
    ASSUME ServiceInv, Persist("accept_commit", "accepted")
    PROVE  ServiceInv'
<1>1. /\ cli.todo # <<>> /\ Head(cli.todo) = "accept_commit" /\ cli'.todo = Tail(cli.todo)
      /\ cli' = [todo |-> cli'.todo, loaded |-> cli'.loaded, exact |-> cli'.exact]
      /\ cli'.loaded \in BOOLEAN /\ cli'.exact \in BOOLEAN
  BY DEF Persist, Advance, Do, ServiceInv, StateTypes
<1>2. /\ cli'.exact = cli.exact /\ AcceptanceState
      /\ tx' = [tx EXCEPT !.phase = "accepted"]
      /\ tx'.phase = "accepted" /\ tx'.cand = tx.cand /\ tx'.prior = tx.prior
      /\ tx'.loaded = tx.loaded /\ tx'.backedUp = tx.backedUp
      /\ tx'.restore = tx.restore
      /\ UNCHANGED <<plist, manifest, db, backup, dirs, job, daemon, installs, faults, unclaimed>>
  BY AbleIs DEF Persist, Advance, Do, durable, ServiceInv, StateTypes
<1>3. OrderInv' /\ Pops("accept_commit")
  BY <1>1, Advances DEF ServiceInv
<1>4. /\ Todo = {"accept_commit"} \cup Todo' /\ "accept_begin" \notin Todo'
      /\ "accept_commit" \notin Todo'
  BY <1>3, Ranks, MarkNames DEF Pops, After
<1>6. StateTypes'
  <2>1. tx' \in [phase : Phases \cup {"none"}, cand : 0 .. MaxInstalls,
               prior : 0 .. MaxInstalls, loaded : BOOLEAN,
               backedUp : BOOLEAN, restore : BOOLEAN]
    BY <1>2, Fields, NothingTypes, TransactionAssumption DEF ServiceInv, StateTypes, Phases
  <2> QED
    BY <1>1, <1>2, <2>1 DEF ServiceInv, StateTypes
<1>7. CloseInv'
  BY <1>2, <1>4 DEF ServiceInv, CloseInv
<1>8. PhaseInv'
  BY <1>2, <1>4, Fields, NothingFields DEF ServiceInv, CloseInv, PhaseInv
<1>9. PlaceInv'
  BY <1>2, <1>4, Fields, NothingFields DEF ServiceInv, CloseInv, PhaseInv, PlaceInv,
     RollbackFloor
<1>10. RuntimeInv'
  BY <1>2, <1>4 DEF ServiceInv, RuntimeInv
<1>11. TxInv'
  BY <1>2, <1>4, Fields, NothingFields DEF ServiceInv, CloseInv, PhaseInv, PlaceInv, TxInv,
     BackupMatches, Selected, Settled, AcceptanceState, RuntimeReady, RuntimeInv
<1>12. OpenInv'
  BY <1>2, <1>4, Fields, NothingFields DEF ServiceInv, CloseInv, PhaseInv, PlaceInv, TxInv,
     OpenInv, RuntimeInv, Settled
<1>13. RequestInv'
  BY <1>2, <1>4 DEF ServiceInv, RequestInv, Desired, Quiet, CloseInv
<1> QED
  BY <1>3, <1>6, <1>7, <1>8, <1>9, <1>10, <1>11, <1>12, <1>13 DEF ServiceInv

\* BackupDatabase keeps the invariant.
LEMMA BackupDatabaseKeeps ==
    ASSUME ServiceInv, BackupDatabase
    PROVE  ServiceInv'
<1>1. /\ cli.todo # <<>> /\ Head(cli.todo) = "back_up" /\ cli'.todo = Tail(cli.todo)
      /\ cli' = [todo |-> cli'.todo, loaded |-> cli'.loaded, exact |-> cli'.exact]
      /\ cli'.loaded \in BOOLEAN /\ cli'.exact \in BOOLEAN
  BY DEF BackupDatabase, Advance, Do, ServiceInv, StateTypes
<1>2. /\ cli'.exact = cli.exact /\ job = 0
      /\ backup' = db
      /\ UNCHANGED <<tx, plist, manifest, db, dirs, job, daemon, installs, faults, unclaimed>>
  BY AbleIs DEF BackupDatabase, Advance, Do, durable, ServiceInv, StateTypes
<1>3. OrderInv' /\ Pops("back_up")
  BY <1>1, Advances DEF ServiceInv
<1>4. /\ Todo = {"back_up"} \cup Todo' /\ "survey" \notin Todo'
      /\ "publish_generation" \notin Todo' /\ "drop_tx" \notin Todo'
      /\ "drop_backup" \notin Todo' /\ "mark" \notin Todo'
      /\ "accept_begin" \notin Todo' /\ "accept_commit" \notin Todo'
      /\ "retire_backup" \notin Todo' /\ "prepare" \notin Todo'
      /\ "remove_generations" \notin Todo' /\ "candidate_durable" \notin Todo'
      /\ "prior_drained" \notin Todo' /\ "restart_prior" \notin Todo'
      /\ "evict" \notin Todo' /\ "back_up" \notin Todo'
      /\ "restore_plist" \notin Todo' /\ "restore_manifest" \notin Todo'
      /\ "remove_plist" \notin Todo' /\ "remove_manifest" \notin Todo'
      /\ "restore" \notin Todo' /\ "retire_tx" \notin Todo'
  BY <1>3, Ranks, MarkNames DEF Pops, After
<1>6. StateTypes'
  <2>1. backup' \in [by : 0 .. MaxInstalls, gen : 0 .. MaxInstalls, carry : BOOLEAN]
    BY <1>2, Fields, NothingTypes, TransactionAssumption DEF ServiceInv, StateTypes, Phases
  <2> QED
    BY <1>1, <1>2, <2>1 DEF ServiceInv, StateTypes
<1>7. CloseInv'
  BY <1>2, <1>4 DEF ServiceInv, CloseInv
<1>8. PhaseInv'
  BY <1>2, <1>4, Fields, NothingFields DEF ServiceInv, CloseInv, PhaseInv
<1>9. PlaceInv'
  BY <1>2, <1>4 DEF ServiceInv, PlaceInv, RollbackFloor, CloseInv
<1>10. RuntimeInv'
  BY <1>2, <1>4 DEF ServiceInv, RuntimeInv
<1>11. TxInv'
  BY <1>2, <1>4, Fields, NothingFields DEF ServiceInv, CloseInv, PhaseInv, PlaceInv, TxInv,
     BackupMatches, Selected, Settled
<1>12. OpenInv'
  BY <1>2, <1>4, Fields, NothingFields DEF ServiceInv, CloseInv, PhaseInv, PlaceInv, TxInv,
     OpenInv, RuntimeInv, Settled
<1>13. RequestInv'
  BY <1>2, <1>4, Fields, NothingFields DEF ServiceInv, CloseInv, PlaceInv, RuntimeInv,
     RequestInv, Desired, Quiet
<1> QED
  BY <1>3, <1>6, <1>7, <1>8, <1>9, <1>10, <1>11, <1>12, <1>13 DEF ServiceInv

\* CommitBackup keeps the invariant.
LEMMA CommitBackupKeeps ==
    ASSUME ServiceInv, CommitBackup
    PROVE  ServiceInv'
<1>1. /\ cli.todo # <<>> /\ Head(cli.todo) = "database_backed_up" /\ cli'.todo = Tail(cli.todo)
      /\ cli' = [todo |-> cli'.todo, loaded |-> cli'.loaded, exact |-> cli'.exact]
      /\ cli'.loaded \in BOOLEAN /\ cli'.exact \in BOOLEAN
  BY DEF CommitBackup, Advance, Do, ServiceInv, StateTypes
<1>2. /\ cli'.exact = cli.exact
      /\ tx' = [tx EXCEPT !.phase = "database_backed_up", !.backedUp = backup # NoDb]
      /\ tx'.phase = "database_backed_up" /\ tx'.cand = tx.cand
      /\ tx'.prior = tx.prior /\ tx'.loaded = tx.loaded
      /\ tx'.backedUp = (backup # NoDb) /\ tx'.restore = tx.restore
      /\ UNCHANGED <<plist, manifest, db, backup, dirs, job, daemon, installs, faults, unclaimed>>
  BY AbleIs DEF CommitBackup, Advance, Do, durable, ServiceInv, StateTypes, NoDb
<1>3. OrderInv' /\ Pops("database_backed_up")
  BY <1>1, Advances DEF ServiceInv
<1>4. /\ Todo = {"database_backed_up"} \cup Todo' /\ "survey" \notin Todo'
      /\ "publish_generation" \notin Todo' /\ "drop_tx" \notin Todo'
      /\ "drop_backup" \notin Todo' /\ "mark" \notin Todo'
      /\ "accept_begin" \notin Todo' /\ "accept_commit" \notin Todo'
      /\ "retire_backup" \notin Todo' /\ "prepare" \notin Todo'
      /\ "remove_generations" \notin Todo' /\ "candidate_durable" \notin Todo'
      /\ "prior_drained" \notin Todo' /\ "database_backed_up" \notin Todo'
      /\ "restart_prior" \notin Todo' /\ "evict" \notin Todo'
      /\ "back_up" \notin Todo' /\ "restore_plist" \notin Todo'
      /\ "restore_manifest" \notin Todo' /\ "remove_plist" \notin Todo'
      /\ "remove_manifest" \notin Todo' /\ "restore" \notin Todo'
      /\ "retire_tx" \notin Todo'
  BY <1>3, Ranks, MarkNames DEF Pops, After
<1>6. StateTypes'
  <2>1. tx' \in [phase : Phases \cup {"none"}, cand : 0 .. MaxInstalls,
               prior : 0 .. MaxInstalls, loaded : BOOLEAN,
               backedUp : BOOLEAN, restore : BOOLEAN]
    BY <1>2, Fields, NothingTypes, TransactionAssumption DEF ServiceInv, StateTypes, Phases
  <2> QED
    BY <1>1, <1>2, <2>1 DEF ServiceInv, StateTypes
<1>7. CloseInv'
  BY <1>2, <1>4 DEF ServiceInv, CloseInv
<1>8. PhaseInv'
  BY <1>2, <1>4, Fields, NothingFields DEF ServiceInv, CloseInv, PhaseInv
<1>9. PlaceInv'
  BY <1>2, <1>4, Fields, NothingFields DEF ServiceInv, CloseInv, PhaseInv, PlaceInv,
     RollbackFloor
<1>10. RuntimeInv'
  BY <1>2, <1>4 DEF ServiceInv, RuntimeInv
<1>11. TxInv'
  BY <1>2, <1>4, Fields, NothingFields DEF ServiceInv, CloseInv, PhaseInv, PlaceInv, TxInv,
     BackupMatches, Selected, Settled
<1>12. OpenInv'
  BY <1>2, <1>4, Fields, NothingFields DEF ServiceInv, CloseInv, PhaseInv, PlaceInv, TxInv,
     OpenInv, RuntimeInv, Settled
<1>13. RequestInv'
  BY <1>2, <1>4 DEF ServiceInv, RequestInv, Desired, Quiet, CloseInv
<1> QED
  BY <1>3, <1>6, <1>7, <1>8, <1>9, <1>10, <1>11, <1>12, <1>13 DEF ServiceInv

\* The plist of the candidate is published: the invariant holds after it.
LEMMA SelectPlistKeeps ==
    ASSUME ServiceInv, WritePlist("select_plist", tx.cand)
    PROVE  ServiceInv'
<1>1. /\ cli.todo # <<>> /\ Head(cli.todo) = "select_plist" /\ cli'.todo = Tail(cli.todo)
      /\ cli' = [todo |-> cli'.todo, loaded |-> cli'.loaded, exact |-> cli'.exact]
      /\ cli'.loaded \in BOOLEAN /\ cli'.exact \in BOOLEAN
  BY DEF WritePlist, Advance, Do, ServiceInv, StateTypes
<1>2. /\ cli'.exact = cli.exact
      /\ plist' = tx.cand
      /\ UNCHANGED <<tx, manifest, db, backup, dirs, job, daemon, installs, faults, unclaimed>>
  BY AbleIs DEF WritePlist, Advance, Do, durable, ServiceInv, StateTypes
<1>3. OrderInv' /\ Pops("select_plist")
  BY <1>1, Advances DEF ServiceInv
<1>4. /\ Todo = {"select_plist"} \cup Todo' /\ "survey" \notin Todo'
      /\ "publish_generation" \notin Todo' /\ "select_plist" \notin Todo'
      /\ "drop_tx" \notin Todo' /\ "drop_backup" \notin Todo' /\ "mark" \notin Todo'
      /\ "accept_begin" \notin Todo' /\ "accept_commit" \notin Todo'
      /\ "retire_backup" \notin Todo' /\ "prepare" \notin Todo'
      /\ "remove_generations" \notin Todo' /\ "candidate_durable" \notin Todo'
      /\ "prior_drained" \notin Todo' /\ "database_backed_up" \notin Todo'
      /\ "restart_prior" \notin Todo' /\ "evict" \notin Todo'
      /\ "back_up" \notin Todo' /\ "restore_plist" \notin Todo'
      /\ "restore_manifest" \notin Todo' /\ "remove_plist" \notin Todo'
      /\ "remove_manifest" \notin Todo' /\ "restore" \notin Todo'
      /\ "retire_tx" \notin Todo'
  BY <1>3, Ranks, MarkNames DEF Pops, After
<1>6. StateTypes'
  <2>1. plist' \in 0 .. MaxInstalls
    BY <1>2, Fields, NothingTypes, TransactionAssumption DEF ServiceInv, StateTypes, Phases
  <2> QED
    BY <1>1, <1>2, <2>1 DEF ServiceInv, StateTypes
<1>7. CloseInv'
  BY <1>2, <1>4 DEF ServiceInv, CloseInv
<1>8. PhaseInv'
  BY <1>2, <1>4 DEF ServiceInv, PhaseInv, CloseInv
<1>9. PlaceInv'
  BY <1>2, <1>4, Fields, NothingFields DEF ServiceInv, CloseInv, PhaseInv, PlaceInv,
     RollbackFloor
<1>10. RuntimeInv'
  BY <1>2, <1>4, Fields, NothingFields DEF ServiceInv, CloseInv, RuntimeInv, PlaceInv
<1>11. TxInv'
  BY <1>2, <1>4, Fields, NothingFields DEF ServiceInv, CloseInv, PhaseInv, PlaceInv, TxInv,
     BackupMatches, Selected, Settled
<1>12. OpenInv'
  BY <1>2, <1>4, Fields, NothingFields DEF ServiceInv, CloseInv, PhaseInv, PlaceInv, TxInv,
     OpenInv, RuntimeInv, Settled
<1>13. RequestInv'
  BY <1>2, <1>4 DEF ServiceInv, RequestInv, Desired, Quiet, CloseInv
<1> QED
  BY <1>3, <1>6, <1>7, <1>8, <1>9, <1>10, <1>11, <1>12, <1>13 DEF ServiceInv

\* The manifest of the candidate is published: the invariant holds after it.
LEMMA SelectManifestKeeps ==
    ASSUME ServiceInv, WriteManifest("select_manifest", [gen |-> tx.cand, mode |-> "report_only"])
    PROVE  ServiceInv'
<1>1. /\ cli.todo # <<>> /\ Head(cli.todo) = "select_manifest" /\ cli'.todo = Tail(cli.todo)
      /\ cli' = [todo |-> cli'.todo, loaded |-> cli'.loaded, exact |-> cli'.exact]
      /\ cli'.loaded \in BOOLEAN /\ cli'.exact \in BOOLEAN
  BY DEF WriteManifest, Advance, Do, ServiceInv, StateTypes
<1>2. /\ cli'.exact = cli.exact
      /\ manifest' = [gen |-> tx.cand, mode |-> "report_only"]
      /\ manifest'.gen = tx.cand /\ manifest'.mode = "report_only"
      /\ UNCHANGED <<tx, plist, db, backup, dirs, job, daemon, installs, faults, unclaimed>>
  BY AbleIs DEF WriteManifest, Advance, Do, durable, ServiceInv, StateTypes
<1>3. OrderInv' /\ Pops("select_manifest")
  BY <1>1, Advances DEF ServiceInv
<1>4. /\ Todo = {"select_manifest"} \cup Todo' /\ "survey" \notin Todo'
      /\ "publish_generation" \notin Todo' /\ "select_plist" \notin Todo'
      /\ "select_manifest" \notin Todo' /\ "emergency_stop" \notin Todo'
      /\ "drop_tx" \notin Todo' /\ "drop_backup" \notin Todo' /\ "mark" \notin Todo'
      /\ "accept_begin" \notin Todo' /\ "accept_commit" \notin Todo'
      /\ "retire_backup" \notin Todo' /\ "prepare" \notin Todo'
      /\ "remove_generations" \notin Todo' /\ "candidate_durable" \notin Todo'
      /\ "prior_drained" \notin Todo' /\ "database_backed_up" \notin Todo'
      /\ "restart_prior" \notin Todo' /\ "evict" \notin Todo'
      /\ "back_up" \notin Todo' /\ "restore_plist" \notin Todo'
      /\ "restore_manifest" \notin Todo' /\ "remove_plist" \notin Todo'
      /\ "remove_manifest" \notin Todo' /\ "restore" \notin Todo'
      /\ "retire_tx" \notin Todo'
  BY <1>3, Ranks, MarkNames DEF Pops, After
<1>6. StateTypes'
  <2>1. manifest' \in [gen : 0 .. MaxInstalls, mode : {"report_only", "enforce"}]
    BY <1>2, Fields, NothingTypes, TransactionAssumption DEF ServiceInv, StateTypes, Phases
  <2> QED
    BY <1>1, <1>2, <2>1 DEF ServiceInv, StateTypes
<1>7. CloseInv'
  BY <1>2, <1>4 DEF ServiceInv, CloseInv
<1>8. PhaseInv'
  BY <1>2, <1>4 DEF ServiceInv, PhaseInv, CloseInv
<1>9. PlaceInv'
  BY <1>2, <1>4, Fields, NothingFields DEF ServiceInv, CloseInv, PhaseInv, PlaceInv,
     RollbackFloor
<1>10. RuntimeInv'
  BY <1>2, <1>4 DEF ServiceInv, RuntimeInv
<1>11. TxInv'
  BY <1>2, <1>4, Fields, NothingFields DEF ServiceInv, CloseInv, PhaseInv, PlaceInv, TxInv,
     BackupMatches, Selected, Settled
<1>12. OpenInv'
  BY <1>2, <1>4 DEF ServiceInv, OpenInv, CloseInv
<1>13. RequestInv'
  BY <1>2, <1>4, Fields, NothingFields DEF ServiceInv, CloseInv, PlaceInv, RuntimeInv,
     RequestInv, Desired, Quiet
<1> QED
  BY <1>3, <1>6, <1>7, <1>8, <1>9, <1>10, <1>11, <1>12, <1>13 DEF ServiceInv

\* The rollback is marked in the transaction file: the invariant holds after it.
LEMMA MarkKeeps ==
    ASSUME ServiceInv, MarkRollbackInProgress
    PROVE  ServiceInv'
<1>1. /\ cli.todo # <<>> /\ Head(cli.todo) = "mark" /\ cli'.todo = Tail(cli.todo)
      /\ cli' = [todo |-> cli'.todo, loaded |-> cli'.loaded, exact |-> cli'.exact]
      /\ cli'.loaded \in BOOLEAN /\ cli'.exact \in BOOLEAN
  BY DEF MarkRollbackInProgress, Advance, Do, ServiceInv, StateTypes
<1>2. /\ cli'.exact = cli.exact /\ RollbackValid
      /\ tx' = [tx EXCEPT !.phase = "rollback_in_progress",
                      !.restore = tx.restore \/ CandidateDatabaseMayHaveChanged(tx.phase)]
      /\ tx'.phase = "rollback_in_progress" /\ tx'.cand = tx.cand
      /\ tx'.prior = tx.prior /\ tx'.loaded = tx.loaded /\ tx'.backedUp = tx.backedUp
      /\ tx'.restore = (tx.restore \/ CandidateDatabaseMayHaveChanged(tx.phase))
      /\ UNCHANGED <<plist, manifest, db, backup, dirs, job, daemon, installs, faults, unclaimed>>
  BY AbleIs DEF MarkRollbackInProgress, Advance, Do, durable, ServiceInv, StateTypes
<1>3. OrderInv' /\ Pops("mark")
  BY <1>1, Advances DEF ServiceInv
<1>4. /\ Todo = {"mark"} \cup Todo' /\ "mark" \notin Todo'
      /\ "accept_begin" \notin Todo' /\ "accept_commit" \notin Todo'
      /\ "retire_backup" \notin Todo' /\ "retire_tx" \notin Todo'
  BY <1>3, Ranks, MarkNames DEF Pops, After
<1>6. StateTypes'
  <2>1. tx' \in [phase : Phases \cup {"none"}, cand : 0 .. MaxInstalls,
               prior : 0 .. MaxInstalls, loaded : BOOLEAN,
               backedUp : BOOLEAN, restore : BOOLEAN]
    BY <1>2, Fields, NothingTypes, TransactionAssumption DEF ServiceInv, StateTypes, Phases
  <2> QED
    BY <1>1, <1>2, <2>1 DEF ServiceInv, StateTypes
<1>7. CloseInv'
  BY <1>2, <1>4 DEF ServiceInv, CloseInv
<1>8. PhaseInv'
  BY <1>2, <1>4, Fields, NothingFields DEF ServiceInv, CloseInv, PhaseInv
<1>9. PlaceInv'
  BY <1>2, <1>4, Fields, NothingFields DEF ServiceInv, CloseInv, PhaseInv, PlaceInv,
     RollbackFloor
<1>10. RuntimeInv'
  BY <1>2, <1>4 DEF ServiceInv, RuntimeInv
<1>11. TxInv'
  BY <1>2, <1>4, Fields, NothingFields DEF ServiceInv, CloseInv, PhaseInv, PlaceInv, TxInv,
     BackupMatches, Selected, Settled, RollbackValid, CandidateDatabaseMayHaveChanged,
     Phases
<1>12. OpenInv'
  BY <1>2, <1>4, Fields, NothingFields DEF ServiceInv, CloseInv, PhaseInv, PlaceInv, TxInv,
     OpenInv, RuntimeInv, Settled
<1>13. RequestInv'
  BY <1>2, <1>4 DEF ServiceInv, RequestInv, Desired, Quiet, CloseInv
<1> QED
  BY <1>3, <1>6, <1>7, <1>8, <1>9, <1>10, <1>11, <1>12, <1>13 DEF ServiceInv

\* Evict keeps the invariant.
LEMMA EvictKeeps ==
    ASSUME ServiceInv, Evict
    PROVE  ServiceInv'
<1>1. /\ cli.todo # <<>> /\ Head(cli.todo) = "evict" /\ cli'.todo = Tail(cli.todo)
      /\ cli' = [todo |-> cli'.todo, loaded |-> cli'.loaded, exact |-> cli'.exact]
      /\ cli'.loaded \in BOOLEAN /\ cli'.exact \in BOOLEAN
  BY DEF Evict, Advance, Do, ServiceInv, StateTypes
<1>2. /\ cli'.exact = cli.exact /\ job = 0
      /\ db' = (IF tx.restore THEN NoDb ELSE db)
      /\ backup' = (IF tx.restore THEN backup ELSE NoDb)
      /\ UNCHANGED <<tx, plist, manifest, dirs, job, daemon, installs, faults, unclaimed>>
  BY AbleIs DEF Evict, Advance, Do, durable, ServiceInv, StateTypes, NoDb
<1>3. OrderInv' /\ Pops("evict")
  BY <1>1, Advances DEF ServiceInv
<1>4. /\ Todo = {"evict"} \cup Todo' /\ "mark" \notin Todo'
      /\ "accept_begin" \notin Todo' /\ "accept_commit" \notin Todo'
      /\ "retire_backup" \notin Todo' /\ "evict" \notin Todo'
      /\ "retire_tx" \notin Todo'
  BY <1>3, Ranks, MarkNames DEF Pops, After
<1>6. StateTypes'
  <2>1. db' \in [by : 0 .. MaxInstalls, gen : 0 .. MaxInstalls, carry : BOOLEAN]
    BY <1>2, Fields, NothingTypes, TransactionAssumption DEF ServiceInv, StateTypes, Phases
  <2>2. backup' \in [by : 0 .. MaxInstalls, gen : 0 .. MaxInstalls, carry : BOOLEAN]
    BY <1>2, Fields, NothingTypes, TransactionAssumption DEF ServiceInv, StateTypes, Phases
  <2> QED
    BY <1>1, <1>2, <2>1, <2>2 DEF ServiceInv, StateTypes
<1>7. CloseInv'
  BY <1>2, <1>4 DEF ServiceInv, CloseInv
<1>8. PhaseInv'
  BY <1>2, <1>4, Fields, NothingFields DEF ServiceInv, CloseInv, PhaseInv
<1>9. PlaceInv'
  BY <1>2, <1>4 DEF ServiceInv, PlaceInv, RollbackFloor, CloseInv
<1>10. RuntimeInv'
  BY <1>2, <1>4, Fields, NothingFields DEF ServiceInv, CloseInv, RuntimeInv, PlaceInv
<1>11. TxInv'
  BY <1>2, <1>4, Fields, NothingFields DEF ServiceInv, CloseInv, PhaseInv, PlaceInv, TxInv,
     BackupMatches, Selected, Settled, Generations
<1>12. OpenInv'
  BY <1>2, <1>4, Fields, NothingFields DEF ServiceInv, CloseInv, PhaseInv, PlaceInv, TxInv,
     OpenInv, RuntimeInv, Settled, Generations
<1>13. RequestInv'
  BY <1>2, <1>4, Fields, NothingFields DEF ServiceInv, CloseInv, PlaceInv, RuntimeInv,
     RequestInv, Desired, Quiet
<1> QED
  BY <1>3, <1>6, <1>7, <1>8, <1>9, <1>10, <1>11, <1>12, <1>13 DEF ServiceInv

\* RestoreDatabase keeps the invariant.
LEMMA RestoreDatabaseKeeps ==
    ASSUME ServiceInv, RestoreDatabase
    PROVE  ServiceInv'
<1>1. /\ cli.todo # <<>> /\ Head(cli.todo) = "restore" /\ cli'.todo = Tail(cli.todo)
      /\ cli' = [todo |-> cli'.todo, loaded |-> cli'.loaded, exact |-> cli'.exact]
      /\ cli'.loaded \in BOOLEAN /\ cli'.exact \in BOOLEAN
  BY DEF RestoreDatabase, Advance, Do, ServiceInv, StateTypes
<1>2. /\ cli'.exact = cli.exact /\ job = 0
      /\ db' = (IF tx.restore /\ tx.backedUp THEN backup ELSE db)
      /\ UNCHANGED <<tx, plist, manifest, backup, dirs, job, daemon, installs, faults, unclaimed>>
  BY AbleIs DEF RestoreDatabase, Advance, Do, durable, ServiceInv, StateTypes
<1>3. OrderInv' /\ Pops("restore")
  BY <1>1, Advances DEF ServiceInv
<1>4. /\ Todo = {"restore"} \cup Todo' /\ "mark" \notin Todo'
      /\ "accept_begin" \notin Todo' /\ "accept_commit" \notin Todo'
      /\ "retire_backup" \notin Todo' /\ "evict" \notin Todo'
      /\ "restore" \notin Todo' /\ "retire_tx" \notin Todo'
  BY <1>3, Ranks, MarkNames DEF Pops, After
<1>6. StateTypes'
  <2>1. db' \in [by : 0 .. MaxInstalls, gen : 0 .. MaxInstalls, carry : BOOLEAN]
    BY <1>2, Fields, NothingTypes, TransactionAssumption DEF ServiceInv, StateTypes, Phases
  <2> QED
    BY <1>1, <1>2, <2>1 DEF ServiceInv, StateTypes
<1>7. CloseInv'
  BY <1>2, <1>4 DEF ServiceInv, CloseInv
<1>8. PhaseInv'
  BY <1>2, <1>4 DEF ServiceInv, PhaseInv, CloseInv
<1>9. PlaceInv'
  BY <1>2, <1>4 DEF ServiceInv, PlaceInv, RollbackFloor, CloseInv
<1>10. RuntimeInv'
  BY <1>2, <1>4, Fields, NothingFields DEF ServiceInv, CloseInv, RuntimeInv, PlaceInv
<1>11. TxInv'
  BY <1>2, <1>4, Fields, NothingFields DEF ServiceInv, CloseInv, PhaseInv, PlaceInv, TxInv,
     BackupMatches, Selected, Settled, Generations
<1>12. OpenInv'
  BY <1>2, <1>4, Fields, NothingFields DEF ServiceInv, CloseInv, PhaseInv, PlaceInv, TxInv,
     OpenInv, RuntimeInv, Settled, Generations
<1>13. RequestInv'
  BY <1>2, <1>4, Fields, NothingFields DEF ServiceInv, CloseInv, PlaceInv, RuntimeInv,
     RequestInv, Desired, Quiet
<1> QED
  BY <1>3, <1>6, <1>7, <1>8, <1>9, <1>10, <1>11, <1>12, <1>13 DEF ServiceInv

\* The plist of the prior generation comes back: the invariant holds after it.
LEMMA RestorePlistKeeps ==
    ASSUME ServiceInv, WritePlist("restore_plist", tx.prior)
    PROVE  ServiceInv'
<1>1. /\ cli.todo # <<>> /\ Head(cli.todo) = "restore_plist" /\ cli'.todo = Tail(cli.todo)
      /\ cli' = [todo |-> cli'.todo, loaded |-> cli'.loaded, exact |-> cli'.exact]
      /\ cli'.loaded \in BOOLEAN /\ cli'.exact \in BOOLEAN
  BY DEF WritePlist, Advance, Do, ServiceInv, StateTypes
<1>2. /\ cli'.exact = cli.exact
      /\ plist' = tx.prior
      /\ UNCHANGED <<tx, manifest, db, backup, dirs, job, daemon, installs, faults, unclaimed>>
  BY AbleIs DEF WritePlist, Advance, Do, durable, ServiceInv, StateTypes
<1>3. OrderInv' /\ Pops("restore_plist")
  BY <1>1, Advances DEF ServiceInv
<1>4. /\ Todo = {"restore_plist"} \cup Todo' /\ "mark" \notin Todo'
      /\ "accept_begin" \notin Todo' /\ "accept_commit" \notin Todo'
      /\ "retire_backup" \notin Todo' /\ "evict" \notin Todo'
      /\ "restore_plist" \notin Todo' /\ "restore" \notin Todo'
      /\ "retire_tx" \notin Todo'
  BY <1>3, Ranks, MarkNames DEF Pops, After
<1>6. StateTypes'
  <2>1. plist' \in 0 .. MaxInstalls
    BY <1>2, Fields, NothingTypes, TransactionAssumption DEF ServiceInv, StateTypes, Phases
  <2> QED
    BY <1>1, <1>2, <2>1 DEF ServiceInv, StateTypes
<1>7. CloseInv'
  BY <1>2, <1>4 DEF ServiceInv, CloseInv
<1>8. PhaseInv'
  BY <1>2, <1>4 DEF ServiceInv, PhaseInv, CloseInv
<1>9. PlaceInv'
  BY <1>2, <1>4, Fields, NothingFields DEF ServiceInv, CloseInv, PhaseInv, PlaceInv,
     RollbackFloor
<1>10. RuntimeInv'
  BY <1>2, <1>4, Fields, NothingFields DEF ServiceInv, CloseInv, RuntimeInv, PlaceInv
<1>11. TxInv'
  BY <1>2, <1>4, Fields, NothingFields DEF ServiceInv, CloseInv, PhaseInv, PlaceInv, TxInv,
     BackupMatches, Selected, Settled, Generations
<1>12. OpenInv'
  BY <1>2, <1>4, Fields, NothingFields DEF ServiceInv, CloseInv, PhaseInv, PlaceInv, TxInv,
     OpenInv, RuntimeInv, Settled, Generations
<1>13. RequestInv'
  BY <1>2, <1>4 DEF ServiceInv, RequestInv, Desired, Quiet, CloseInv
<1> QED
  BY <1>3, <1>6, <1>7, <1>8, <1>9, <1>10, <1>11, <1>12, <1>13 DEF ServiceInv

\* The report-only manifest of the prior generation comes back: the invariant holds after it.
LEMMA RestoreManifestKeeps ==
    ASSUME ServiceInv, WriteManifest("restore_manifest", RollbackFloor)
    PROVE  ServiceInv'
<1>1. /\ cli.todo # <<>> /\ Head(cli.todo) = "restore_manifest" /\ cli'.todo = Tail(cli.todo)
      /\ cli' = [todo |-> cli'.todo, loaded |-> cli'.loaded, exact |-> cli'.exact]
      /\ cli'.loaded \in BOOLEAN /\ cli'.exact \in BOOLEAN
  BY DEF WriteManifest, Advance, Do, ServiceInv, StateTypes
<1>2. /\ cli'.exact = cli.exact
      /\ manifest' = RollbackFloor
      /\ UNCHANGED <<tx, plist, db, backup, dirs, job, daemon, installs, faults, unclaimed>>
  BY AbleIs DEF WriteManifest, Advance, Do, durable, ServiceInv, StateTypes, NoTx, NoDb,
     NoDaemon, NoManifest
<1>3. OrderInv' /\ Pops("restore_manifest")
  BY <1>1, Advances DEF ServiceInv
<1>4. /\ Todo = {"restore_manifest"} \cup Todo' /\ "mark" \notin Todo'
      /\ "accept_begin" \notin Todo' /\ "accept_commit" \notin Todo'
      /\ "retire_backup" \notin Todo' /\ "evict" \notin Todo'
      /\ "restore_plist" \notin Todo' /\ "restore_manifest" \notin Todo'
      /\ "restore" \notin Todo' /\ "retire_tx" \notin Todo'
  BY <1>3, Ranks, MarkNames DEF Pops, After
<1>5. manifest'.gen = tx.prior /\ manifest'.mode = "report_only"
  BY <1>2 DEF RollbackFloor, NoManifest
<1>6. StateTypes'
  <2>1. manifest' \in [gen : 0 .. MaxInstalls, mode : {"report_only", "enforce"}]
    BY <1>2, <1>5, Fields, NothingTypes, TransactionAssumption DEF ServiceInv, StateTypes,
       Phases, HoldsRequest, RollbackFloor
  <2> QED
    BY <1>1, <1>2, <2>1 DEF ServiceInv, StateTypes
<1>7. CloseInv'
  BY <1>2, <1>4, <1>5 DEF ServiceInv, CloseInv
<1>8. PhaseInv'
  BY <1>2, <1>4, <1>5 DEF ServiceInv, PhaseInv, CloseInv
<1>9. PlaceInv'
  BY <1>2, <1>4, <1>5, Fields, NothingFields DEF ServiceInv, CloseInv, PhaseInv, PlaceInv,
     RollbackFloor
<1>10. RuntimeInv'
  BY <1>2, <1>4, <1>5 DEF ServiceInv, RuntimeInv
<1>11. TxInv'
  BY <1>2, <1>4, <1>5, Fields, NothingFields DEF ServiceInv, CloseInv, PhaseInv, PlaceInv,
     TxInv, BackupMatches, Selected, Settled
<1>12. OpenInv'
  BY <1>2, <1>4, <1>5 DEF ServiceInv, OpenInv, CloseInv
<1>13. RequestInv'
  BY <1>2, <1>4, <1>5, Fields, NothingFields DEF ServiceInv, CloseInv, PlaceInv, RuntimeInv,
     RequestInv, Desired, Quiet
<1> QED
  BY <1>3, <1>6, <1>7, <1>8, <1>9, <1>10, <1>11, <1>12, <1>13 DEF ServiceInv

\* The rolled-back transaction file is removed: the invariant holds after it.
LEMMA DropTxKeeps ==
    ASSUME ServiceInv, RemoveTransaction("drop_tx")
    PROVE  ServiceInv'
<1>1. /\ cli.todo # <<>> /\ Head(cli.todo) = "drop_tx" /\ cli'.todo = Tail(cli.todo)
      /\ cli' = [todo |-> cli'.todo, loaded |-> cli'.loaded, exact |-> cli'.exact]
      /\ cli'.loaded \in BOOLEAN /\ cli'.exact \in BOOLEAN
  BY DEF RemoveTransaction, Advance, Do, ServiceInv, StateTypes
<1>2. /\ cli'.exact = cli.exact
      /\ tx' = NoTx
      /\ UNCHANGED <<plist, manifest, db, backup, dirs, job, daemon, installs, faults, unclaimed>>
  BY AbleIs DEF RemoveTransaction, Advance, Do, durable, ServiceInv, StateTypes, NoTx
<1>3. OrderInv' /\ Pops("drop_tx")
  BY <1>1, Advances DEF ServiceInv
<1>4. /\ Todo = {"drop_tx"} \cup Todo' /\ "drop_tx" \notin Todo'
      /\ "mark" \notin Todo' /\ "accept_begin" \notin Todo'
      /\ "accept_commit" \notin Todo' /\ "retire_backup" \notin Todo'
      /\ "restart_prior" \notin Todo' /\ "evict" \notin Todo'
      /\ "restore_plist" \notin Todo' /\ "restore_manifest" \notin Todo'
      /\ "restore" \notin Todo' /\ "retire_tx" \notin Todo'
  BY <1>3, Ranks, MarkNames DEF Pops, After
<1>6. StateTypes'
  <2>1. tx' \in [phase : Phases \cup {"none"}, cand : 0 .. MaxInstalls,
               prior : 0 .. MaxInstalls, loaded : BOOLEAN,
               backedUp : BOOLEAN, restore : BOOLEAN]
    BY <1>2, Fields, NothingTypes, TransactionAssumption DEF ServiceInv, StateTypes, Phases
  <2> QED
    BY <1>1, <1>2, <2>1 DEF ServiceInv, StateTypes
<1>7. CloseInv'
  BY <1>2, <1>4 DEF ServiceInv, CloseInv
<1>8. PhaseInv'
  BY <1>2, <1>4, Fields, NothingFields DEF ServiceInv, CloseInv, PhaseInv
<1>9. PlaceInv'
  BY <1>2, <1>4, Fields, NothingFields DEF ServiceInv, CloseInv, PhaseInv, PlaceInv,
     RollbackFloor
<1>10. RuntimeInv'
  BY <1>2, <1>4 DEF ServiceInv, RuntimeInv
<1>11. TxInv'
  BY <1>2, <1>4, Fields, NothingFields DEF ServiceInv, CloseInv, PhaseInv, PlaceInv, TxInv,
     BackupMatches, Selected, Settled, RollbackFloor
<1>12. OpenInv'
  BY <1>2, <1>4, Fields, NothingFields DEF ServiceInv, CloseInv, PhaseInv, PlaceInv, TxInv,
     OpenInv, RuntimeInv, Settled
<1>13. RequestInv'
  BY <1>2, <1>4 DEF ServiceInv, RequestInv, Desired, Quiet, CloseInv
<1> QED
  BY <1>3, <1>6, <1>7, <1>8, <1>9, <1>10, <1>11, <1>12, <1>13 DEF ServiceInv

\* The accepted transaction file is removed: the invariant holds after it.
LEMMA RetireTxKeeps ==
    ASSUME ServiceInv, RemoveTransaction("retire_tx")
    PROVE  ServiceInv'
<1>1. /\ cli.todo # <<>> /\ Head(cli.todo) = "retire_tx" /\ cli'.todo = Tail(cli.todo)
      /\ cli' = [todo |-> cli'.todo, loaded |-> cli'.loaded, exact |-> cli'.exact]
      /\ cli'.loaded \in BOOLEAN /\ cli'.exact \in BOOLEAN
  BY DEF RemoveTransaction, Advance, Do, ServiceInv, StateTypes
<1>2. /\ cli'.exact = cli.exact
      /\ tx' = NoTx
      /\ UNCHANGED <<plist, manifest, db, backup, dirs, job, daemon, installs, faults, unclaimed>>
  BY AbleIs DEF RemoveTransaction, Advance, Do, durable, ServiceInv, StateTypes, NoTx
<1>3. OrderInv' /\ Pops("retire_tx")
  BY <1>1, Advances DEF ServiceInv
<1>4. /\ Todo = {"retire_tx"} \cup Todo' /\ "accept_begin" \notin Todo'
      /\ "accept_commit" \notin Todo' /\ "retire_backup" \notin Todo'
      /\ "retire_tx" \notin Todo'
  BY <1>3, Ranks, MarkNames DEF Pops, After
<1>5. "remove_generations" \in Todo' => "bootout" \in Todo'
  BY <1>1, StopsFirst DEF ServiceInv
<1>6. StateTypes'
  <2>1. tx' \in [phase : Phases \cup {"none"}, cand : 0 .. MaxInstalls,
               prior : 0 .. MaxInstalls, loaded : BOOLEAN,
               backedUp : BOOLEAN, restore : BOOLEAN]
    BY <1>2, Fields, NothingTypes, TransactionAssumption DEF ServiceInv, StateTypes, Phases
  <2> QED
    BY <1>1, <1>2, <2>1 DEF ServiceInv, StateTypes
<1>7. CloseInv'
  BY <1>2, <1>4, <1>5 DEF ServiceInv, CloseInv
<1>8. PhaseInv'
  BY <1>2, <1>4, <1>5, Fields, NothingFields DEF ServiceInv, CloseInv, PhaseInv
<1>9. PlaceInv'
  BY <1>2, <1>4, <1>5, Fields, NothingFields DEF ServiceInv, CloseInv, PhaseInv, PlaceInv,
     RollbackFloor
<1>10. RuntimeInv'
  BY <1>2, <1>4, <1>5 DEF ServiceInv, RuntimeInv
<1>11. TxInv'
  BY <1>2, <1>4, <1>5, Fields, NothingFields DEF ServiceInv, CloseInv, PhaseInv, PlaceInv,
     TxInv, BackupMatches, Selected, Settled
<1>12. OpenInv'
  BY <1>2, <1>4, <1>5, Fields, NothingFields DEF ServiceInv, CloseInv, PhaseInv, PlaceInv,
     TxInv, OpenInv, RuntimeInv, Settled
<1>13. RequestInv'
  BY <1>2, <1>4, <1>5 DEF ServiceInv, RequestInv, Desired, Quiet, CloseInv
<1> QED
  BY <1>3, <1>6, <1>7, <1>8, <1>9, <1>10, <1>11, <1>12, <1>13 DEF ServiceInv

\* The backup of a rolled-back transaction is removed: the invariant holds after it.
LEMMA DropBackupKeeps ==
    ASSUME ServiceInv, RemoveBackup("drop_backup")
    PROVE  ServiceInv'
<1>1. /\ cli.todo # <<>> /\ Head(cli.todo) = "drop_backup" /\ cli'.todo = Tail(cli.todo)
      /\ cli' = [todo |-> cli'.todo, loaded |-> cli'.loaded, exact |-> cli'.exact]
      /\ cli'.loaded \in BOOLEAN /\ cli'.exact \in BOOLEAN
  BY DEF RemoveBackup, Advance, Do, ServiceInv, StateTypes
<1>2. /\ cli'.exact = cli.exact
      /\ backup' = NoDb
      /\ UNCHANGED <<tx, plist, manifest, db, dirs, job, daemon, installs, faults, unclaimed>>
  BY AbleIs DEF RemoveBackup, Advance, Do, durable, ServiceInv, StateTypes, NoDb
<1>3. OrderInv' /\ Pops("drop_backup")
  BY <1>1, Advances DEF ServiceInv
<1>4. /\ Todo = {"drop_backup"} \cup Todo' /\ "drop_tx" \notin Todo'
      /\ "drop_backup" \notin Todo' /\ "mark" \notin Todo'
      /\ "accept_begin" \notin Todo' /\ "accept_commit" \notin Todo'
      /\ "retire_backup" \notin Todo' /\ "restart_prior" \notin Todo'
      /\ "evict" \notin Todo' /\ "restore_plist" \notin Todo'
      /\ "restore_manifest" \notin Todo' /\ "restore" \notin Todo'
      /\ "retire_tx" \notin Todo'
  BY <1>3, Ranks, MarkNames DEF Pops, After
<1>5. "remove_generations" \in Todo' => "bootout" \in Todo'
  BY <1>1, StopsFirst DEF ServiceInv
<1>6. StateTypes'
  <2>1. backup' \in [by : 0 .. MaxInstalls, gen : 0 .. MaxInstalls, carry : BOOLEAN]
    BY <1>2, Fields, NothingTypes, TransactionAssumption DEF ServiceInv, StateTypes, Phases
  <2> QED
    BY <1>1, <1>2, <2>1 DEF ServiceInv, StateTypes
<1>7. CloseInv'
  BY <1>2, <1>4, <1>5 DEF ServiceInv, CloseInv
<1>8. PhaseInv'
  BY <1>2, <1>4, <1>5, Fields, NothingFields DEF ServiceInv, CloseInv, PhaseInv
<1>9. PlaceInv'
  BY <1>2, <1>4, <1>5 DEF ServiceInv, PlaceInv, RollbackFloor, CloseInv
<1>10. RuntimeInv'
  BY <1>2, <1>4, <1>5 DEF ServiceInv, RuntimeInv
<1>11. TxInv'
  BY <1>2, <1>4, <1>5, Fields, NothingFields DEF ServiceInv, CloseInv, PhaseInv, PlaceInv,
     TxInv, BackupMatches, Selected, Settled
<1>12. OpenInv'
  BY <1>2, <1>4, <1>5, Fields, NothingFields DEF ServiceInv, CloseInv, PhaseInv, PlaceInv,
     TxInv, OpenInv, RuntimeInv, Settled
<1>13. RequestInv'
  BY <1>2, <1>4, <1>5, Fields, NothingFields DEF ServiceInv, CloseInv, PlaceInv, RuntimeInv,
     RequestInv, Desired, Quiet
<1> QED
  BY <1>3, <1>6, <1>7, <1>8, <1>9, <1>10, <1>11, <1>12, <1>13 DEF ServiceInv

\* The backup of an accepted transaction is removed: the invariant holds after it.
LEMMA RetireBackupKeeps ==
    ASSUME ServiceInv, RemoveBackup("retire_backup")
    PROVE  ServiceInv'
<1>1. /\ cli.todo # <<>> /\ Head(cli.todo) = "retire_backup" /\ cli'.todo = Tail(cli.todo)
      /\ cli' = [todo |-> cli'.todo, loaded |-> cli'.loaded, exact |-> cli'.exact]
      /\ cli'.loaded \in BOOLEAN /\ cli'.exact \in BOOLEAN
  BY DEF RemoveBackup, Advance, Do, ServiceInv, StateTypes
<1>2. /\ cli'.exact = cli.exact
      /\ backup' = NoDb
      /\ UNCHANGED <<tx, plist, manifest, db, dirs, job, daemon, installs, faults, unclaimed>>
  BY AbleIs DEF RemoveBackup, Advance, Do, durable, ServiceInv, StateTypes, NoDb
<1>3. OrderInv' /\ Pops("retire_backup")
  BY <1>1, Advances DEF ServiceInv
<1>4. /\ Todo = {"retire_backup"} \cup Todo' /\ "accept_begin" \notin Todo'
      /\ "accept_commit" \notin Todo' /\ "retire_backup" \notin Todo'
  BY <1>3, Ranks, MarkNames DEF Pops, After
<1>6. StateTypes'
  <2>1. backup' \in [by : 0 .. MaxInstalls, gen : 0 .. MaxInstalls, carry : BOOLEAN]
    BY <1>2, Fields, NothingTypes, TransactionAssumption DEF ServiceInv, StateTypes, Phases
  <2> QED
    BY <1>1, <1>2, <2>1 DEF ServiceInv, StateTypes
<1>7. CloseInv'
  BY <1>2, <1>4 DEF ServiceInv, CloseInv
<1>8. PhaseInv'
  BY <1>2, <1>4, Fields, NothingFields DEF ServiceInv, CloseInv, PhaseInv
<1>9. PlaceInv'
  BY <1>2, <1>4 DEF ServiceInv, PlaceInv, RollbackFloor, CloseInv
<1>10. RuntimeInv'
  BY <1>2, <1>4 DEF ServiceInv, RuntimeInv
<1>11. TxInv'
  BY <1>2, <1>4, Fields, NothingFields DEF ServiceInv, CloseInv, PhaseInv, PlaceInv, TxInv,
     BackupMatches, Selected, Settled
<1>12. OpenInv'
  BY <1>2, <1>4, Fields, NothingFields DEF ServiceInv, CloseInv, PhaseInv, PlaceInv, TxInv,
     OpenInv, RuntimeInv, Settled
<1>13. RequestInv'
  BY <1>2, <1>4, Fields, NothingFields DEF ServiceInv, CloseInv, PlaceInv, RuntimeInv,
     RequestInv, Desired, Quiet
<1> QED
  BY <1>3, <1>6, <1>7, <1>8, <1>9, <1>10, <1>11, <1>12, <1>13 DEF ServiceInv

\* ContainByDisarm keeps the invariant.
LEMMA ContainByDisarmKeeps ==
    ASSUME ServiceInv, ContainByDisarm
    PROVE  ServiceInv'
<1>1. /\ cli.todo # <<>> /\ Head(cli.todo) = "contain" /\ cli'.todo = Tail(cli.todo)
      /\ cli' = [todo |-> cli'.todo, loaded |-> cli'.loaded, exact |-> cli'.exact]
      /\ cli'.loaded \in BOOLEAN /\ cli'.exact \in BOOLEAN
  BY DEF ContainByDisarm, Disarmed, Advance, Do, ServiceInv, StateTypes
<1>2. /\ cli'.exact = cli.exact /\ daemon.gen = manifest.gen /\ daemon.state \notin {"none", "recovering"}
      /\ db' = [db EXCEPT !.carry = FALSE]
      /\ daemon' = [daemon EXCEPT !.pending = FALSE,
                    !.state = IF daemon.state = "enforce" THEN "ready" ELSE daemon.state]
      /\ db'.by = db.by /\ db'.gen = db.gen /\ db'.carry = FALSE
      /\ daemon'.gen = daemon.gen
      /\ daemon'.state = (IF daemon.state = "enforce" THEN "ready" ELSE daemon.state)
      /\ daemon'.pending = FALSE
      /\ UNCHANGED <<tx, plist, manifest, backup, dirs, job, installs, faults, unclaimed>>
  BY AbleIs DEF ContainByDisarm, Disarmed, Advance, Do, durable, ServiceInv, StateTypes,
     NoTx, NoDb, NoDaemon, NoManifest, IpcUp
<1>3. OrderInv' /\ Pops("contain")
  BY <1>1, Advances DEF ServiceInv
<1>4. /\ Todo = {"contain"} \cup Todo' /\ "survey" \notin Todo'
      /\ "publish_generation" \notin Todo' /\ "select_plist" \notin Todo'
      /\ "select_manifest" \notin Todo' /\ "emergency_stop" \notin Todo'
      /\ "drop_tx" \notin Todo' /\ "drop_backup" \notin Todo' /\ "mark" \notin Todo'
      /\ "accept_begin" \notin Todo' /\ "accept_commit" \notin Todo'
      /\ "retire_backup" \notin Todo' /\ "prepare" \notin Todo'
      /\ "remove_generations" \notin Todo' /\ "candidate_ready" \notin Todo'
      /\ "candidate_durable" \notin Todo' /\ "prior_drained" \notin Todo'
      /\ "database_backed_up" \notin Todo' /\ "candidate_selected" \notin Todo'
      /\ "restart_prior" \notin Todo' /\ "evict" \notin Todo'
      /\ "back_up" \notin Todo' /\ "bootstrap" \notin Todo'
      /\ "restore_plist" \notin Todo' /\ "restore_manifest" \notin Todo'
      /\ "remove_plist" \notin Todo' /\ "remove_manifest" \notin Todo'
      /\ "restore" \notin Todo' /\ "contain" \notin Todo'
      /\ "clear_request" \notin Todo' /\ "retire_tx" \notin Todo'
  BY <1>3, Ranks, MarkNames DEF Pops, After
<1>5. daemon # NoDaemon /\ daemon' # NoDaemon /\ daemon'.state # "none"
  <2>1. daemon # NoDaemon
    BY <1>2, NothingFields
  <2>2. daemon'.state # "none"
    BY <1>2
  <2>3. daemon' # NoDaemon
    BY <2>2, NothingFields, Zenon
  <2> QED
    BY <2>1, <2>2, <2>3
<1>6. StateTypes'
  <2>1. db' \in [by : 0 .. MaxInstalls, gen : 0 .. MaxInstalls, carry : BOOLEAN]
    BY <1>2, <1>5, Fields, NothingTypes, TransactionAssumption DEF ServiceInv, StateTypes,
       Phases
  <2>2. daemon' \in [gen : 0 .. MaxInstalls, pending : BOOLEAN,
                   state : {"none", "recovering", "first_scan", "ready", "enforce",
                            "failed", "draining"}]
    BY <1>2, <1>5, Fields, NothingTypes, TransactionAssumption DEF ServiceInv, StateTypes,
       Phases
  <2> QED
    BY <1>1, <1>2, <2>1, <2>2 DEF ServiceInv, StateTypes
<1>7. CloseInv'
  BY <1>2, <1>4, <1>5 DEF ServiceInv, CloseInv
<1>8. PhaseInv'
  BY <1>2, <1>4, <1>5 DEF ServiceInv, PhaseInv, CloseInv
<1>9. PlaceInv'
  BY <1>2, <1>4, <1>5 DEF ServiceInv, PlaceInv, RollbackFloor, CloseInv
<1>10. RuntimeInv'
  BY <1>2, <1>4, <1>5, Fields, NothingFields DEF ServiceInv, CloseInv, RuntimeInv, PlaceInv
<1>11. TxInv'
  BY <1>2, <1>4, <1>5, Fields, NothingFields DEF ServiceInv, CloseInv, PhaseInv, PlaceInv,
     TxInv, BackupMatches, Selected, Settled
<1>12. OpenInv'
  BY <1>2, <1>4, <1>5, Fields, NothingFields DEF ServiceInv, CloseInv, PhaseInv, PlaceInv,
     TxInv, OpenInv, RuntimeInv, Settled
<1>13. RequestInv'
  BY <1>2, <1>4, <1>5, Fields, NothingFields DEF ServiceInv, CloseInv, PlaceInv, RuntimeInv,
     RequestInv, Desired, Quiet
<1> QED
  BY <1>3, <1>6, <1>7, <1>8, <1>9, <1>10, <1>11, <1>12, <1>13 DEF ServiceInv

\* ArmPreflight keeps the invariant.
LEMMA ArmPreflightKeeps ==
    ASSUME ServiceInv, ArmPreflight
    PROVE  ServiceInv'
<1>1. /\ cli.todo # <<>> /\ Head(cli.todo) = "preflight" /\ cli'.todo = Tail(cli.todo)
      /\ cli' = [todo |-> cli'.todo, loaded |-> cli'.loaded, exact |-> cli'.exact]
      /\ cli'.loaded \in BOOLEAN /\ cli'.exact \in BOOLEAN
  BY DEF ArmPreflight, Do, ServiceInv, StateTypes
<1>2. /\ cli'.exact = TRUE /\ RuntimeReady(manifest.gen)
      /\ UNCHANGED <<tx, plist, manifest, db, backup, dirs, job, daemon, installs, faults, unclaimed>>
  BY AbleIs DEF ArmPreflight, Do, durable, ServiceInv, StateTypes
<1>3. OrderInv' /\ Pops("preflight")
  BY <1>1, Advances DEF ServiceInv
<1>4. /\ Todo = {"preflight"} \cup Todo' /\ "contain" \notin Todo'
      /\ "restore" \notin Todo' /\ "restart_prior" \notin Todo'
      /\ "candidate_ready" \notin Todo' /\ "drop_tx" \notin Todo'
      /\ "retire_tx" \notin Todo' /\ "prepare" \notin Todo'
      /\ "remove_generations" \notin Todo' /\ "preflight" \notin Todo'
      /\ Todo' \subseteq {"publish_enforce", "arm", "arm_answer"}
  BY <1>3, Ranks, MarkNames DEF Pops, After
<1>6. StateTypes'
  BY <1>1, <1>2 DEF ServiceInv, StateTypes
<1>7. CloseInv'
  BY <1>2, <1>4 DEF ServiceInv, CloseInv
<1>8. PhaseInv'
  BY <1>2, <1>4 DEF ServiceInv, PhaseInv, CloseInv
<1>9. PlaceInv'
  BY <1>2, <1>4 DEF ServiceInv, PlaceInv, RollbackFloor, CloseInv
<1>10. RuntimeInv'
  BY <1>2, <1>4, Fields, NothingFields DEF ServiceInv, CloseInv, RuntimeInv, PlaceInv,
     RuntimeReady
<1>11. TxInv'
  BY <1>2, <1>4 DEF ServiceInv, TxInv, CloseInv, BackupMatches, Selected
<1>12. OpenInv'
  BY <1>2, <1>4 DEF ServiceInv, OpenInv, CloseInv
<1>13. RequestInv'
  <2>1. daemon.gen = manifest.gen /\ manifest.gen # 0
    BY <1>2 DEF RuntimeReady, Selected
  <2>2. "arm" \in Todo' => "publish_enforce" \in Todo'
    BY <1>4 DEF ServiceInv, CloseInv
  <2> QED
    BY <1>2, <1>4, <2>1, <2>2 DEF ServiceInv, RequestInv, Desired, Quiet
<1> QED
  BY <1>3, <1>6, <1>7, <1>8, <1>9, <1>10, <1>11, <1>12, <1>13 DEF ServiceInv

\* Arm keeps the invariant.
LEMMA ArmKeeps ==
    ASSUME ServiceInv, Arm
    PROVE  ServiceInv'
<1>1. /\ cli.todo # <<>> /\ Head(cli.todo) = "arm" /\ cli'.todo = Tail(cli.todo)
      /\ cli' = [todo |-> cli'.todo, loaded |-> cli'.loaded, exact |-> cli'.exact]
      /\ cli'.loaded \in BOOLEAN /\ cli'.exact \in BOOLEAN
  BY DEF Arm, Advance, Do, ServiceInv, StateTypes
<1>2. /\ cli'.exact = cli.exact /\ cli.exact /\ daemon.state = "ready"
      /\ db' = [db EXCEPT !.carry = TRUE]
      /\ daemon' = [daemon EXCEPT !.state = "enforce"]
      /\ db'.by = db.by /\ db'.gen = db.gen /\ db'.carry = TRUE
      /\ daemon'.gen = daemon.gen /\ daemon'.state = "enforce"
      /\ daemon'.pending = daemon.pending
      /\ UNCHANGED <<tx, plist, manifest, backup, dirs, job, installs, faults, unclaimed>>
  BY AbleIs DEF Arm, Advance, Do, durable, ServiceInv, StateTypes
<1>3. OrderInv' /\ Pops("arm")
  BY <1>1, Advances DEF ServiceInv
<1>4. /\ Todo = {"arm"} \cup Todo' /\ "survey" \notin Todo'
      /\ "publish_generation" \notin Todo' /\ "select_plist" \notin Todo'
      /\ "select_manifest" \notin Todo' /\ "emergency_stop" \notin Todo'
      /\ "disarm_unexpected" \notin Todo' /\ "drop_tx" \notin Todo'
      /\ "drop_backup" \notin Todo' /\ "mark" \notin Todo'
      /\ "accept_begin" \notin Todo' /\ "accept_commit" \notin Todo'
      /\ "retire_backup" \notin Todo' /\ "prepare" \notin Todo'
      /\ "remove_generations" \notin Todo' /\ "candidate_ready" \notin Todo'
      /\ "candidate_durable" \notin Todo' /\ "prior_drained" \notin Todo'
      /\ "database_backed_up" \notin Todo' /\ "candidate_selected" \notin Todo'
      /\ "restart_prior" \notin Todo' /\ "evict" \notin Todo'
      /\ "back_up" \notin Todo' /\ "bootstrap" \notin Todo'
      /\ "restore_plist" \notin Todo' /\ "restore_manifest" \notin Todo'
      /\ "remove_plist" \notin Todo' /\ "remove_manifest" \notin Todo'
      /\ "restore" \notin Todo' /\ "publish_report_only" \notin Todo'
      /\ "contain" \notin Todo' /\ "clear_request" \notin Todo' /\ "arm" \notin Todo'
      /\ "publish_enforce" \notin Todo' /\ "preflight" \notin Todo'
      /\ "retire_tx" \notin Todo'
  BY <1>3, Ranks, MarkNames DEF Pops, After
<1>6. StateTypes'
  <2>1. db' \in [by : 0 .. MaxInstalls, gen : 0 .. MaxInstalls, carry : BOOLEAN]
    BY <1>2, Fields, NothingTypes, TransactionAssumption DEF ServiceInv, StateTypes, Phases
  <2>2. daemon' \in [gen : 0 .. MaxInstalls, pending : BOOLEAN,
                   state : {"none", "recovering", "first_scan", "ready", "enforce",
                            "failed", "draining"}]
    BY <1>2, Fields, NothingTypes, TransactionAssumption DEF ServiceInv, StateTypes, Phases
  <2> QED
    BY <1>1, <1>2, <2>1, <2>2 DEF ServiceInv, StateTypes
<1>7. CloseInv'
  BY <1>2, <1>4 DEF ServiceInv, CloseInv
<1>8. PhaseInv'
  BY <1>2, <1>4 DEF ServiceInv, PhaseInv, CloseInv
<1>9. PlaceInv'
  BY <1>2, <1>4 DEF ServiceInv, PlaceInv, RollbackFloor, CloseInv
<1>10. RuntimeInv'
  BY <1>2, <1>4, Fields, NothingFields DEF ServiceInv, CloseInv, RuntimeInv, PlaceInv
<1>11. TxInv'
  BY <1>2, <1>4, Fields, NothingFields DEF ServiceInv, CloseInv, PhaseInv, PlaceInv, TxInv,
     BackupMatches, Selected, Settled
<1>12. OpenInv'
  BY <1>2, <1>4, Fields, NothingFields DEF ServiceInv, CloseInv, PhaseInv, PlaceInv, TxInv,
     OpenInv, RuntimeInv, Settled
<1>13. RequestInv'
  BY <1>2, <1>4, Fields, NothingFields DEF ServiceInv, CloseInv, PlaceInv, RuntimeInv,
     RequestInv, Desired, Quiet
<1> QED
  BY <1>3, <1>6, <1>7, <1>8, <1>9, <1>10, <1>11, <1>12, <1>13 DEF ServiceInv

\* A report-only manifest is published: the invariant holds after it.
LEMMA PublishReportOnlyKeeps ==
    ASSUME ServiceInv, WriteManifest("publish_report_only", [manifest EXCEPT !.mode = "report_only"])
    PROVE  ServiceInv'
<1>1. /\ cli.todo # <<>> /\ Head(cli.todo) = "publish_report_only" /\ cli'.todo = Tail(cli.todo)
      /\ cli' = [todo |-> cli'.todo, loaded |-> cli'.loaded, exact |-> cli'.exact]
      /\ cli'.loaded \in BOOLEAN /\ cli'.exact \in BOOLEAN
  BY DEF WriteManifest, Advance, Do, ServiceInv, StateTypes
<1>2. /\ cli'.exact = cli.exact
      /\ manifest' = [manifest EXCEPT !.mode = "report_only"]
      /\ manifest'.gen = manifest.gen /\ manifest'.mode = "report_only"
      /\ UNCHANGED <<tx, plist, db, backup, dirs, job, daemon, installs, faults, unclaimed>>
  BY AbleIs DEF WriteManifest, Advance, Do, durable, ServiceInv, StateTypes
<1>3. OrderInv' /\ Pops("publish_report_only")
  BY <1>1, Advances DEF ServiceInv
<1>4. /\ Todo = {"publish_report_only"} \cup Todo' /\ "survey" \notin Todo'
      /\ "publish_generation" \notin Todo' /\ "select_plist" \notin Todo'
      /\ "select_manifest" \notin Todo' /\ "emergency_stop" \notin Todo'
      /\ "disarm_unexpected" \notin Todo' /\ "drop_tx" \notin Todo'
      /\ "drop_backup" \notin Todo' /\ "mark" \notin Todo'
      /\ "accept_begin" \notin Todo' /\ "accept_commit" \notin Todo'
      /\ "retire_backup" \notin Todo' /\ "prepare" \notin Todo'
      /\ "remove_generations" \notin Todo' /\ "candidate_ready" \notin Todo'
      /\ "candidate_durable" \notin Todo' /\ "prior_drained" \notin Todo'
      /\ "database_backed_up" \notin Todo' /\ "candidate_selected" \notin Todo'
      /\ "restart_prior" \notin Todo' /\ "evict" \notin Todo'
      /\ "back_up" \notin Todo' /\ "bootstrap" \notin Todo'
      /\ "restore_plist" \notin Todo' /\ "restore_manifest" \notin Todo'
      /\ "remove_plist" \notin Todo' /\ "remove_manifest" \notin Todo'
      /\ "restore" \notin Todo' /\ "publish_report_only" \notin Todo'
      /\ "contain" \notin Todo' /\ "clear_request" \notin Todo'
      /\ "retire_tx" \notin Todo'
  BY <1>3, Ranks, MarkNames DEF Pops, After
<1>6. StateTypes'
  <2>1. manifest' \in [gen : 0 .. MaxInstalls, mode : {"report_only", "enforce"}]
    BY <1>2, Fields, NothingTypes, TransactionAssumption DEF ServiceInv, StateTypes, Phases
  <2> QED
    BY <1>1, <1>2, <2>1 DEF ServiceInv, StateTypes
<1>7. CloseInv'
  BY <1>2, <1>4 DEF ServiceInv, CloseInv
<1>8. PhaseInv'
  BY <1>2, <1>4 DEF ServiceInv, PhaseInv, CloseInv
<1>9. PlaceInv'
  BY <1>2, <1>4, Fields, NothingFields DEF ServiceInv, CloseInv, PhaseInv, PlaceInv,
     RollbackFloor
<1>10. RuntimeInv'
  BY <1>2, <1>4 DEF ServiceInv, RuntimeInv
<1>11. TxInv'
  BY <1>2, <1>4, Fields, NothingFields DEF ServiceInv, CloseInv, PhaseInv, PlaceInv, TxInv,
     BackupMatches, Selected, Settled
<1>12. OpenInv'
  BY <1>2, <1>4 DEF ServiceInv, OpenInv, CloseInv
<1>13. RequestInv'
  BY <1>2, <1>4, Fields, NothingFields DEF ServiceInv, CloseInv, PlaceInv, RuntimeInv,
     RequestInv, Desired, Quiet
<1> QED
  BY <1>3, <1>6, <1>7, <1>8, <1>9, <1>10, <1>11, <1>12, <1>13 DEF ServiceInv

\* An enforce manifest is published: the invariant holds after it.
LEMMA PublishEnforceKeeps ==
    ASSUME ServiceInv, WriteManifest("publish_enforce", [manifest EXCEPT !.mode = "enforce"])
    PROVE  ServiceInv'
<1>1. /\ cli.todo # <<>> /\ Head(cli.todo) = "publish_enforce" /\ cli'.todo = Tail(cli.todo)
      /\ cli' = [todo |-> cli'.todo, loaded |-> cli'.loaded, exact |-> cli'.exact]
      /\ cli'.loaded \in BOOLEAN /\ cli'.exact \in BOOLEAN
  BY DEF WriteManifest, Advance, Do, ServiceInv, StateTypes
<1>2. /\ cli'.exact = cli.exact
      /\ manifest' = [manifest EXCEPT !.mode = "enforce"]
      /\ manifest'.gen = manifest.gen /\ manifest'.mode = "enforce"
      /\ UNCHANGED <<tx, plist, db, backup, dirs, job, daemon, installs, faults, unclaimed>>
  BY AbleIs DEF WriteManifest, Advance, Do, durable, ServiceInv, StateTypes
<1>3. OrderInv' /\ Pops("publish_enforce")
  BY <1>1, Advances DEF ServiceInv
<1>4. /\ Todo = {"publish_enforce"} \cup Todo' /\ "survey" \notin Todo'
      /\ "publish_generation" \notin Todo' /\ "select_plist" \notin Todo'
      /\ "select_manifest" \notin Todo' /\ "emergency_stop" \notin Todo'
      /\ "disarm_unexpected" \notin Todo' /\ "drop_tx" \notin Todo'
      /\ "drop_backup" \notin Todo' /\ "mark" \notin Todo'
      /\ "accept_begin" \notin Todo' /\ "accept_commit" \notin Todo'
      /\ "retire_backup" \notin Todo' /\ "prepare" \notin Todo'
      /\ "remove_generations" \notin Todo' /\ "candidate_ready" \notin Todo'
      /\ "candidate_durable" \notin Todo' /\ "prior_drained" \notin Todo'
      /\ "database_backed_up" \notin Todo' /\ "candidate_selected" \notin Todo'
      /\ "restart_prior" \notin Todo' /\ "evict" \notin Todo'
      /\ "back_up" \notin Todo' /\ "bootstrap" \notin Todo'
      /\ "restore_plist" \notin Todo' /\ "restore_manifest" \notin Todo'
      /\ "remove_plist" \notin Todo' /\ "remove_manifest" \notin Todo'
      /\ "restore" \notin Todo' /\ "publish_report_only" \notin Todo'
      /\ "contain" \notin Todo' /\ "clear_request" \notin Todo'
      /\ "publish_enforce" \notin Todo' /\ "preflight" \notin Todo'
      /\ "retire_tx" \notin Todo'
  BY <1>3, Ranks, MarkNames DEF Pops, After
<1>6. StateTypes'
  <2>1. manifest' \in [gen : 0 .. MaxInstalls, mode : {"report_only", "enforce"}]
    BY <1>2, Fields, NothingTypes, TransactionAssumption DEF ServiceInv, StateTypes, Phases
  <2> QED
    BY <1>1, <1>2, <2>1 DEF ServiceInv, StateTypes
<1>7. CloseInv'
  BY <1>2, <1>4 DEF ServiceInv, CloseInv
<1>8. PhaseInv'
  BY <1>2, <1>4 DEF ServiceInv, PhaseInv, CloseInv
<1>9. PlaceInv'
  BY <1>2, <1>4, Fields, NothingFields DEF ServiceInv, CloseInv, PhaseInv, PlaceInv,
     RollbackFloor
<1>10. RuntimeInv'
  BY <1>2, <1>4 DEF ServiceInv, RuntimeInv
<1>11. TxInv'
  BY <1>2, <1>4, Fields, NothingFields DEF ServiceInv, CloseInv, PhaseInv, PlaceInv, TxInv,
     BackupMatches, Selected, Settled
<1>12. OpenInv'
  BY <1>2, <1>4 DEF ServiceInv, OpenInv, CloseInv
<1>13. RequestInv'
  BY <1>2, <1>4, Fields, NothingFields DEF ServiceInv, CloseInv, PlaceInv, RuntimeInv,
     RequestInv, Desired, Quiet
<1> QED
  BY <1>3, <1>6, <1>7, <1>8, <1>9, <1>10, <1>11, <1>12, <1>13 DEF ServiceInv

\* Uninstall removes the plist: the invariant holds after it.
LEMMA RemovePlistKeeps ==
    ASSUME ServiceInv, WritePlist("remove_plist", 0)
    PROVE  ServiceInv'
<1>1. /\ cli.todo # <<>> /\ Head(cli.todo) = "remove_plist" /\ cli'.todo = Tail(cli.todo)
      /\ cli' = [todo |-> cli'.todo, loaded |-> cli'.loaded, exact |-> cli'.exact]
      /\ cli'.loaded \in BOOLEAN /\ cli'.exact \in BOOLEAN
  BY DEF WritePlist, Advance, Do, ServiceInv, StateTypes
<1>2. /\ cli'.exact = cli.exact
      /\ plist' = 0
      /\ UNCHANGED <<tx, manifest, db, backup, dirs, job, daemon, installs, faults, unclaimed>>
  BY AbleIs DEF WritePlist, Advance, Do, durable, ServiceInv, StateTypes
<1>3. OrderInv' /\ Pops("remove_plist")
  BY <1>1, Advances DEF ServiceInv
<1>4. /\ Todo = {"remove_plist"} \cup Todo' /\ "drop_tx" \notin Todo'
      /\ "drop_backup" \notin Todo' /\ "mark" \notin Todo'
      /\ "accept_begin" \notin Todo' /\ "accept_commit" \notin Todo'
      /\ "retire_backup" \notin Todo' /\ "restart_prior" \notin Todo'
      /\ "evict" \notin Todo' /\ "restore_plist" \notin Todo'
      /\ "restore_manifest" \notin Todo' /\ "remove_plist" \notin Todo'
      /\ "restore" \notin Todo' /\ "retire_tx" \notin Todo'
      /\ Todo' \subseteq {"remove_manifest", "remove_generations"}
  BY <1>3, Ranks, MarkNames DEF Pops, After
<1>6. StateTypes'
  <2>1. plist' \in 0 .. MaxInstalls
    BY <1>2, Fields, NothingTypes, TransactionAssumption DEF ServiceInv, StateTypes, Phases
  <2> QED
    BY <1>1, <1>2, <2>1 DEF ServiceInv, StateTypes
<1>7. CloseInv'
  BY <1>2, <1>4 DEF ServiceInv, CloseInv
<1>8. PhaseInv'
  BY <1>2, <1>4 DEF ServiceInv, PhaseInv, CloseInv
<1>9. PlaceInv'
  BY <1>2, <1>4, Fields, NothingFields DEF ServiceInv, CloseInv, PhaseInv, PlaceInv,
     RollbackFloor
<1>10. RuntimeInv'
  BY <1>2, <1>4, Fields, NothingFields DEF ServiceInv, CloseInv, RuntimeInv, PlaceInv
<1>11. TxInv'
  BY <1>2, <1>4, Fields, NothingFields DEF ServiceInv, CloseInv, PhaseInv, PlaceInv, TxInv,
     BackupMatches, Selected, Settled
<1>12. OpenInv'
  BY <1>2, <1>4, Fields, NothingFields DEF ServiceInv, CloseInv, PhaseInv, PlaceInv, TxInv,
     OpenInv, RuntimeInv, Settled
<1>13. RequestInv'
  BY <1>2, <1>4 DEF ServiceInv, RequestInv, Desired, Quiet, CloseInv
<1> QED
  BY <1>3, <1>6, <1>7, <1>8, <1>9, <1>10, <1>11, <1>12, <1>13 DEF ServiceInv

\* Uninstall removes the manifest: the invariant holds after it.
LEMMA RemoveManifestKeeps ==
    ASSUME ServiceInv, WriteManifest("remove_manifest", NoManifest)
    PROVE  ServiceInv'
<1>1. /\ cli.todo # <<>> /\ Head(cli.todo) = "remove_manifest" /\ cli'.todo = Tail(cli.todo)
      /\ cli' = [todo |-> cli'.todo, loaded |-> cli'.loaded, exact |-> cli'.exact]
      /\ cli'.loaded \in BOOLEAN /\ cli'.exact \in BOOLEAN
  BY DEF WriteManifest, Advance, Do, ServiceInv, StateTypes
<1>2. /\ cli'.exact = cli.exact
      /\ manifest' = NoManifest
      /\ UNCHANGED <<tx, plist, db, backup, dirs, job, daemon, installs, faults, unclaimed>>
  BY AbleIs DEF WriteManifest, Advance, Do, durable, ServiceInv, StateTypes, NoManifest
<1>3. OrderInv' /\ Pops("remove_manifest")
  BY <1>1, Advances DEF ServiceInv
<1>4. /\ Todo = {"remove_manifest"} \cup Todo' /\ "drop_tx" \notin Todo'
      /\ "drop_backup" \notin Todo' /\ "mark" \notin Todo'
      /\ "accept_begin" \notin Todo' /\ "accept_commit" \notin Todo'
      /\ "retire_backup" \notin Todo' /\ "restart_prior" \notin Todo'
      /\ "evict" \notin Todo' /\ "restore_plist" \notin Todo'
      /\ "restore_manifest" \notin Todo' /\ "remove_plist" \notin Todo'
      /\ "remove_manifest" \notin Todo' /\ "restore" \notin Todo'
      /\ "retire_tx" \notin Todo'
  BY <1>3, Ranks, MarkNames DEF Pops, After
<1>6. StateTypes'
  <2>1. manifest' \in [gen : 0 .. MaxInstalls, mode : {"report_only", "enforce"}]
    BY <1>2, Fields, NothingTypes, TransactionAssumption DEF ServiceInv, StateTypes, Phases
  <2> QED
    BY <1>1, <1>2, <2>1 DEF ServiceInv, StateTypes
<1>7. CloseInv'
  BY <1>2, <1>4 DEF ServiceInv, CloseInv
<1>8. PhaseInv'
  BY <1>2, <1>4 DEF ServiceInv, PhaseInv, CloseInv
<1>9. PlaceInv'
  BY <1>2, <1>4, Fields, NothingFields DEF ServiceInv, CloseInv, PhaseInv, PlaceInv,
     RollbackFloor
<1>10. RuntimeInv'
  BY <1>2, <1>4 DEF ServiceInv, RuntimeInv
<1>11. TxInv'
  BY <1>2, <1>4, Fields, NothingFields DEF ServiceInv, CloseInv, PhaseInv, PlaceInv, TxInv,
     BackupMatches, Selected, Settled
<1>12. OpenInv'
  BY <1>2, <1>4 DEF ServiceInv, OpenInv, CloseInv
<1>13. RequestInv'
  BY <1>2, <1>4, Fields, NothingFields DEF ServiceInv, CloseInv, PlaceInv, RuntimeInv,
     RequestInv, Desired, Quiet
<1> QED
  BY <1>3, <1>6, <1>7, <1>8, <1>9, <1>10, <1>11, <1>12, <1>13 DEF ServiceInv

\* RemoveGenerations keeps the invariant.
LEMMA RemoveGenerationsKeeps ==
    ASSUME ServiceInv, RemoveGenerations
    PROVE  ServiceInv'
<1>1. /\ cli.todo # <<>> /\ Head(cli.todo) = "remove_generations" /\ cli'.todo = Tail(cli.todo)
      /\ cli' = [todo |-> cli'.todo, loaded |-> cli'.loaded, exact |-> cli'.exact]
      /\ cli'.loaded \in BOOLEAN /\ cli'.exact \in BOOLEAN
  BY DEF RemoveGenerations, Advance, Do, ServiceInv, StateTypes
<1>2. /\ cli'.exact = cli.exact
      /\ dirs' = [g \in Generations |-> 0]
      /\ UNCHANGED <<tx, plist, manifest, db, backup, job, daemon, installs, faults, unclaimed>>
  BY AbleIs DEF RemoveGenerations, Advance, Do, durable, ServiceInv, StateTypes
<1>3. OrderInv' /\ Pops("remove_generations")
  BY <1>1, Advances DEF ServiceInv
<1>4. /\ Todo = {"remove_generations"} \cup Todo' /\ "drop_tx" \notin Todo'
      /\ "drop_backup" \notin Todo' /\ "mark" \notin Todo'
      /\ "accept_begin" \notin Todo' /\ "accept_commit" \notin Todo'
      /\ "retire_backup" \notin Todo' /\ "remove_generations" \notin Todo'
      /\ "restart_prior" \notin Todo' /\ "evict" \notin Todo'
      /\ "restore_plist" \notin Todo' /\ "restore_manifest" \notin Todo'
      /\ "remove_plist" \notin Todo' /\ "remove_manifest" \notin Todo'
      /\ "restore" \notin Todo' /\ "retire_tx" \notin Todo'
  BY <1>3, Ranks, MarkNames DEF Pops, After
<1>6. StateTypes'
  <2>1. dirs' \in [Generations -> 0 .. MaxInstalls]
    BY <1>2, Fields, NothingTypes, TransactionAssumption DEF ServiceInv, StateTypes, Phases
  <2> QED
    BY <1>1, <1>2, <2>1 DEF ServiceInv, StateTypes
<1>7. CloseInv'
  BY <1>2, <1>4 DEF ServiceInv, CloseInv
<1>8. PhaseInv'
  BY <1>2, <1>4 DEF ServiceInv, PhaseInv, CloseInv
<1>9. PlaceInv'
  BY <1>2, <1>4 DEF ServiceInv, PlaceInv, RollbackFloor, CloseInv
<1>10. RuntimeInv'
  BY <1>2, <1>4 DEF ServiceInv, RuntimeInv
<1>11. TxInv'
  BY <1>2, <1>4, Fields, NothingFields DEF ServiceInv, CloseInv, PhaseInv, PlaceInv, TxInv,
     BackupMatches, Selected, Settled
<1>12. OpenInv'
  BY <1>2, <1>4, Fields, NothingFields DEF ServiceInv, CloseInv, PhaseInv, PlaceInv, TxInv,
     OpenInv, RuntimeInv, Settled
<1>13. RequestInv'
  BY <1>2, <1>4 DEF ServiceInv, RequestInv, Desired, Quiet, CloseInv
<1> QED
  BY <1>3, <1>6, <1>7, <1>8, <1>9, <1>10, <1>11, <1>12, <1>13 DEF ServiceInv

\* The prior service is loaded again: the invariant holds after it.
LEMMA RestartPriorLoadsKeeps ==
    ASSUME ServiceInv, RestartPrior,
           tx.loaded
    PROVE  ServiceInv'
<1>1. /\ cli.todo # <<>> /\ Head(cli.todo) = "restart_prior" /\ cli'.todo = Tail(cli.todo)
      /\ cli' = [todo |-> cli'.todo, loaded |-> cli'.loaded, exact |-> cli'.exact]
      /\ cli'.loaded \in BOOLEAN /\ cli'.exact \in BOOLEAN
  BY DEF RestartPrior, Advance, Do, ServiceInv, StateTypes
<1>2. /\ cli'.exact = cli.exact /\ job = 0
      /\ job' = plist
      /\ UNCHANGED <<tx, plist, manifest, db, backup, dirs, daemon, installs, faults, unclaimed>>
  BY AbleIs DEF RestartPrior, Advance, Do, durable, ServiceInv, StateTypes
<1>3. OrderInv' /\ Pops("restart_prior")
  BY <1>1, Advances DEF ServiceInv
<1>4. /\ Todo = {"restart_prior"} \cup Todo' /\ "mark" \notin Todo'
      /\ "accept_begin" \notin Todo' /\ "accept_commit" \notin Todo'
      /\ "retire_backup" \notin Todo' /\ "restart_prior" \notin Todo'
      /\ "evict" \notin Todo' /\ "restore_plist" \notin Todo'
      /\ "restore_manifest" \notin Todo' /\ "restore" \notin Todo'
      /\ "retire_tx" \notin Todo'
  BY <1>3, Ranks, MarkNames DEF Pops, After
<1>6. StateTypes'
  <2>1. job' \in 0 .. MaxInstalls
    BY <1>2, Fields, NothingTypes, TransactionAssumption DEF ServiceInv, StateTypes, Phases
  <2> QED
    BY <1>1, <1>2, <2>1 DEF ServiceInv, StateTypes
<1>7. CloseInv'
  BY <1>2, <1>4 DEF ServiceInv, CloseInv
<1>8. PhaseInv'
  BY <1>2, <1>4 DEF ServiceInv, PhaseInv, CloseInv
<1>9. PlaceInv'
  BY <1>2, <1>4, Fields, NothingFields DEF ServiceInv, CloseInv, PhaseInv, PlaceInv,
     RollbackFloor
<1>10. RuntimeInv'
  BY <1>2, <1>4, Fields, NothingFields DEF ServiceInv, CloseInv, RuntimeInv, PlaceInv
<1>11. TxInv'
  BY <1>2, <1>4 DEF ServiceInv, TxInv, CloseInv, BackupMatches, Selected
<1>12. OpenInv'
  BY <1>2, <1>4 DEF ServiceInv, OpenInv, CloseInv
<1>13. RequestInv'
  BY <1>2, <1>4, Fields, NothingFields DEF ServiceInv, CloseInv, PlaceInv, RuntimeInv,
     RequestInv, Desired, Quiet
<1> QED
  BY <1>3, <1>6, <1>7, <1>8, <1>9, <1>10, <1>11, <1>12, <1>13 DEF ServiceInv

\* A prior service that was not loaded stays so: the invariant holds after it.
LEMMA RestartPriorSkipsKeeps ==
    ASSUME ServiceInv, RestartPrior,
           ~tx.loaded
    PROVE  ServiceInv'
<1>1. /\ cli.todo # <<>> /\ Head(cli.todo) = "restart_prior" /\ cli'.todo = Tail(Tail(cli.todo))
      /\ cli' = [todo |-> cli'.todo, loaded |-> cli'.loaded, exact |-> cli'.exact]
      /\ cli'.loaded \in BOOLEAN /\ cli'.exact \in BOOLEAN
  BY DEF RestartPrior, Advance, Do, ServiceInv, StateTypes
<1>2. /\ cli'.exact = cli.exact /\ job = 0
      /\ UNCHANGED <<tx, plist, manifest, db, backup, dirs, job, daemon, installs, faults, unclaimed>>
  BY AbleIs DEF RestartPrior, Advance, Do, durable, ServiceInv, StateTypes
<1>3. /\ OrderInv' /\ Todo = {"restart_prior", "await_ready"} \cup Todo'
      /\ After("restart_prior", Todo')
  BY <1>1, Skips DEF ServiceInv
<1>4. /\ "mark" \notin Todo' /\ "accept_begin" \notin Todo'
      /\ "accept_commit" \notin Todo' /\ "retire_backup" \notin Todo'
      /\ "restart_prior" \notin Todo' /\ "evict" \notin Todo'
      /\ "restore_plist" \notin Todo' /\ "restore_manifest" \notin Todo'
      /\ "restore" \notin Todo' /\ "retire_tx" \notin Todo'
  BY <1>3, Ranks, MarkNames DEF Pops, After
<1>6. StateTypes'
  BY <1>1, <1>2, SMTT(30) DEF ServiceInv, StateTypes
<1>7. CloseInv'
  BY <1>2, <1>3, <1>4 DEF ServiceInv, CloseInv
<1>8. PhaseInv'
  BY <1>2, <1>3, <1>4 DEF ServiceInv, PhaseInv, CloseInv
<1>9. PlaceInv'
  BY <1>2, <1>3, <1>4 DEF ServiceInv, PlaceInv, RollbackFloor, CloseInv
<1>10. RuntimeInv'
  BY <1>2, <1>3, <1>4 DEF ServiceInv, RuntimeInv
<1>11. TxInv'
  BY <1>2, <1>3, <1>4 DEF ServiceInv, TxInv, CloseInv, BackupMatches, Selected
<1>12. OpenInv'
  BY <1>2, <1>3, <1>4 DEF ServiceInv, OpenInv, CloseInv
<1>13. RequestInv'
  BY <1>2, <1>3, <1>4 DEF ServiceInv, RequestInv, Desired, Quiet, CloseInv
<1> QED
  BY <1>3, <1>6, <1>7, <1>8, <1>9, <1>10, <1>11, <1>12, <1>13 DEF ServiceInv

\* disarm_unexpected finds an enforcing daemon and disarms it: the invariant holds after it.
LEMMA DisarmUnexpectedActsKeeps ==
    ASSUME ServiceInv, DisarmUnexpected,
           manifest.mode = "report_only", daemon.state = "enforce"
    PROVE  ServiceInv'
<1>1. /\ cli.todo # <<>> /\ Head(cli.todo) = "disarm_unexpected" /\ cli'.todo = Tail(cli.todo)
      /\ cli' = [todo |-> cli'.todo, loaded |-> cli'.loaded, exact |-> cli'.exact]
      /\ cli'.loaded \in BOOLEAN /\ cli'.exact \in BOOLEAN
  BY DEF DisarmUnexpected, Disarmed, Advance, Do, ServiceInv, StateTypes
<1>2. /\ cli'.exact = cli.exact /\ daemon.gen = manifest.gen /\ daemon.state \notin {"none", "recovering"}
      /\ db' = [db EXCEPT !.carry = FALSE]
      /\ daemon' = [daemon EXCEPT !.pending = FALSE,
                    !.state = IF daemon.state = "enforce" THEN "ready" ELSE daemon.state]
      /\ db'.by = db.by /\ db'.gen = db.gen /\ db'.carry = FALSE
      /\ daemon'.gen = daemon.gen
      /\ daemon'.state = (IF daemon.state = "enforce" THEN "ready" ELSE daemon.state)
      /\ daemon'.pending = FALSE
      /\ UNCHANGED <<tx, plist, manifest, backup, dirs, job, installs, faults, unclaimed>>
  <2>1. daemon.gen = manifest.gen /\ daemon.state \notin {"none", "recovering"}
    BY AbleIs, Zenon DEF DisarmUnexpected, Do, IpcUp
  <2>2. /\ db' = [db EXCEPT !.carry = FALSE]
        /\ daemon' = [daemon EXCEPT !.pending = FALSE,
                      !.state = IF daemon.state = "enforce" THEN "ready" ELSE daemon.state]
        /\ UNCHANGED <<tx, plist, manifest, backup, dirs, job, installs, faults, unclaimed>>
    BY DEF DisarmUnexpected, Disarmed, durable
  <2>3. cli'.exact = cli.exact
    BY DEF DisarmUnexpected, Advance, ServiceInv, StateTypes
  <2>4. db'.by = db.by /\ db'.gen = db.gen /\ db'.carry = FALSE
    BY <2>2 DEF ServiceInv, StateTypes
  <2>5. /\ daemon'.gen = daemon.gen /\ daemon'.pending = FALSE
        /\ daemon'.state = (IF daemon.state = "enforce" THEN "ready" ELSE daemon.state)
    BY <2>2 DEF ServiceInv, StateTypes
  <2> QED
    BY <2>1, <2>2, <2>3, <2>4, <2>5, Zenon
<1>3. OrderInv' /\ Pops("disarm_unexpected")
  BY <1>1, Advances DEF ServiceInv
<1>4. /\ Todo = {"disarm_unexpected"} \cup Todo' /\ "survey" \notin Todo'
      /\ "publish_generation" \notin Todo' /\ "select_plist" \notin Todo'
      /\ "select_manifest" \notin Todo' /\ "emergency_stop" \notin Todo'
      /\ "disarm_unexpected" \notin Todo' /\ "drop_tx" \notin Todo'
      /\ "drop_backup" \notin Todo' /\ "mark" \notin Todo'
      /\ "accept_begin" \notin Todo' /\ "accept_commit" \notin Todo'
      /\ "retire_backup" \notin Todo' /\ "prepare" \notin Todo'
      /\ "remove_generations" \notin Todo' /\ "candidate_ready" \notin Todo'
      /\ "candidate_durable" \notin Todo' /\ "prior_drained" \notin Todo'
      /\ "database_backed_up" \notin Todo' /\ "candidate_selected" \notin Todo'
      /\ "restart_prior" \notin Todo' /\ "evict" \notin Todo'
      /\ "back_up" \notin Todo' /\ "bootstrap" \notin Todo'
      /\ "restore_plist" \notin Todo' /\ "restore_manifest" \notin Todo'
      /\ "remove_plist" \notin Todo' /\ "remove_manifest" \notin Todo'
      /\ "restore" \notin Todo' /\ "publish_report_only" \notin Todo'
      /\ "contain" \notin Todo' /\ "clear_request" \notin Todo'
      /\ "retire_tx" \notin Todo'
  BY <1>3, Ranks, MarkNames DEF Pops, After
<1>5. daemon # NoDaemon /\ daemon' # NoDaemon /\ daemon'.state # "none"
  <2>1. daemon # NoDaemon
    BY <1>2, NothingFields
  <2>2. daemon'.state # "none"
    BY <1>2
  <2>3. daemon' # NoDaemon
    BY <2>2, NothingFields, Zenon
  <2> QED
    BY <2>1, <2>2, <2>3
<1>6. StateTypes'
  <2>1. db' \in [by : 0 .. MaxInstalls, gen : 0 .. MaxInstalls, carry : BOOLEAN]
    BY <1>2, <1>5, Fields, NothingTypes, TransactionAssumption DEF ServiceInv, StateTypes,
       Phases
  <2>2. daemon' \in [gen : 0 .. MaxInstalls, pending : BOOLEAN,
                   state : {"none", "recovering", "first_scan", "ready", "enforce",
                            "failed", "draining"}]
    BY <1>2, <1>5, Fields, NothingTypes, TransactionAssumption DEF ServiceInv, StateTypes,
       Phases
  <2> QED
    BY <1>1, <1>2, <2>1, <2>2 DEF ServiceInv, StateTypes
<1>7. CloseInv'
  BY <1>2, <1>4, <1>5 DEF ServiceInv, CloseInv
<1>8. PhaseInv'
  BY <1>2, <1>4, <1>5 DEF ServiceInv, PhaseInv, CloseInv
<1>9. PlaceInv'
  BY <1>2, <1>4, <1>5 DEF ServiceInv, PlaceInv, RollbackFloor, CloseInv
<1>10. RuntimeInv'
  BY <1>2, <1>4, <1>5, Fields, NothingFields DEF ServiceInv, CloseInv, RuntimeInv, PlaceInv
<1>11. TxInv'
  BY <1>2, <1>4, <1>5, Fields, NothingFields DEF ServiceInv, CloseInv, PhaseInv, PlaceInv,
     TxInv, BackupMatches, Selected, Settled
<1>12. OpenInv'
  BY <1>2, <1>4, <1>5, Fields, NothingFields DEF ServiceInv, CloseInv, PhaseInv, PlaceInv,
     TxInv, OpenInv, RuntimeInv, Settled
<1>13. RequestInv'
  BY <1>2, <1>4, <1>5, Fields, NothingFields DEF ServiceInv, CloseInv, PlaceInv, RuntimeInv,
     RequestInv, Desired, Quiet
<1> QED
  BY <1>3, <1>6, <1>7, <1>8, <1>9, <1>10, <1>11, <1>12, <1>13 DEF ServiceInv

\* disarm_unexpected finds nothing to disarm: the invariant holds after it.
LEMMA DisarmUnexpectedLooksKeeps ==
    ASSUME ServiceInv, DisarmUnexpected,
           ~(manifest.mode = "report_only" /\ daemon.state = "enforce")
    PROVE  ServiceInv'
<1>1. /\ cli.todo # <<>> /\ Head(cli.todo) = "disarm_unexpected" /\ cli'.todo = Tail(cli.todo)
      /\ cli' = [todo |-> cli'.todo, loaded |-> cli'.loaded, exact |-> cli'.exact]
      /\ cli'.loaded \in BOOLEAN /\ cli'.exact \in BOOLEAN
  BY DEF DisarmUnexpected, Disarmed, Advance, Do, ServiceInv, StateTypes
<1>2. /\ cli'.exact = cli.exact
      /\ UNCHANGED <<tx, plist, manifest, db, backup, dirs, job, daemon, installs, faults, unclaimed>>
  BY AbleIs DEF DisarmUnexpected, Disarmed, Advance, Do, durable, ServiceInv, StateTypes
<1>3. OrderInv' /\ Pops("disarm_unexpected")
  BY <1>1, Advances DEF ServiceInv
<1>4. /\ Todo = {"disarm_unexpected"} \cup Todo' /\ "survey" \notin Todo'
      /\ "publish_generation" \notin Todo' /\ "select_plist" \notin Todo'
      /\ "select_manifest" \notin Todo' /\ "emergency_stop" \notin Todo'
      /\ "disarm_unexpected" \notin Todo' /\ "drop_tx" \notin Todo'
      /\ "drop_backup" \notin Todo' /\ "mark" \notin Todo'
      /\ "accept_begin" \notin Todo' /\ "accept_commit" \notin Todo'
      /\ "retire_backup" \notin Todo' /\ "prepare" \notin Todo'
      /\ "remove_generations" \notin Todo' /\ "candidate_ready" \notin Todo'
      /\ "candidate_durable" \notin Todo' /\ "prior_drained" \notin Todo'
      /\ "database_backed_up" \notin Todo' /\ "candidate_selected" \notin Todo'
      /\ "restart_prior" \notin Todo' /\ "evict" \notin Todo'
      /\ "back_up" \notin Todo' /\ "bootstrap" \notin Todo'
      /\ "restore_plist" \notin Todo' /\ "restore_manifest" \notin Todo'
      /\ "remove_plist" \notin Todo' /\ "remove_manifest" \notin Todo'
      /\ "restore" \notin Todo' /\ "publish_report_only" \notin Todo'
      /\ "contain" \notin Todo' /\ "clear_request" \notin Todo'
      /\ "retire_tx" \notin Todo'
  BY <1>3, Ranks, MarkNames DEF Pops, After
<1>6. StateTypes'
  BY <1>1, <1>2 DEF ServiceInv, StateTypes
<1>7. CloseInv'
  BY <1>2, <1>4 DEF ServiceInv, CloseInv
<1>8. PhaseInv'
  BY <1>2, <1>4 DEF ServiceInv, PhaseInv, CloseInv
<1>9. PlaceInv'
  BY <1>2, <1>4 DEF ServiceInv, PlaceInv, RollbackFloor, CloseInv
<1>10. RuntimeInv'
  BY <1>2, <1>4 DEF ServiceInv, RuntimeInv
<1>11. TxInv'
  BY <1>2, <1>4 DEF ServiceInv, TxInv, CloseInv, BackupMatches, Selected
<1>12. OpenInv'
  BY <1>2, <1>4 DEF ServiceInv, OpenInv, CloseInv
<1>13. RequestInv'
  BY <1>2, <1>4 DEF ServiceInv, RequestInv, Desired, Quiet, CloseInv
<1> QED
  BY <1>3, <1>6, <1>7, <1>8, <1>9, <1>10, <1>11, <1>12, <1>13 DEF ServiceInv

\* The survey finds a job without a process and unloads it: the invariant holds after it.
LEMMA SurveyUnloadsKeeps ==
    ASSUME ServiceInv, Survey,
           job # 0, daemon.state = "none"
    PROVE  ServiceInv'
<1>1. /\ cli.todo # <<>> /\ Head(cli.todo) = "survey" /\ cli'.todo = Tail(cli.todo)
      /\ cli' = [todo |-> cli'.todo, loaded |-> cli'.loaded, exact |-> cli'.exact]
      /\ cli'.loaded \in BOOLEAN /\ cli'.exact \in BOOLEAN
  BY DEF Survey, Do, ServiceInv, StateTypes, IpcUp
<1>2. /\ cli'.exact = FALSE
      /\ db' = [db EXCEPT !.carry = db.carry \/ daemon.pending]
      /\ job' = 0
      /\ daemon' = NoDaemon
      /\ unclaimed' = (unclaimed \/ HoldsRequest)
      /\ db'.by = db.by /\ db'.gen = db.gen
      /\ db'.carry = (db.carry \/ daemon.pending)
      /\ UNCHANGED <<tx, plist, manifest, backup, dirs, installs, faults>>
  <2>1. /\ db' = [db EXCEPT !.carry = db.carry \/ daemon.pending]
        /\ job' = 0 /\ daemon' = NoDaemon /\ unclaimed' = (unclaimed \/ HoldsRequest)
        /\ UNCHANGED <<tx, plist, manifest, backup, dirs, installs, faults>>
    BY Zenon DEF Survey, Unload, Terminated, durable
  <2>2. cli'.exact = FALSE
    BY DEF Survey, IpcUp
  <2>3. db'.by = db.by /\ db'.gen = db.gen /\ db'.carry = (db.carry \/ daemon.pending)
    BY <2>1 DEF ServiceInv, StateTypes
  <2> QED
    BY <2>1, <2>2, <2>3, Zenon
<1>3. OrderInv' /\ Pops("survey")
  BY <1>1, Advances DEF ServiceInv
<1>4. /\ Todo = {"survey"} \cup Todo' /\ "survey" \notin Todo'
      /\ "drop_tx" \notin Todo' /\ "drop_backup" \notin Todo' /\ "mark" \notin Todo'
      /\ "accept_begin" \notin Todo' /\ "accept_commit" \notin Todo'
      /\ "retire_backup" \notin Todo' /\ "remove_generations" \notin Todo'
      /\ "restart_prior" \notin Todo' /\ "evict" \notin Todo'
      /\ "restore_plist" \notin Todo' /\ "restore_manifest" \notin Todo'
      /\ "remove_plist" \notin Todo' /\ "remove_manifest" \notin Todo'
      /\ "restore" \notin Todo' /\ "retire_tx" \notin Todo'
  BY <1>3, Ranks, MarkNames DEF Pops, After
<1>6. StateTypes'
  <2>1. db' \in [by : 0 .. MaxInstalls, gen : 0 .. MaxInstalls, carry : BOOLEAN]
    BY <1>2, Fields, NothingTypes, TransactionAssumption DEF ServiceInv, StateTypes, Phases
  <2>2. job' \in 0 .. MaxInstalls
    BY <1>2, Fields, NothingTypes, TransactionAssumption DEF ServiceInv, StateTypes, Phases
  <2>3. daemon' \in [gen : 0 .. MaxInstalls, pending : BOOLEAN,
                   state : {"none", "recovering", "first_scan", "ready", "enforce",
                            "failed", "draining"}]
    BY <1>2, Fields, NothingTypes, TransactionAssumption DEF ServiceInv, StateTypes, Phases
  <2>4. unclaimed' \in BOOLEAN
    BY <1>2, Fields, NothingTypes, TransactionAssumption DEF ServiceInv, StateTypes, Phases
  <2> QED
    BY <1>1, <1>2, <2>1, <2>2, <2>3, <2>4 DEF ServiceInv, StateTypes
<1>7. CloseInv'
  BY <1>2, <1>4 DEF ServiceInv, CloseInv
<1>8. PhaseInv'
  BY <1>2, <1>4 DEF ServiceInv, PhaseInv, CloseInv
<1>9. PlaceInv'
  BY <1>2, <1>4, Fields, NothingFields DEF ServiceInv, CloseInv, PhaseInv, PlaceInv,
     RollbackFloor
<1>10. RuntimeInv'
  BY <1>2, <1>4, Fields, NothingFields DEF ServiceInv, CloseInv, RuntimeInv, PlaceInv
<1>11. TxInv'
  BY <1>2, <1>4, Fields, NothingFields DEF ServiceInv, CloseInv, PhaseInv, PlaceInv, TxInv,
     BackupMatches, Selected, Settled
<1>12. OpenInv'
  BY <1>2, <1>4, Fields, NothingFields DEF ServiceInv, CloseInv, PhaseInv, PlaceInv, TxInv,
     OpenInv, RuntimeInv, Settled
<1>13. RequestInv'
  BY <1>2, <1>4, Fields, NothingFields DEF ServiceInv, CloseInv, PlaceInv, RuntimeInv,
     RequestInv, Desired, Quiet, HoldsRequest
<1> QED
  BY <1>3, <1>6, <1>7, <1>8, <1>9, <1>10, <1>11, <1>12, <1>13 DEF ServiceInv

\* The survey finds nothing to unload: the invariant holds after it.
LEMMA SurveyLooksKeeps ==
    ASSUME ServiceInv, Survey,
           ~(job # 0 /\ daemon.state = "none")
    PROVE  ServiceInv'
<1>1. /\ cli.todo # <<>> /\ Head(cli.todo) = "survey" /\ cli'.todo = Tail(cli.todo)
      /\ cli' = [todo |-> cli'.todo, loaded |-> cli'.loaded, exact |-> cli'.exact]
      /\ cli'.loaded \in BOOLEAN /\ cli'.exact \in BOOLEAN
  BY DEF Survey, Do, ServiceInv, StateTypes, IpcUp
<1>2. /\ cli'.exact = (job # 0 /\ IpcUp)
      /\ UNCHANGED <<tx, plist, manifest, db, backup, dirs, job, daemon, installs, faults, unclaimed>>
  BY AbleIs DEF Survey, Do, durable, ServiceInv, StateTypes
<1>3. OrderInv' /\ Pops("survey")
  BY <1>1, Advances DEF ServiceInv
<1>4. /\ Todo = {"survey"} \cup Todo' /\ "survey" \notin Todo'
      /\ "drop_tx" \notin Todo' /\ "drop_backup" \notin Todo' /\ "mark" \notin Todo'
      /\ "accept_begin" \notin Todo' /\ "accept_commit" \notin Todo'
      /\ "retire_backup" \notin Todo' /\ "remove_generations" \notin Todo'
      /\ "restart_prior" \notin Todo' /\ "evict" \notin Todo'
      /\ "restore_plist" \notin Todo' /\ "restore_manifest" \notin Todo'
      /\ "remove_plist" \notin Todo' /\ "remove_manifest" \notin Todo'
      /\ "restore" \notin Todo' /\ "retire_tx" \notin Todo'
  BY <1>3, Ranks, MarkNames DEF Pops, After
<1>6. StateTypes'
  BY <1>1, <1>2 DEF ServiceInv, StateTypes
<1>7. CloseInv'
  BY <1>2, <1>4 DEF ServiceInv, CloseInv
<1>8. PhaseInv'
  BY <1>2, <1>4 DEF ServiceInv, PhaseInv, CloseInv
<1>9. PlaceInv'
  BY <1>2, <1>4 DEF ServiceInv, PlaceInv, RollbackFloor, CloseInv
<1>10. RuntimeInv'
  <2>1. cli'.exact => daemon # NoDaemon
    BY <1>2, NothingFields DEF IpcUp
  <2> QED
    BY <1>2, <2>1 DEF ServiceInv, RuntimeInv
<1>11. TxInv'
  BY <1>2, <1>4 DEF ServiceInv, TxInv, CloseInv, BackupMatches, Selected
<1>12. OpenInv'
  BY <1>2, <1>4 DEF ServiceInv, OpenInv, CloseInv
<1>13. RequestInv'
  BY <1>2, <1>4 DEF ServiceInv, RequestInv, Desired, Quiet, CloseInv
<1> QED
  BY <1>3, <1>6, <1>7, <1>8, <1>9, <1>10, <1>11, <1>12, <1>13 DEF ServiceInv

\* disarm finds no job and skips drain and bootout: the invariant holds after it.
LEMMA DisarmAbsentKeeps ==
    ASSUME ServiceInv, Do("disarm"),
           job = 0, cli' = [cli EXCEPT !.todo = Tail(Tail(Tail(@)))],
           UNCHANGED <<db, daemon>>, UNCHANGED <<tx, durable, job, installs, faults, unclaimed>>
    PROVE  ServiceInv'
<1>1. /\ cli.todo # <<>> /\ Head(cli.todo) = "disarm" /\ cli'.todo = Tail(Tail(Tail(cli.todo)))
      /\ cli' = [todo |-> cli'.todo, loaded |-> cli'.loaded, exact |-> cli'.exact]
      /\ cli'.loaded \in BOOLEAN /\ cli'.exact \in BOOLEAN
  BY DEF durable, Do, ServiceInv, StateTypes
<1>2. /\ cli'.exact = cli.exact /\ job = 0
      /\ UNCHANGED <<tx, plist, manifest, db, backup, dirs, job, daemon, installs, faults, unclaimed>>
  BY AbleIs DEF durable, Do, durable, ServiceInv, StateTypes
<1>3. OrderInv' /\ Todo = {"disarm", "drain", "bootout"} \cup Todo'
  BY <1>1, Skips DEF ServiceInv
<1>6. StateTypes'
  BY <1>1, <1>2 DEF ServiceInv, StateTypes
<1>7. CloseInv'
  BY <1>2, <1>3 DEF ServiceInv, CloseInv
<1>8. PhaseInv'
  BY <1>2, <1>3 DEF ServiceInv, PhaseInv, CloseInv
<1>9. PlaceInv'
  BY <1>2, <1>3 DEF ServiceInv, PlaceInv, RollbackFloor, CloseInv
<1>10. RuntimeInv'
  BY <1>2, <1>3 DEF ServiceInv, RuntimeInv
<1>11. TxInv'
  BY <1>2, <1>3 DEF ServiceInv, TxInv, CloseInv, BackupMatches, Selected
<1>12. OpenInv'
  BY <1>2, <1>3 DEF ServiceInv, OpenInv, CloseInv
<1>13. RequestInv'
  BY <1>2, <1>3 DEF ServiceInv, RequestInv, Desired, Quiet, CloseInv
<1> QED
  BY <1>3, <1>6, <1>7, <1>8, <1>9, <1>10, <1>11, <1>12, <1>13 DEF ServiceInv

\* disarm gets no answer and goes on to bootout: the invariant holds after it.
LEMMA DisarmBlindKeeps ==
    ASSUME ServiceInv, Do("disarm"),
           cli' = [cli EXCEPT !.todo = Tail(Tail(@))],
           UNCHANGED <<db, daemon>>, UNCHANGED <<tx, durable, job, installs, faults, unclaimed>>
    PROVE  ServiceInv'
<1>1. /\ cli.todo # <<>> /\ Head(cli.todo) = "disarm" /\ cli'.todo = Tail(Tail(cli.todo))
      /\ cli' = [todo |-> cli'.todo, loaded |-> cli'.loaded, exact |-> cli'.exact]
      /\ cli'.loaded \in BOOLEAN /\ cli'.exact \in BOOLEAN
  BY DEF durable, Do, ServiceInv, StateTypes
<1>2. /\ cli'.exact = cli.exact
      /\ UNCHANGED <<tx, plist, manifest, db, backup, dirs, job, daemon, installs, faults, unclaimed>>
  BY AbleIs DEF durable, Do, durable, ServiceInv, StateTypes
<1>3. OrderInv' /\ Todo = {"disarm", "drain"} \cup Todo' /\ "bootout" \in Todo'
  BY <1>1, Skips DEF ServiceInv
<1>6. StateTypes'
  BY <1>1, <1>2 DEF ServiceInv, StateTypes
<1>7. CloseInv'
  BY <1>2, <1>3 DEF ServiceInv, CloseInv
<1>8. PhaseInv'
  BY <1>2, <1>3 DEF ServiceInv, PhaseInv, CloseInv
<1>9. PlaceInv'
  BY <1>2, <1>3 DEF ServiceInv, PlaceInv, RollbackFloor, CloseInv
<1>10. RuntimeInv'
  BY <1>2, <1>3 DEF ServiceInv, RuntimeInv
<1>11. TxInv'
  BY <1>2, <1>3 DEF ServiceInv, TxInv, CloseInv, BackupMatches, Selected
<1>12. OpenInv'
  BY <1>2, <1>3 DEF ServiceInv, OpenInv, CloseInv
<1>13. RequestInv'
  BY <1>2, <1>3 DEF ServiceInv, RequestInv, Desired, Quiet, CloseInv
<1> QED
  BY <1>3, <1>6, <1>7, <1>8, <1>9, <1>10, <1>11, <1>12, <1>13 DEF ServiceInv

\* disarm is answered by the daemon: the invariant holds after it.
LEMMA DisarmAnsweredKeeps ==
    ASSUME ServiceInv, Do("disarm"),
           IpcUp, Disarmed,
           cli' = [cli EXCEPT !.todo = Tail(@), !.exact = QuiescePolicy], UNCHANGED <<tx, durable, job, installs, faults, unclaimed>>
    PROVE  ServiceInv'
<1>0. QuiescePolicy \in BOOLEAN
  BY DEF QuiescePolicy
<1>1. /\ cli.todo # <<>> /\ Head(cli.todo) = "disarm" /\ cli'.todo = Tail(cli.todo)
      /\ cli' = [todo |-> cli'.todo, loaded |-> cli'.loaded, exact |-> cli'.exact]
      /\ cli'.loaded \in BOOLEAN /\ cli'.exact \in BOOLEAN
  BY <1>0 DEF Disarmed, Do, ServiceInv, StateTypes
<1>2. /\ cli'.exact = QuiescePolicy /\ daemon.state \notin {"none", "recovering"}
      /\ db' = [db EXCEPT !.carry = FALSE]
      /\ daemon' = [daemon EXCEPT !.pending = FALSE,
                    !.state = IF daemon.state = "enforce" THEN "ready" ELSE daemon.state]
      /\ db'.by = db.by /\ db'.gen = db.gen /\ db'.carry = FALSE
      /\ daemon'.gen = daemon.gen
      /\ daemon'.state = (IF daemon.state = "enforce" THEN "ready" ELSE daemon.state)
      /\ daemon'.pending = FALSE
      /\ UNCHANGED <<tx, plist, manifest, backup, dirs, job, installs, faults, unclaimed>>
  BY AbleIs DEF Disarmed, Do, durable, ServiceInv, StateTypes, NoTx, NoDb, NoDaemon,
     NoManifest, IpcUp
<1>3. OrderInv' /\ Pops("disarm")
  BY <1>1, Advances DEF ServiceInv
<1>4. Todo = {"disarm"} \cup Todo'
  BY <1>3 DEF Pops
<1>5. daemon # NoDaemon /\ daemon' # NoDaemon /\ daemon'.state # "none"
  <2>1. daemon # NoDaemon
    BY <1>2, NothingFields
  <2>2. daemon'.state # "none"
    BY <1>2
  <2>3. daemon' # NoDaemon
    BY <2>2, NothingFields, Zenon
  <2> QED
    BY <2>1, <2>2, <2>3
<1>6. StateTypes'
  <2>1. db' \in [by : 0 .. MaxInstalls, gen : 0 .. MaxInstalls, carry : BOOLEAN]
    BY <1>2, <1>5, Fields, NothingTypes, TransactionAssumption DEF ServiceInv, StateTypes,
       Phases
  <2>2. daemon' \in [gen : 0 .. MaxInstalls, pending : BOOLEAN,
                   state : {"none", "recovering", "first_scan", "ready", "enforce",
                            "failed", "draining"}]
    BY <1>2, <1>5, Fields, NothingTypes, TransactionAssumption DEF ServiceInv, StateTypes,
       Phases
  <2> QED
    BY <1>1, <1>2, <2>1, <2>2 DEF ServiceInv, StateTypes
<1>7. CloseInv'
  BY <1>2, <1>4, <1>5 DEF ServiceInv, CloseInv
<1>8. PhaseInv'
  BY <1>2, <1>4, <1>5 DEF ServiceInv, PhaseInv, CloseInv
<1>9. PlaceInv'
  BY <1>2, <1>4, <1>5 DEF ServiceInv, PlaceInv, RollbackFloor, CloseInv
<1>10. RuntimeInv'
  BY <1>2, <1>4, <1>5, Fields, NothingFields DEF ServiceInv, CloseInv, RuntimeInv, PlaceInv
<1>11. TxInv'
  BY <1>2, <1>4, <1>5, Fields, NothingFields DEF ServiceInv, CloseInv, PhaseInv, PlaceInv,
     TxInv, BackupMatches, Selected, Settled
<1>12. OpenInv'
  BY <1>2, <1>4, <1>5, Fields, NothingFields DEF ServiceInv, CloseInv, PhaseInv, PlaceInv,
     TxInv, OpenInv, RuntimeInv, Settled
<1>13. RequestInv'
  BY <1>2, <1>4, <1>5, Fields, NothingFields DEF ServiceInv, CloseInv, PlaceInv, RuntimeInv,
     RequestInv, Desired, Quiet
<1> QED
  BY <1>3, <1>6, <1>7, <1>8, <1>9, <1>10, <1>11, <1>12, <1>13 DEF ServiceInv

\* A step that only waits or looks keeps the invariant.
LEMMA CheckKeeps ==
    ASSUME ServiceInv, NEW step \in Waits \cup {"check_restart", "arm_answer"}, Check(step)
    PROVE  ServiceInv'
<1>1. /\ cli.todo # <<>> /\ Head(cli.todo) = step /\ cli'.todo = Tail(cli.todo)
      /\ cli' = [todo |-> cli'.todo, loaded |-> cli'.loaded, exact |-> cli'.exact]
      /\ cli'.loaded \in BOOLEAN /\ cli'.exact \in BOOLEAN
  BY DEF Check, Advance, Do, ServiceInv, StateTypes
<1>2. /\ cli'.exact = cli.exact
      /\ UNCHANGED <<tx, plist, manifest, db, backup, dirs, job, daemon, installs, faults, unclaimed>>
  BY AbleIs DEF Check, Advance, Do, durable, ServiceInv, StateTypes
<1>3. OrderInv' /\ Pops(step)
  BY <1>1, Advances DEF ServiceInv
<1>4. /\ Todo = {step} \cup Todo'
      /\ step \in {"await_ready", "await_runtime", "await_contained", "check_restart", "arm_answer"}
  BY <1>3, Ranks, MarkNames DEF Pops, After, Waits
<1>6. StateTypes'
  BY <1>1, <1>2 DEF ServiceInv, StateTypes
<1>7. CloseInv'
  BY <1>2, <1>4 DEF ServiceInv, CloseInv
<1>8. PhaseInv'
  BY <1>2, <1>4 DEF ServiceInv, PhaseInv, CloseInv
<1>9. PlaceInv'
  BY <1>2, <1>4 DEF ServiceInv, PlaceInv, RollbackFloor, CloseInv
<1>10. RuntimeInv'
  BY <1>2, <1>4 DEF ServiceInv, RuntimeInv
<1>11. TxInv'
  BY <1>2, <1>4 DEF ServiceInv, TxInv, CloseInv, BackupMatches, Selected
<1>12. OpenInv'
  BY <1>2, <1>4 DEF ServiceInv, OpenInv, CloseInv
<1>13. RequestInv'
  BY <1>2, <1>4 DEF ServiceInv, RequestInv, Desired, Quiet, CloseInv
<1> QED
  BY <1>3, <1>6, <1>7, <1>8, <1>9, <1>10, <1>11, <1>12, <1>13 DEF ServiceInv

-----------------------------------------------------------------------------
(* A command begins, fails or dies *)

\* The steps of every program.
LEMMA StepSets ==
    /\ StepsIn(Rollback) =
          {"mark", "disarm", "drain", "bootout", "evict", "restore", "restore_plist",
           "restore_manifest", "restart_prior", "await_ready", "drop_tx", "drop_backup"}
    /\ StepsIn(Install) =
          {"survey", "prepare", "publish_generation", "candidate_durable", "disarm",
           "drain", "bootout", "prior_drained", "back_up", "database_backed_up",
           "select_plist", "select_manifest", "candidate_selected", "bootstrap",
           "await_ready", "candidate_ready"}
    /\ StepsIn(Finalize) = {"retire_backup", "retire_tx"}
    /\ StepsIn(Accept) = {"accept_begin", "accept_commit", "retire_backup", "retire_tx"}
    /\ StepsIn(Emergency) = {"emergency_stop", "clear_request", "bootstrap", "await_runtime"}
    /\ StepsIn(Restart) = {"check_restart", "emergency_stop", "clear_request", "bootstrap",
                           "await_runtime", "await_ready"}
    /\ StepsIn(Contain) = {"contain", "await_contained"}
    /\ StepsIn(SetReportOnly) = {"contain", "await_contained", "publish_report_only"}
    /\ StepsIn(SetEnforce) = {"disarm_unexpected", "preflight", "publish_enforce", "arm",
                              "arm_answer"}
    /\ StepsIn(Uninstall) = {"disarm", "drain", "bootout", "remove_plist",
                             "remove_manifest", "remove_generations"}
  BY RollbackProgram, InstallProgram, FinalizeProgram, AcceptProgram, EmergencyProgram,
     RestartProgram, ContainProgram, SetReportOnlyProgram, SetEnforceProgram,
     UninstallProgram, Zenon

\* A set of steps that holds of each program nothing or the whole.
Whole(T) ==
    /\ "mark" \in T \/ "evict" \in T \/ "restore" \in T \/ "restore_plist" \in T
          \/ "restore_manifest" \in T \/ "restart_prior" \in T \/ "drop_tx" \in T =>
          /\ "mark" \in T /\ "evict" \in T /\ "restore" \in T /\ "restore_plist" \in T
          /\ "restore_manifest" \in T /\ "restart_prior" \in T /\ "drop_tx" \in T
          /\ "drop_backup" \in T
    /\ "survey" \in T \/ "prepare" \in T \/ "publish_generation" \in T
          \/ "candidate_durable" \in T \/ "prior_drained" \in T \/ "back_up" \in T
          \/ "database_backed_up" \in T \/ "select_plist" \in T \/ "select_manifest" \in T
          \/ "candidate_selected" \in T \/ "candidate_ready" \in T =>
          /\ "survey" \in T /\ "prepare" \in T /\ "publish_generation" \in T
          /\ "candidate_durable" \in T /\ "prior_drained" \in T /\ "back_up" \in T
          /\ "database_backed_up" \in T /\ "select_plist" \in T /\ "select_manifest" \in T
          /\ "candidate_selected" \in T /\ "candidate_ready" \in T /\ "bootstrap" \in T
    /\ "remove_plist" \in T \/ "remove_manifest" \in T \/ "remove_generations" \in T =>
          /\ "remove_plist" \in T /\ "remove_manifest" \in T /\ "remove_generations" \in T
          /\ "bootout" \in T
    /\ "emergency_stop" \in T => "clear_request" \in T
    /\ "clear_request" \in T => "bootstrap" \in T
    /\ "publish_report_only" \in T => "contain" \in T
    /\ "disarm_unexpected" \in T \/ "preflight" \in T \/ "publish_enforce" \in T \/ "arm" \in T =>
          /\ "disarm_unexpected" \in T /\ "preflight" \in T /\ "publish_enforce" \in T
          /\ "arm" \in T
    /\ "accept_begin" \in T <=> "accept_commit" \in T
    /\ "accept_commit" \in T \/ "retire_backup" \in T => "retire_tx" \in T

\* Every program is whole.
LEMMA WholePrograms ==
    /\ Whole({}) /\ Whole({"drop_backup"})
    /\ Whole(StepsIn(Rollback)) /\ Whole(StepsIn(Install)) /\ Whole(StepsIn(Finalize))
    /\ Whole(StepsIn(Accept)) /\ Whole(StepsIn(Restart)) /\ Whole(StepsIn(SetReportOnly))
    /\ Whole(StepsIn(SetEnforce)) /\ Whole(StepsIn(Uninstall))
<1>1. Whole({}) /\ Whole({"drop_backup"})
  BY DEF Whole
<1>2. Whole(StepsIn(Rollback))
  BY StepSets DEF Whole
<1>3. Whole(StepsIn(Install))
  BY StepSets DEF Whole
<1>4. Whole(StepsIn(Finalize)) /\ Whole(StepsIn(Accept))
  BY StepSets DEF Whole
<1>5. Whole(StepsIn(Restart)) /\ Whole(StepsIn(SetReportOnly))
  BY StepSets DEF Whole
<1>6. Whole(StepsIn(SetEnforce)) /\ Whole(StepsIn(Uninstall))
  BY StepSets DEF Whole
<1> QED
  BY <1>1, <1>2, <1>3, <1>4, <1>5, <1>6

\* Two whole programs after each other are whole.
LEMMA WholeUnion ==
    ASSUME NEW A, NEW B, Whole(A), Whole(B) PROVE Whole(A \cup B)
  BY DEF Whole

\* Begin: whole programs, and the ones the phase calls for.
LEMMA BegunFacts ==
    ASSUME NEW c \in Commands, tx.phase \in Phases \cup {"none"}
    PROVE  LET T == StepsIn(Begun(c))
           IN  /\ Ordered(Begun(c)) /\ Whole(T)
               /\ "drop_tx" \in T => tx.phase \notin {"none", "accepted"}
               /\ "drop_backup" \in T => "drop_tx" \in T \/ tx.phase = "none"
               /\ "accept_begin" \in T => tx.phase = "candidate_ready_report_only"
               /\ "retire_tx" \in T => "accept_commit" \in T \/ tx.phase = "accepted"
               /\ "retire_tx" \in T => "drop_tx" \notin T
               /\ tx.phase = "accepted" => "retire_tx" \in T /\ "accept_commit" \notin T
               /\ "prepare" \in T \/ "remove_generations" \in T =>
                     \/ "drop_tx" \in T
                     \/ "retire_tx" \in T /\ "retire_backup" \in T
                     \/ tx.phase = "none" /\ "drop_backup" \in T
<1> DEFINE T == StepsIn(Begun(c))
<1>1. Ordered(Begun(c))
  BY BegunSteps
<1>2. CASE tx.phase = "none"
  <2>1. CASE T \in {{}, StepsIn(Restart)}
    <3>1. CASE T = {}
      BY <1>1, <1>2, <3>1, WholePrograms
    <3>2. CASE T = StepsIn(Restart)
      BY <1>1, <1>2, <3>2, StepSets, WholePrograms
    <3> QED
      BY <2>1, <3>1, <3>2
  <2>2. CASE \E p \in {Install, SetReportOnly, SetEnforce, Uninstall} : T = {"drop_backup"} \cup StepsIn(p)
    <3>1. PICK p \in {Install, SetReportOnly, SetEnforce, Uninstall} : T = {"drop_backup"} \cup StepsIn(p)
      BY <2>2
    <3>2. Whole(T)
      BY <3>1, WholePrograms, WholeUnion
    <3>3. "drop_tx" \notin StepsIn(p) /\ "accept_begin" \notin StepsIn(p) /\ "retire_tx" \notin StepsIn(p)
      BY StepSets
    <3> HIDE DEF T
    <3>4. "drop_tx" \notin T /\ "accept_begin" \notin T /\ "retire_tx" \notin T /\ "drop_backup" \in T
      BY <3>1, <3>3
    <3> QED
      BY <1>1, <1>2, <3>2, <3>4 DEF T
  <2> QED
    BY <1>2, <2>1, <2>2, BegunSteps
<1>3. CASE tx.phase = "candidate_ready_report_only"
  <2>1. T \in {{}, StepsIn(Accept), StepsIn(Rollback), StepsIn(Restart)}
    BY <1>3, BegunSteps
  <2>2. Whole(T)
    BY <2>1, WholePrograms
  <2> HIDE DEF T
  <2>3. /\ "accept_commit" \in T <=> "retire_tx" \in T
        /\ "drop_backup" \in T <=> "drop_tx" \in T
        /\ ~("drop_tx" \in T /\ "retire_tx" \in T)
        /\ "prepare" \notin T /\ "remove_generations" \notin T
    BY <2>1, StepSets
  <2> QED
    BY <1>1, <1>3, <2>2, <2>3 DEF T
<1>4. CASE tx.phase = "accepted"
  <2>1. T = StepsIn(Finalize) \/ \E p \in Followers : T = StepsIn(Finalize) \cup StepsIn(p)
    BY <1>4, BegunSteps
  <2>2. Whole(T)
    BY <2>1, WholePrograms, WholeUnion DEF Followers
  <2>3. \A p \in Followers : /\ "accept_commit" \notin StepsIn(p) /\ "drop_tx" \notin StepsIn(p)
                             /\ "drop_backup" \notin StepsIn(p) /\ "accept_begin" \notin StepsIn(p)
    BY StepSets DEF Followers
  <2>4. "retire_tx" \in StepsIn(Finalize) /\ "retire_backup" \in StepsIn(Finalize)
        /\ "accept_commit" \notin StepsIn(Finalize) /\ "drop_tx" \notin StepsIn(Finalize)
        /\ "drop_backup" \notin StepsIn(Finalize) /\ "accept_begin" \notin StepsIn(Finalize)
    BY StepSets
  <2> HIDE DEF T
  <2>5. /\ "retire_tx" \in T /\ "retire_backup" \in T /\ "accept_commit" \notin T
        /\ "drop_tx" \notin T /\ "drop_backup" \notin T /\ "accept_begin" \notin T
    BY <2>1, <2>3, <2>4
  <2> QED
    BY <1>1, <1>4, <2>2, <2>5 DEF T
<1>5. CASE tx.phase \notin {"none", "candidate_ready_report_only", "accepted"}
  <2>1. \/ T = StepsIn(Rollback)
        \/ \E p \in {Install, SetReportOnly, SetEnforce, Uninstall} : T = StepsIn(Rollback) \cup StepsIn(p)
    BY <1>5, BegunSteps
  <2>2. Whole(T)
    BY <2>1, WholePrograms, WholeUnion
  <2>3. \A p \in {Rollback, Install, SetReportOnly, SetEnforce, Uninstall} :
           "retire_tx" \notin StepsIn(p) /\ "accept_begin" \notin StepsIn(p)
    BY StepSets
  <2>4. "drop_tx" \in StepsIn(Rollback)
    BY StepSets
  <2> HIDE DEF T
  <2>5. "drop_tx" \in T /\ "retire_tx" \notin T /\ "accept_begin" \notin T
    BY <2>1, <2>3, <2>4
  <2> QED
    BY <1>1, <1>5, <2>2, <2>5 DEF T
<1> QED
  BY <1>2, <1>3, <1>4, <1>5

\* Begin keeps the invariant.
LEMMA BeginKeeps ==
    ASSUME ServiceInv, NEW c \in Commands, Begin(c)
    PROVE  ServiceInv'
<1>1. /\ cli' = [todo |-> Begun(c), loaded |-> FALSE, exact |-> FALSE]
      /\ cli'.todo = Begun(c) /\ cli'.exact = FALSE /\ cli'.loaded = FALSE
      /\ UNCHANGED <<tx, plist, manifest, db, backup, dirs, job, daemon, installs, faults, unclaimed>>
  BY DEF Begin, Idle, durable
<1>2. tx.phase \in Phases \cup {"none"}
  BY Fields DEF ServiceInv
<1>3. /\ OrderInv' /\ Whole(Todo')
      /\ "drop_tx" \in Todo' => tx.phase \notin {"none", "accepted"}
      /\ "drop_backup" \in Todo' => "drop_tx" \in Todo' \/ tx.phase = "none"
      /\ "accept_begin" \in Todo' => tx.phase = "candidate_ready_report_only"
      /\ "retire_tx" \in Todo' => "accept_commit" \in Todo' \/ tx.phase = "accepted"
      /\ "retire_tx" \in Todo' => "drop_tx" \notin Todo'
      /\ tx.phase = "accepted" => "retire_tx" \in Todo' /\ "accept_commit" \notin Todo'
      /\ "prepare" \in Todo' \/ "remove_generations" \in Todo' =>
            \/ "drop_tx" \in Todo'
            \/ "retire_tx" \in Todo' /\ "retire_backup" \in Todo'
            \/ tx.phase = "none" /\ "drop_backup" \in Todo'
  <2>1. Todo' = StepsIn(Begun(c))
    BY <1>1, TodoSteps
  <2> QED
    BY <1>1, <1>2, <2>1, BegunFacts, Zenon DEF OrderInv
<1>4. StateTypes'
  BY <1>1 DEF ServiceInv, StateTypes
<1>5. CloseInv'
  BY <1>3 DEF CloseInv, Whole
<1>6. PhaseInv'
  BY <1>1, <1>3 DEF ServiceInv, PhaseInv, Whole
<1>7. PlaceInv'
  BY <1>1, <1>3 DEF ServiceInv, PlaceInv, RollbackFloor, Whole
<1>8. RuntimeInv'
  BY <1>1 DEF ServiceInv, RuntimeInv
<1>9. TxInv'
  BY <1>1, <1>3 DEF ServiceInv, TxInv, BackupMatches, Selected, Whole
<1>10. OpenInv'
  BY <1>1, <1>3 DEF ServiceInv, OpenInv, Whole
<1>11. RequestInv'
  BY <1>1, <1>3 DEF ServiceInv, RequestInv, Desired, Quiet, Whole
<1> QED
  BY <1>3, <1>4, <1>5, <1>6, <1>7, <1>8, <1>9, <1>10, <1>11 DEF ServiceInv

\* A command that stops leaves everything to the next.
LEMMA StoppedKeeps ==
    ASSUME ServiceInv, cli' = Idle, faults' \in 0 .. MaxFaults,
           UNCHANGED <<tx, plist, manifest, db, backup, dirs, job, daemon, installs, unclaimed>>
    PROVE  ServiceInv'
<1>1. /\ cli' = [todo |-> <<>>, loaded |-> FALSE, exact |-> FALSE]
      /\ cli'.todo = <<>> /\ cli'.exact = FALSE /\ cli'.loaded = FALSE
  BY DEF Idle
<1>2. OrderInv' /\ Todo' = {}
  BY <1>1, TodoSteps, EmptyOrdered DEF OrderInv
<1>3. StateTypes'
  BY <1>1 DEF ServiceInv, StateTypes
<1>4. CloseInv' /\ PhaseInv' /\ PlaceInv'
  BY <1>2 DEF CloseInv, PhaseInv, PlaceInv
<1>5. RuntimeInv'
  BY <1>1 DEF ServiceInv, RuntimeInv
<1>6. TxInv'
  BY <1>2 DEF ServiceInv, TxInv, BackupMatches, Selected
<1>7. OpenInv'
  BY <1>2 DEF ServiceInv, OpenInv
<1>8. RequestInv'
  BY <1>2 DEF ServiceInv, RequestInv, Desired, Quiet
<1> QED
  BY <1>2, <1>3, <1>4, <1>5, <1>6, <1>7, <1>8 DEF ServiceInv

\* A command that is killed keeps the invariant.
LEMMA CommandDiesKeeps ==
    ASSUME ServiceInv, CommandDies
    PROVE  ServiceInv'
<1>1. faults' \in 0 .. MaxFaults
  BY TransactionAssumption DEF CommandDies, Fault, ServiceInv, StateTypes
<1> QED
  BY <1>1, StoppedKeeps DEF CommandDies, durable

\* A command does not begin an acceptance after it committed one.
LEMMA AfterCommit ==
    ASSUME NEW T, After("accept_commit", T)
    PROVE  "accept_begin" \notin T
  BY Ranks, MarkNames DEF After

\* The steps a failing command still has, and the phase its rollback starts from.
LEMMA FailureFacts ==
    ASSUME ServiceInv, cli.todo # <<>>
    PROVE  LET T == StepsIn(OnFailure)
           IN  /\ Ordered(OnFailure)
               /\ \/ T = {}
                  \/ T = StepsIn(Rollback) /\ tx.phase \notin {"none", "accepted"}
                  \/ T = StepsIn(SetReportOnly) /\ tx.phase # "accepted"
                  \/ /\ T = StepsIn(Emergency) \cup (Todo \ {"contain", "await_contained"})
                     /\ "contain" \in Todo \/ "await_contained" \in Todo
                     /\ tx.phase # "accepted" /\ "candidate_ready" \notin Todo
                  \/ /\ T = StepsIn(Contain) \cup (Todo \ {"disarm_unexpected"})
                     /\ "disarm_unexpected" \in Todo
                     /\ tx.phase # "accepted" /\ "candidate_ready" \notin Todo
<1> DEFINE h == Head(cli.todo)
           R == StepsIn(Tail(cli.todo))
<1>1. h \in Todo /\ Todo = {h} \cup R /\ After(h, R)
  BY TailAfter, TodoSteps DEF ServiceInv, OrderInv
<1>2. Ordered(OnFailure)
  BY FailureSteps DEF ServiceInv
<1> HIDE DEF h, R
<1>3. h \in {"arm", "arm_answer", "contain", "await_contained", "disarm_unexpected"} =>
         "retire_tx" \notin Todo /\ "candidate_ready" \notin Todo /\ tx.phase # "accepted"
  BY <1>1, AfterContainment DEF ServiceInv, PhaseInv
<1>4. h = "accept_commit" => tx.phase = "acceptance_in_progress"
  <2> SUFFICES ASSUME h = "accept_commit" PROVE "accept_begin" \notin Todo
    BY <1>1 DEF ServiceInv, PhaseInv
  <2>2. "accept_begin" \notin R
    BY <1>1, AfterCommit
  <2> QED
    BY <1>1, <2>2
<1>5. InInstall => tx.phase \notin {"none", "accepted"}
  BY DEF InInstall, ServiceInv, PhaseInv
<1> QED
  BY <1>1, <1>2, <1>3, <1>4, <1>5, FailureSteps, EmptyOrdered DEF ServiceInv, h

\* The error path of any step keeps the invariant.
LEMMA FailKeeps ==
    ASSUME ServiceInv, Fail
    PROVE  ServiceInv'
<1>1. /\ cli' = [todo |-> OnFailure, loaded |-> FALSE, exact |-> FALSE]
      /\ cli'.todo = OnFailure /\ cli'.exact = FALSE /\ cli'.loaded = FALSE
      /\ cli.todo # <<>>
      /\ UNCHANGED <<tx, plist, manifest, db, backup, dirs, job, daemon, installs, unclaimed>>
  BY DEF Fail, Idle, durable
<1>2. faults' \in 0 .. MaxFaults
  BY TransactionAssumption DEF Fail, Fault, ServiceInv, StateTypes
<1> DEFINE T == StepsIn(OnFailure)
<1>3. Todo' = T
  BY <1>1, TodoSteps
<1>4. /\ OrderInv'
      /\ \/ T = {}
         \/ T = StepsIn(Rollback) /\ tx.phase \notin {"none", "accepted"}
         \/ T = StepsIn(SetReportOnly) /\ tx.phase # "accepted"
         \/ /\ T = StepsIn(Emergency) \cup (Todo \ {"contain", "await_contained"})
            /\ "contain" \in Todo \/ "await_contained" \in Todo
            /\ tx.phase # "accepted" /\ "candidate_ready" \notin Todo
         \/ /\ T = StepsIn(Contain) \cup (Todo \ {"disarm_unexpected"})
            /\ "disarm_unexpected" \in Todo
            /\ tx.phase # "accepted" /\ "candidate_ready" \notin Todo
  BY <1>1, FailureFacts, Zenon DEF OrderInv
<1> HIDE DEF T
<1>5. StateTypes'
  BY <1>1, <1>2 DEF ServiceInv, StateTypes
<1>6. RuntimeInv'
  BY <1>1 DEF ServiceInv, RuntimeInv
<1>7. ASSUME Whole(Todo'), tx.phase # "accepted" \/ Todo' = {},
             "retire_tx" \notin Todo' /\ "prepare" \notin Todo' /\ "remove_generations" \notin Todo',
             "drop_backup" \in Todo' => "drop_tx" \in Todo',
             "drop_tx" \in Todo' => tx.phase # "none"
      PROVE  CloseInv' /\ PhaseInv' /\ PlaceInv' /\ TxInv' /\ OpenInv' /\ RequestInv'
  <2>1. CloseInv'
    BY <1>7 DEF CloseInv, Whole
  <2>2. PhaseInv'
    BY <1>1, <1>7 DEF PhaseInv, Whole
  <2>3. PlaceInv'
    BY <1>1, <1>7 DEF PlaceInv, Whole
  <2>4. TxInv'
    BY <1>1, <1>7 DEF ServiceInv, TxInv, BackupMatches, Selected, Whole
  <2>5. OpenInv'
    BY <1>1, <1>7 DEF ServiceInv, OpenInv, Whole
  <2>6. RequestInv'
    BY <1>1, <1>7 DEF ServiceInv, RequestInv, Desired, Quiet, Whole
  <2> QED
    BY <2>1, <2>2, <2>3, <2>4, <2>5, <2>6
<1>8. CASE T = {}
  BY <1>3, <1>4, <1>5, <1>6, <1>7, <1>8, WholePrograms DEF ServiceInv
<1>9. CASE T = StepsIn(Rollback) /\ tx.phase \notin {"none", "accepted"}
  <2>1. /\ "retire_tx" \notin T /\ "prepare" \notin T /\ "remove_generations" \notin T
        /\ "drop_tx" \in T /\ Whole(T)
    BY <1>9, StepSets, WholePrograms
  <2> QED
    BY <1>3, <1>4, <1>5, <1>6, <1>7, <1>9, <2>1 DEF ServiceInv
<1>10. CASE T = StepsIn(SetReportOnly) /\ tx.phase # "accepted"
  <2>1. /\ "retire_tx" \notin T /\ "prepare" \notin T /\ "remove_generations" \notin T
        /\ "drop_tx" \notin T /\ "drop_backup" \notin T /\ Whole(T)
    BY <1>10, StepSets, WholePrograms
  <2> QED
    BY <1>3, <1>4, <1>5, <1>6, <1>7, <1>10, <2>1 DEF ServiceInv
<1>11. CASE /\ T = StepsIn(Emergency) \cup (Todo \ {"contain", "await_contained"})
            /\ "contain" \in Todo \/ "await_contained" \in Todo
            /\ tx.phase # "accepted" /\ "candidate_ready" \notin Todo
  <2>1. Todo' = {"emergency_stop", "clear_request", "bootstrap", "await_runtime"}
                   \cup (Todo \ {"contain", "await_contained"})
    BY <1>3, <1>11, StepSets
  <2>2. CloseInv'
    BY <2>1 DEF ServiceInv, CloseInv
  <2>3. PhaseInv'
    BY <1>1, <1>11, <2>1 DEF ServiceInv, PhaseInv
  <2>4. PlaceInv'
    BY <1>1, <1>11, <2>1 DEF ServiceInv, PlaceInv, RollbackFloor
  <2>5. TxInv'
    BY <1>1, <2>1 DEF ServiceInv, TxInv, BackupMatches, Selected
  <2>6. OpenInv'
    BY <1>1, <2>1 DEF ServiceInv, OpenInv
  <2>7. RequestInv'
    BY <1>1, <1>11, <2>1 DEF ServiceInv, RequestInv, Desired, Quiet
  <2> QED
    BY <1>4, <1>5, <1>6, <2>2, <2>3, <2>4, <2>5, <2>6, <2>7 DEF ServiceInv
<1>12. CASE /\ T = StepsIn(Contain) \cup (Todo \ {"disarm_unexpected"})
            /\ "disarm_unexpected" \in Todo
            /\ tx.phase # "accepted" /\ "candidate_ready" \notin Todo
  <2>1. Todo' = {"contain", "await_contained"} \cup (Todo \ {"disarm_unexpected"})
    BY <1>3, <1>12, StepSets
  <2>2. CloseInv'
    BY <2>1 DEF ServiceInv, CloseInv
  <2>3. PhaseInv'
    BY <1>1, <1>12, <2>1 DEF ServiceInv, PhaseInv
  <2>4. PlaceInv'
    BY <1>1, <1>12, <2>1 DEF ServiceInv, PlaceInv, RollbackFloor
  <2>5. TxInv'
    BY <1>1, <2>1 DEF ServiceInv, TxInv, BackupMatches, Selected
  <2>6. OpenInv'
    BY <1>1, <2>1 DEF ServiceInv, OpenInv
  <2>7. RequestInv'
    BY <1>1, <1>12, <2>1 DEF ServiceInv, RequestInv, Desired, Quiet
  <2> QED
    BY <1>4, <1>5, <1>6, <2>2, <2>3, <2>4, <2>5, <2>6, <2>7 DEF ServiceInv
<1> QED
  BY <1>4, <1>8, <1>9, <1>10, <1>11, <1>12

-----------------------------------------------------------------------------
(* launchd and the daemon *)

\* launchd and the daemon leave the command its steps.
LEMMA SameTodo ==
    ASSUME OrderInv, cli'.todo = cli.todo
    PROVE  OrderInv' /\ Todo' = Todo
  BY TodoSteps DEF OrderInv

\* Boot keeps the invariant.
LEMMA BootKeeps ==
    ASSUME ServiceInv, Boot
    PROVE  ServiceInv'
<1>1. /\ cli'.todo = cli.todo /\ cli'.exact = cli.exact /\ cli'.loaded = cli.loaded
      /\ cli' = [todo |-> cli'.todo, loaded |-> cli'.loaded, exact |-> cli'.exact]
      /\ job # 0 /\ daemon = NoDaemon
      /\ db' = [by |-> dirs[job], gen |-> job, carry |-> FALSE]
      /\ daemon' = [gen |-> job, state |-> "recovering", pending |-> (db.carry /\ db.gen = job)]
      /\ db'.by = dirs[job] /\ db'.gen = job /\ db'.carry = FALSE /\ daemon'.gen = job
      /\ daemon'.state = "recovering" /\ daemon'.pending = (db.carry /\ db.gen = job)
      /\ UNCHANGED <<tx, plist, manifest, backup, dirs, job, installs, faults, unclaimed>>
  BY TransactionAssumption DEF Boot, durable, ServiceInv, StateTypes
<1>2. OrderInv' /\ Todo' = Todo
  BY <1>1, SameTodo DEF ServiceInv
<1>4. StateTypes'
  <2>1. db' \in [by : 0 .. MaxInstalls, gen : 0 .. MaxInstalls, carry : BOOLEAN]
    <3>1. job \in 1 .. MaxInstalls /\ dirs[job] \in 0 .. MaxInstalls
      BY <1>1, Fields DEF ServiceInv, StateTypes, Generations
    <3> QED
      BY <1>1, <3>1
  <2>2. daemon' \in [gen : 0 .. MaxInstalls, pending : BOOLEAN,
                   state : {"none", "recovering", "first_scan", "ready", "enforce",
                            "failed", "draining"}]
    BY <1>1, Fields, NothingTypes, TransactionAssumption DEF ServiceInv, StateTypes,
       Generations
  <2> QED
    BY <1>1, <2>1, <2>2 DEF ServiceInv, StateTypes
<1>5. CloseInv'
  BY <1>1, <1>2 DEF ServiceInv, CloseInv
<1>6. PhaseInv'
  BY <1>1, <1>2 DEF ServiceInv, PhaseInv
<1>7. PlaceInv'
  BY <1>1, <1>2 DEF ServiceInv, PlaceInv, RollbackFloor
<1>8. RuntimeInv'
  BY <1>1, <1>2, Fields, NothingFields DEF ServiceInv, RuntimeInv
<1>9. TxInv'
  BY <1>1, <1>2, Fields, NothingFields DEF ServiceInv, TxInv, BackupMatches, Selected,
     RuntimeInv
<1>10. OpenInv'
  BY <1>1, <1>2, Fields, NothingFields DEF ServiceInv, OpenInv, CloseInv, PlaceInv,
     RuntimeInv, Generations
<1>11. RequestInv'
  BY <1>1, <1>2, Fields, NothingFields DEF ServiceInv, RequestInv, Desired, Quiet,
     RuntimeInv
<1> QED
  BY <1>2, <1>4, <1>5, <1>6, <1>7, <1>8, <1>9, <1>10, <1>11 DEF ServiceInv

\* FinishRecovery keeps the invariant.
LEMMA FinishRecoveryKeeps ==
    ASSUME ServiceInv, FinishRecovery
    PROVE  ServiceInv'
<1>1. /\ cli'.todo = cli.todo /\ cli'.exact = cli.exact /\ cli'.loaded = cli.loaded
      /\ cli' = [todo |-> cli'.todo, loaded |-> cli'.loaded, exact |-> cli'.exact]
      /\ daemon.state = "recovering"
      /\ daemon' = [daemon EXCEPT !.state = "first_scan"]
      /\ daemon'.gen = daemon.gen /\ daemon'.state = "first_scan"
      /\ daemon'.pending = daemon.pending
      /\ UNCHANGED <<tx, plist, manifest, db, backup, dirs, job, installs, faults, unclaimed>>
  BY TransactionAssumption DEF FinishRecovery, durable, ServiceInv, StateTypes
<1>2. OrderInv' /\ Todo' = Todo
  BY <1>1, SameTodo DEF ServiceInv
<1>4. StateTypes'
  <2>1. daemon' \in [gen : 0 .. MaxInstalls, pending : BOOLEAN,
                   state : {"none", "recovering", "first_scan", "ready", "enforce",
                            "failed", "draining"}]
    BY <1>1, Fields, NothingTypes, TransactionAssumption DEF ServiceInv, StateTypes
  <2> QED
    BY <1>1, <2>1 DEF ServiceInv, StateTypes
<1>5. CloseInv'
  BY <1>1, <1>2 DEF ServiceInv, CloseInv
<1>6. PhaseInv'
  BY <1>1, <1>2 DEF ServiceInv, PhaseInv
<1>7. PlaceInv'
  BY <1>1, <1>2 DEF ServiceInv, PlaceInv, RollbackFloor
<1>8. RuntimeInv'
  BY <1>1, <1>2, Fields, NothingFields DEF ServiceInv, RuntimeInv
<1>9. TxInv'
  BY <1>1, <1>2, Fields, NothingFields DEF ServiceInv, TxInv, BackupMatches, Selected,
     RuntimeInv
<1>10. OpenInv'
  BY <1>1, <1>2, Fields, NothingFields DEF ServiceInv, OpenInv, CloseInv, PlaceInv,
     RuntimeInv
<1>11. RequestInv'
  BY <1>1, <1>2, Fields, NothingFields DEF ServiceInv, RequestInv, Desired, Quiet,
     RuntimeInv
<1> QED
  BY <1>2, <1>4, <1>5, <1>6, <1>7, <1>8, <1>9, <1>10, <1>11 DEF ServiceInv

\* The first scan ends report-only: the invariant holds after it.
LEMMA FirstScanReadyKeeps ==
    ASSUME ServiceInv, daemon.state = "first_scan",
           daemon' = [daemon EXCEPT !.state = "ready", !.pending = FALSE],
           db' = [db EXCEPT !.carry = FALSE],
           UNCHANGED <<tx, durable, job, cli, installs, faults, unclaimed>>
    PROVE  ServiceInv'
<1>1. /\ cli'.todo = cli.todo /\ cli'.exact = cli.exact /\ cli'.loaded = cli.loaded
      /\ cli' = [todo |-> cli'.todo, loaded |-> cli'.loaded, exact |-> cli'.exact]
      /\ daemon.state = "first_scan"
      /\ db' = [db EXCEPT !.carry = FALSE]
      /\ daemon' = [daemon EXCEPT !.state = "ready", !.pending = FALSE]
      /\ db'.by = db.by /\ db'.gen = db.gen /\ db'.carry = FALSE
      /\ daemon'.gen = daemon.gen /\ daemon'.state = "ready"
      /\ daemon'.pending = FALSE
      /\ UNCHANGED <<tx, plist, manifest, backup, dirs, job, installs, faults, unclaimed>>
  BY TransactionAssumption DEF vars, durable, ServiceInv, StateTypes
<1>2. OrderInv' /\ Todo' = Todo
  BY <1>1, SameTodo DEF ServiceInv
<1>4. StateTypes'
  <2>1. db' \in [by : 0 .. MaxInstalls, gen : 0 .. MaxInstalls, carry : BOOLEAN]
    BY <1>1, Fields, NothingTypes, TransactionAssumption DEF ServiceInv, StateTypes
  <2>2. daemon' \in [gen : 0 .. MaxInstalls, pending : BOOLEAN,
                   state : {"none", "recovering", "first_scan", "ready", "enforce",
                            "failed", "draining"}]
    BY <1>1, Fields, NothingTypes, TransactionAssumption DEF ServiceInv, StateTypes
  <2> QED
    BY <1>1, <2>1, <2>2 DEF ServiceInv, StateTypes
<1>5. CloseInv'
  BY <1>1, <1>2 DEF ServiceInv, CloseInv
<1>6. PhaseInv'
  BY <1>1, <1>2 DEF ServiceInv, PhaseInv
<1>7. PlaceInv'
  BY <1>1, <1>2 DEF ServiceInv, PlaceInv, RollbackFloor
<1>8. RuntimeInv'
  BY <1>1, <1>2, Fields, NothingFields DEF ServiceInv, RuntimeInv
<1>9. TxInv'
  BY <1>1, <1>2, Fields, NothingFields DEF ServiceInv, TxInv, BackupMatches, Selected,
     RuntimeInv
<1>10. OpenInv'
  BY <1>1, <1>2, Fields, NothingFields DEF ServiceInv, OpenInv, CloseInv, PlaceInv,
     RuntimeInv
<1>11. RequestInv'
  BY <1>1, <1>2, Fields, NothingFields DEF ServiceInv, RequestInv, Desired, Quiet,
     RuntimeInv
<1> QED
  BY <1>2, <1>4, <1>5, <1>6, <1>7, <1>8, <1>9, <1>10, <1>11 DEF ServiceInv

\* The first scan ends with the carried request: the invariant holds after it.
LEMMA FirstScanArmsKeeps ==
    ASSUME ServiceInv, daemon.state = "first_scan", daemon.pending,
           daemon' = [daemon EXCEPT !.state = "enforce", !.pending = FALSE],
           db' = [db EXCEPT !.carry = TRUE],
           UNCHANGED <<tx, durable, job, cli, installs, faults, unclaimed>>
    PROVE  ServiceInv'
<1>1. /\ cli'.todo = cli.todo /\ cli'.exact = cli.exact /\ cli'.loaded = cli.loaded
      /\ cli' = [todo |-> cli'.todo, loaded |-> cli'.loaded, exact |-> cli'.exact]
      /\ daemon.state = "first_scan" /\ daemon.pending
      /\ db' = [db EXCEPT !.carry = TRUE]
      /\ daemon' = [daemon EXCEPT !.state = "enforce", !.pending = FALSE]
      /\ db'.by = db.by /\ db'.gen = db.gen /\ db'.carry = TRUE
      /\ daemon'.gen = daemon.gen /\ daemon'.state = "enforce"
      /\ daemon'.pending = FALSE
      /\ UNCHANGED <<tx, plist, manifest, backup, dirs, job, installs, faults, unclaimed>>
  BY TransactionAssumption DEF vars, durable, ServiceInv, StateTypes
<1>2. OrderInv' /\ Todo' = Todo
  BY <1>1, SameTodo DEF ServiceInv
<1>4. StateTypes'
  <2>1. db' \in [by : 0 .. MaxInstalls, gen : 0 .. MaxInstalls, carry : BOOLEAN]
    BY <1>1, Fields, NothingTypes, TransactionAssumption DEF ServiceInv, StateTypes
  <2>2. daemon' \in [gen : 0 .. MaxInstalls, pending : BOOLEAN,
                   state : {"none", "recovering", "first_scan", "ready", "enforce",
                            "failed", "draining"}]
    BY <1>1, Fields, NothingTypes, TransactionAssumption DEF ServiceInv, StateTypes
  <2> QED
    BY <1>1, <2>1, <2>2 DEF ServiceInv, StateTypes
<1>5. CloseInv'
  BY <1>1, <1>2 DEF ServiceInv, CloseInv
<1>6. PhaseInv'
  BY <1>1, <1>2 DEF ServiceInv, PhaseInv
<1>7. PlaceInv'
  BY <1>1, <1>2 DEF ServiceInv, PlaceInv, RollbackFloor
<1>8. RuntimeInv'
  BY <1>1, <1>2, Fields, NothingFields DEF ServiceInv, RuntimeInv
<1>9. TxInv'
  BY <1>1, <1>2, Fields, NothingFields DEF ServiceInv, TxInv, BackupMatches, Selected,
     RuntimeInv
<1>10. OpenInv'
  BY <1>1, <1>2, Fields, NothingFields DEF ServiceInv, OpenInv, CloseInv, PlaceInv,
     RuntimeInv
<1>11. RequestInv'
  BY <1>1, <1>2, Fields, NothingFields DEF ServiceInv, RequestInv, Desired, Quiet,
     RuntimeInv
<1> QED
  BY <1>2, <1>4, <1>5, <1>6, <1>7, <1>8, <1>9, <1>10, <1>11 DEF ServiceInv

\* CompleteFirstScan keeps the invariant.
LEMMA CompleteFirstScanKeeps ==
    ASSUME ServiceInv, CompleteFirstScan
    PROVE  ServiceInv'
<1>1. PICK state \in IF daemon.pending THEN {"enforce", "ready"} ELSE {"ready"} :
         /\ daemon' = [daemon EXCEPT !.state = state, !.pending = FALSE]
         /\ db' = [db EXCEPT !.carry = state = "enforce"]
  BY DEF CompleteFirstScan
<1>2. /\ daemon.state = "first_scan"
      /\ UNCHANGED <<tx, durable, job, cli, installs, faults, unclaimed>>
  BY DEF CompleteFirstScan
<1>3. CASE state = "ready"
  BY <1>1, <1>2, <1>3, FirstScanReadyKeeps
<1>4. CASE state = "enforce" /\ daemon.pending
  BY <1>1, <1>2, <1>4, FirstScanArmsKeeps
<1> QED
  BY <1>1, <1>3, <1>4

\* FailClosed keeps the invariant.
LEMMA FailClosedKeeps ==
    ASSUME ServiceInv, FailClosed
    PROVE  ServiceInv'
<1>1. /\ cli'.todo = cli.todo /\ cli'.exact = cli.exact /\ cli'.loaded = cli.loaded
      /\ cli' = [todo |-> cli'.todo, loaded |-> cli'.loaded, exact |-> cli'.exact]
      /\ daemon.state \in {"recovering", "first_scan", "ready", "enforce"}
      /\ db' = [db EXCEPT !.carry = FALSE]
      /\ daemon' = [daemon EXCEPT !.state = "failed", !.pending = FALSE]
      /\ db'.by = db.by /\ db'.gen = db.gen /\ db'.carry = FALSE
      /\ daemon'.gen = daemon.gen /\ daemon'.state = "failed"
      /\ daemon'.pending = FALSE
      /\ UNCHANGED <<tx, plist, manifest, backup, dirs, job, installs, unclaimed>>
      /\ faults' \in 0 .. MaxFaults
  BY TransactionAssumption DEF FailClosed, durable, ServiceInv, StateTypes, Fault
<1>2. OrderInv' /\ Todo' = Todo
  BY <1>1, SameTodo DEF ServiceInv
<1>4. StateTypes'
  <2>1. db' \in [by : 0 .. MaxInstalls, gen : 0 .. MaxInstalls, carry : BOOLEAN]
    BY <1>1, Fields, NothingTypes, TransactionAssumption DEF ServiceInv, StateTypes
  <2>2. daemon' \in [gen : 0 .. MaxInstalls, pending : BOOLEAN,
                   state : {"none", "recovering", "first_scan", "ready", "enforce",
                            "failed", "draining"}]
    BY <1>1, Fields, NothingTypes, TransactionAssumption DEF ServiceInv, StateTypes
  <2> QED
    BY <1>1, <2>1, <2>2 DEF ServiceInv, StateTypes
<1>5. CloseInv'
  BY <1>1, <1>2 DEF ServiceInv, CloseInv
<1>6. PhaseInv'
  BY <1>1, <1>2 DEF ServiceInv, PhaseInv
<1>7. PlaceInv'
  BY <1>1, <1>2 DEF ServiceInv, PlaceInv, RollbackFloor
<1>8. RuntimeInv'
  BY <1>1, <1>2, Fields, NothingFields DEF ServiceInv, RuntimeInv
<1>9. TxInv'
  BY <1>1, <1>2, Fields, NothingFields DEF ServiceInv, TxInv, BackupMatches, Selected,
     RuntimeInv
<1>10. OpenInv'
  BY <1>1, <1>2, Fields, NothingFields DEF ServiceInv, OpenInv, CloseInv, PlaceInv,
     RuntimeInv
<1>11. RequestInv'
  BY <1>1, <1>2, Fields, NothingFields DEF ServiceInv, RequestInv, Desired, Quiet,
     RuntimeInv
<1> QED
  BY <1>2, <1>4, <1>5, <1>6, <1>7, <1>8, <1>9, <1>10, <1>11 DEF ServiceInv

\* A daemon that exits keeps the invariant, whatever ended it.
LEMMA GoneKeeps ==
    ASSUME ServiceInv, Gone, faults' \in 0 .. MaxFaults,
           UNCHANGED <<tx, durable, db, job, installs, unclaimed>>
    PROVE  ServiceInv'
<1>1. /\ cli'.todo = cli.todo /\ cli'.exact = FALSE /\ cli'.loaded = cli.loaded
      /\ cli' = [todo |-> cli'.todo, loaded |-> cli'.loaded, exact |-> cli'.exact]
      /\ daemon' = NoDaemon
      /\ UNCHANGED <<tx, plist, manifest, db, backup, dirs, job, installs, unclaimed>>
      /\ faults' \in 0 .. MaxFaults
  BY TransactionAssumption DEF Gone, durable, ServiceInv, StateTypes, Fault
<1>2. OrderInv' /\ Todo' = Todo
  BY <1>1, SameTodo DEF ServiceInv
<1>4. StateTypes'
  <2>1. daemon' \in [gen : 0 .. MaxInstalls, pending : BOOLEAN,
                   state : {"none", "recovering", "first_scan", "ready", "enforce",
                            "failed", "draining"}]
    BY <1>1, Fields, NothingTypes, TransactionAssumption DEF ServiceInv, StateTypes
  <2> QED
    BY <1>1, <2>1 DEF ServiceInv, StateTypes
<1>5. CloseInv'
  BY <1>1, <1>2 DEF ServiceInv, CloseInv
<1>6. PhaseInv'
  BY <1>1, <1>2 DEF ServiceInv, PhaseInv
<1>7. PlaceInv'
  BY <1>1, <1>2 DEF ServiceInv, PlaceInv, RollbackFloor
<1>8. RuntimeInv'
  BY <1>1, <1>2, Fields, NothingFields DEF ServiceInv, RuntimeInv
<1>9. TxInv'
  BY <1>1, <1>2, Fields, NothingFields DEF ServiceInv, TxInv, BackupMatches, Selected,
     RuntimeInv
<1>10. OpenInv'
  BY <1>1, <1>2, Fields, NothingFields DEF ServiceInv, OpenInv, CloseInv, PlaceInv,
     RuntimeInv
<1>11. RequestInv'
  BY <1>1, <1>2, Fields, NothingFields DEF ServiceInv, RequestInv, Desired, Quiet,
     RuntimeInv
<1> QED
  BY <1>2, <1>4, <1>5, <1>6, <1>7, <1>8, <1>9, <1>10, <1>11 DEF ServiceInv

\* A drained daemon and a crashed one only exit.
LEMMA DaemonExitsKeep ==
    ASSUME ServiceInv, DrainExit \/ DaemonCrashes
    PROVE  ServiceInv'
<1>1. faults' \in 0 .. MaxFaults
  BY TransactionAssumption DEF DrainExit, DaemonCrashes, Fault, ServiceInv, StateTypes
<1> QED
  BY <1>1, GoneKeeps DEF DrainExit, DaemonCrashes

\* Reboot keeps the invariant.
LEMMA RebootKeeps ==
    ASSUME ServiceInv, Reboot
    PROVE  ServiceInv'
<1>1. /\ cli' = [todo |-> <<>>, loaded |-> FALSE, exact |-> FALSE]
      /\ cli'.todo = <<>> /\ cli'.exact = FALSE /\ cli'.loaded = FALSE
      /\ job' = plist /\ daemon' = NoDaemon
      /\ UNCHANGED <<tx, plist, manifest, backup, dirs, installs, unclaimed>>
      /\ faults' \in 0 .. MaxFaults
  BY TransactionAssumption DEF Reboot, Fault, Idle, durable, ServiceInv, StateTypes
<1>2. /\ db' \in [by : 0 .. MaxInstalls, gen : 0 .. MaxInstalls, carry : BOOLEAN]
      /\ db'.by = db.by /\ db'.gen = db.gen
      /\ db'.carry => db.carry \/ daemon.pending
  <2>1. CASE db' = db
    BY <2>1 DEF ServiceInv, StateTypes
  <2>2. CASE db' = [db EXCEPT !.carry = db.carry \/ daemon.pending]
    BY <2>2, Fields DEF ServiceInv, StateTypes
  <2> QED
    BY <2>1, <2>2 DEF Reboot, Terminated
<1>3. OrderInv' /\ Todo' = {}
  BY <1>1, TodoSteps, EmptyOrdered DEF OrderInv
<1>4. StateTypes'
  BY <1>1, <1>2, NothingTypes DEF ServiceInv, StateTypes
<1>5. CloseInv' /\ PhaseInv' /\ PlaceInv'
  BY <1>3 DEF CloseInv, PhaseInv, PlaceInv
<1>6. RuntimeInv'
  BY <1>1 DEF RuntimeInv
<1>7. TxInv'
  BY <1>1, <1>2, <1>3 DEF ServiceInv, TxInv, BackupMatches, Selected
<1>8. OpenInv'
  BY <1>1, <1>2, <1>3 DEF ServiceInv, OpenInv
<1>9. RequestInv'
  <2>1. daemon.pending => daemon # NoDaemon /\ job # 0 /\ daemon.gen = db.gen /\ plist # 0
    BY NothingFields DEF ServiceInv, RuntimeInv
  <2>2. db'.carry => Desired(db.gen) \/ unclaimed
    BY <1>2, <2>1 DEF ServiceInv, RequestInv
  <2>3. plist = 0 /\ db'.carry => unclaimed
    BY <1>2, <2>1 DEF ServiceInv, RequestInv, RuntimeInv
  <2> QED
    BY <1>1, <1>2, <1>3, <2>2, <2>3, NothingFields DEF ServiceInv, RequestInv, Desired,
       Quiet
<1> QED
  BY <1>3, <1>4, <1>5, <1>6, <1>7, <1>8, <1>9 DEF ServiceInv

-----------------------------------------------------------------------------
(* The invariant *)

\* All outcomes of disarm keep the invariant.
LEMMA DisarmKeeps ==
    ASSUME ServiceInv, Disarm
    PROVE  ServiceInv'
  BY DisarmAbsentKeeps, DisarmBlindKeeps, DisarmAnsweredKeeps DEF Disarm

\* Both outcomes of the survey keep the invariant.
LEMMA SurveyKeeps ==
    ASSUME ServiceInv, Survey
    PROVE  ServiceInv'
  BY SurveyUnloadsKeeps, SurveyLooksKeeps

\* Restarting the prior generation keeps the invariant, loaded or not.
LEMMA RestartPriorKeeps ==
    ASSUME ServiceInv, RestartPrior
    PROVE  ServiceInv'
  BY RestartPriorLoadsKeeps, RestartPriorSkipsKeeps

\* Both outcomes of disarm_unexpected keep the invariant.
LEMMA DisarmUnexpectedKeeps ==
    ASSUME ServiceInv, DisarmUnexpected
    PROVE  ServiceInv'
  BY DisarmUnexpectedActsKeeps, DisarmUnexpectedLooksKeeps

\* Every step of a command keeps the invariant.
LEMMA CommandStepKeeps ==
    ASSUME ServiceInv, CommandStep
    PROVE  ServiceInv'
<1>1. CASE Drain
  BY <1>1, DrainKeeps
<1>2. CASE Bootout
  BY <1>2, BootoutKeeps
<1>3. CASE EmergencyStop
  BY <1>3, EmergencyStopKeeps
<1>4. CASE ClearRequest
  BY <1>4, ClearRequestKeeps
<1>5. CASE Bootstrap
  BY <1>5, BootstrapKeeps
<1>6. CASE Prepare
  BY <1>6, PrepareKeeps
<1>7. CASE CreateGeneration
  BY <1>7, CreateGenerationKeeps
<1>8. CASE Persist("candidate_durable", "candidate_durable")
  BY <1>8, PersistCandidateDurableKeeps
<1>9. CASE Persist("prior_drained", "prior_drained")
  BY <1>9, PersistPriorDrainedKeeps
<1>10. CASE Persist("candidate_selected", "candidate_selected")
  BY <1>10, PersistCandidateSelectedKeeps
<1>11. CASE Persist("candidate_ready", "candidate_ready_report_only")
  BY <1>11, PersistCandidateReadyKeeps
<1>12. CASE Persist("accept_begin", "acceptance_in_progress")
  BY <1>12, PersistAcceptBeginKeeps
<1>13. CASE Persist("accept_commit", "accepted")
  BY <1>13, PersistAcceptCommitKeeps
<1>14. CASE BackupDatabase
  BY <1>14, BackupDatabaseKeeps
<1>15. CASE CommitBackup
  BY <1>15, CommitBackupKeeps
<1>16. CASE WritePlist("select_plist", tx.cand)
  BY <1>16, SelectPlistKeeps
<1>17. CASE WriteManifest("select_manifest", [gen |-> tx.cand, mode |-> "report_only"])
  BY <1>17, SelectManifestKeeps
<1>18. CASE MarkRollbackInProgress
  BY <1>18, MarkKeeps
<1>19. CASE Evict
  BY <1>19, EvictKeeps
<1>20. CASE RestoreDatabase
  BY <1>20, RestoreDatabaseKeeps
<1>21. CASE WritePlist("restore_plist", tx.prior)
  BY <1>21, RestorePlistKeeps
<1>22. CASE WriteManifest("restore_manifest", RollbackFloor)
  BY <1>22, RestoreManifestKeeps
<1>23. CASE RemoveTransaction("drop_tx")
  BY <1>23, DropTxKeeps
<1>24. CASE RemoveTransaction("retire_tx")
  BY <1>24, RetireTxKeeps
<1>25. CASE RemoveBackup("drop_backup")
  BY <1>25, DropBackupKeeps
<1>26. CASE RemoveBackup("retire_backup")
  BY <1>26, RetireBackupKeeps
<1>27. CASE ContainByDisarm
  BY <1>27, ContainByDisarmKeeps
<1>28. CASE ArmPreflight
  BY <1>28, ArmPreflightKeeps
<1>29. CASE Arm
  BY <1>29, ArmKeeps
<1>30. CASE WriteManifest("publish_report_only", [manifest EXCEPT !.mode = "report_only"])
  BY <1>30, PublishReportOnlyKeeps
<1>31. CASE WriteManifest("publish_enforce", [manifest EXCEPT !.mode = "enforce"])
  BY <1>31, PublishEnforceKeeps
<1>32. CASE WritePlist("remove_plist", 0)
  BY <1>32, RemovePlistKeeps
<1>33. CASE WriteManifest("remove_manifest", NoManifest)
  BY <1>33, RemoveManifestKeeps
<1>34. CASE RemoveGenerations
  BY <1>34, RemoveGenerationsKeeps
<1>35. CASE Disarm
  BY <1>35, DisarmKeeps
<1>36. CASE Survey
  BY <1>36, SurveyKeeps
<1>37. CASE RestartPrior
  BY <1>37, RestartPriorKeeps
<1>38. CASE DisarmUnexpected
  BY <1>38, DisarmUnexpectedKeeps
<1>39. CASE \E step \in Waits \cup {"check_restart", "arm_answer"} : Check(step)
  BY <1>39, CheckKeeps
<1> QED
  BY <1>1, <1>2, <1>3, <1>4, <1>5, <1>6, <1>7, <1>8, <1>9, <1>10, <1>11, <1>12, <1>13,
     <1>14, <1>15, <1>16, <1>17, <1>18, <1>19, <1>20, <1>21, <1>22, <1>23, <1>24, <1>25,
     <1>26, <1>27, <1>28, <1>29, <1>30, <1>31, <1>32, <1>33, <1>34, <1>35, <1>36, <1>37,
     <1>38, <1>39 DEF CommandStep

\* The invariant holds before the first install.
LEMMA InitInvariant == Init => ServiceInv
<1> SUFFICES ASSUME Init PROVE ServiceInv
  OBVIOUS
<1>1. /\ tx = NoTx /\ plist = 0 /\ manifest = NoManifest /\ db = NoDb /\ backup = NoDb
      /\ dirs = [g \in Generations |-> 0]
      /\ job = 0 /\ daemon = NoDaemon
      /\ cli = [todo |-> <<>>, loaded |-> FALSE, exact |-> FALSE]
      /\ cli.todo = <<>> /\ cli.loaded = FALSE /\ cli.exact = FALSE
      /\ installs = 0 /\ faults = 0 /\ unclaimed = FALSE
  BY DEF Init, Idle
<1>2. OrderInv /\ Todo = {}
  BY <1>1, TodoSteps, EmptyOrdered DEF OrderInv
<1>3. StateTypes
  <2>1. dirs \in [Generations -> 0 .. MaxInstalls]
    BY <1>1, TransactionAssumption, SMT
  <2>2. /\ plist \in 0 .. MaxInstalls /\ job \in 0 .. MaxInstalls
        /\ installs \in 0 .. MaxInstalls /\ faults \in 0 .. MaxFaults
    BY <1>1, TransactionAssumption, SMT
  <2>3. /\ cli = [todo |-> cli.todo, loaded |-> cli.loaded, exact |-> cli.exact]
        /\ cli.loaded \in BOOLEAN /\ cli.exact \in BOOLEAN /\ unclaimed \in BOOLEAN
    BY <1>1, Zenon
  <2> QED
    BY <1>1, <2>1, <2>2, <2>3, NothingTypes, Zenon DEF StateTypes
<1>4. CloseInv /\ PhaseInv /\ PlaceInv
  BY <1>1, <1>2, NothingFields DEF CloseInv, PhaseInv, PlaceInv
<1>5. RuntimeInv
  BY <1>1 DEF RuntimeInv
<1>6. TxInv
  BY <1>1, <1>2, NothingFields DEF TxInv, Settled
<1>7. OpenInv
  BY <1>1, <1>2, NothingFields DEF OpenInv, Settled
<1>8. RequestInv
  BY <1>1, <1>2, NothingFields DEF RequestInv
<1> QED
  BY <1>2, <1>3, <1>4, <1>5, <1>6, <1>7, <1>8 DEF ServiceInv

\* A stuttering step keeps the invariant.
LEMMA StutterKeeps ==
    ASSUME ServiceInv, UNCHANGED vars
    PROVE  ServiceInv'
<1>1. /\ UNCHANGED <<tx, plist, manifest, db, backup, dirs, job, daemon, cli, installs,
                     faults, unclaimed>>
      /\ Todo' = Todo /\ OrderInv'
  BY SameTodo DEF vars, durable, ServiceInv
<1>2. StateTypes' /\ CloseInv' /\ PhaseInv' /\ PlaceInv' /\ RuntimeInv'
  BY <1>1 DEF ServiceInv, StateTypes, CloseInv, PhaseInv, PlaceInv, RollbackFloor,
     RuntimeInv
<1>3. TxInv' /\ OpenInv' /\ RequestInv'
  BY <1>1 DEF ServiceInv, TxInv, BackupMatches, Selected, OpenInv, RequestInv, Desired,
     Quiet
<1> QED
  BY <1>1, <1>2, <1>3 DEF ServiceInv

\* Every step keeps the invariant.
LEMMA NextKeeps ==
    ASSUME ServiceInv, [Next]_vars
    PROVE  ServiceInv'
<1>1. CASE CommandStep
  BY <1>1, CommandStepKeeps
<1>2. CASE Fail \/ CommandDies
  BY <1>2, FailKeeps, CommandDiesKeeps
<1>3. CASE \E c \in Commands : Begin(c)
  BY <1>3, BeginKeeps
<1>4. CASE Boot \/ FinishRecovery
  BY <1>4, BootKeeps, FinishRecoveryKeeps
<1>5. CASE CompleteFirstScan \/ FailClosed
  BY <1>5, CompleteFirstScanKeeps, FailClosedKeeps
<1>6. CASE DrainExit \/ DaemonCrashes \/ Reboot
  BY <1>6, DaemonExitsKeep, RebootKeeps
<1>7. CASE UNCHANGED vars
  BY <1>7, StutterKeeps
<1> QED
  BY <1>1, <1>2, <1>3, <1>4, <1>5, <1>6, <1>7 DEF Next, Command, Environment

(* The inductive invariant of the service commands: in every reachable state,   *)
(* for any number of installs and faults, the steps that the running command    *)
(* still has to take agree with the transaction file, the selection, the        *)
(* rollback material, the history and the enforce request.                      *)
THEOREM ServiceInvariant == Spec => []ServiceInv
<1>1. Init => ServiceInv
  BY InitInvariant
<1>2. ServiceInv /\ [Next]_vars => ServiceInv'
  BY NextKeeps
<1> QED
  BY <1>1, <1>2, PTL DEF Spec

-----------------------------------------------------------------------------
(* What the invariant gives *)

\* Every step that is ordered is a step of the module.
LEMMA StepNames == Marks \cup Stopping \subseteq Steps
<1>1. /\ StepsIn(Install) \subseteq Steps /\ StepsIn(Accept) \subseteq Steps
      /\ StepsIn(Rollback) \subseteq Steps /\ StepsIn(Restart) \subseteq Steps
      /\ StepsIn(SetReportOnly) \subseteq Steps /\ StepsIn(SetEnforce) \subseteq Steps
      /\ StepsIn(Uninstall) \subseteq Steps
  <2>1. \A c \in Commands : StepsIn(Program(c)) \subseteq Steps
    BY DEF Steps, StepsIn
  <2>2. /\ "install" \in Commands /\ "accept" \in Commands /\ "rollback" \in Commands
        /\ "restart" \in Commands /\ "report" \in Commands /\ "enforce" \in Commands
        /\ "uninstall" \in Commands
    BY DEF Commands
  <2>3. /\ Program("install") = Install /\ Program("accept") = Accept
        /\ Program("rollback") = Rollback /\ Program("restart") = Restart
        /\ Program("report") = SetReportOnly /\ Program("enforce") = SetEnforce
        /\ Program("uninstall") = Uninstall
    BY DEF Program
  <2> QED
    BY <2>1, <2>2, <2>3
<1>2. \A x \in Marks \cup Stopping :
         \/ x \in StepsIn(Install) \/ x \in StepsIn(Accept) \/ x \in StepsIn(Rollback)
         \/ x \in StepsIn(Restart) \/ x \in StepsIn(SetReportOnly)
         \/ x \in StepsIn(SetEnforce) \/ x \in StepsIn(Uninstall)
  BY StepSets DEF Marks, Stopping
<1> QED
  BY <1>1, <1>2

(* Every value the commands write has its type: the transaction file and its    *)
(* phase, the selected generations, the histories and what is left to do.       *)
THEOREM ServiceTypes == Spec => []TypeOK
<1>1. ServiceInv => TypeOK
  <2> SUFFICES ASSUME ServiceInv PROVE TypeOK
    OBVIOUS
  <2>1. cli.todo \in Seq(Steps)
    <3>1. cli.todo \in Seq(Marks \cup Stopping)
      BY DEF ServiceInv, OrderInv, Ordered
    <3> DEFINE S == Marks \cup Stopping
    <3> HIDE DEF S
    <3>2. S \subseteq Steps /\ cli.todo \in Seq(S)
      BY <3>1, StepNames DEF S
    <3> QED
      BY <3>2
  <2> QED
    BY <2>1 DEF ServiceInv, StateTypes, TypeOK
<1> QED
  BY <1>1, ServiceInvariant, PTL

(* A daemon enforces only beside a manifest that selects its generation and     *)
(* desires enforcement, unless a request was left behind by a job unloaded      *)
(* without Disarm: however installs, rollbacks, mode changes, crashes and       *)
(* restarts interleave.                                                         *)
THEOREM EnforcementIsDesired == Spec => []EnforceIsDesired
<1>1. ServiceInv => EnforceIsDesired
  <2> SUFFICES ASSUME ServiceInv, daemon.state = "enforce", ~unclaimed
               PROVE  manifest = [gen |-> daemon.gen, mode |-> "enforce"]
    BY DEF EnforceIsDesired
  <2>1. manifest.gen = daemon.gen /\ manifest.mode = "enforce"
    BY DEF ServiceInv, RequestInv, Desired
  <2> QED
    BY <2>1 DEF ServiceInv, StateTypes
<1> QED
  BY <1>1, ServiceInvariant, PTL

(* The generation launchd has loaded can open the history: no failure between   *)
(* the candidate's first write and the end of its rollback lets a prior build   *)
(* run over a database that a newer build has written.                          *)
THEOREM LoadedBuildOpensHistory == Spec => []LoadedCanOpenHistory
<1>1. ServiceInv => LoadedCanOpenHistory
  BY DEF ServiceInv, LoadedCanOpenHistory, RuntimeInv, OpenInv
<1> QED
  BY <1>1, ServiceInvariant, PTL

(* From an install's first durable write until acceptance or the end of the     *)
(* rollback, rollback_install_transaction finds what it validates, but for a    *)
(* backup published and not yet recorded.                                       *)
THEOREM RollbackPossible == Spec => []RollbackStaysPossible
<1>1. ServiceInv => RollbackStaysPossible
  <2> SUFFICES ASSUME ServiceInv, Disposition(tx.phase) \in {"rollback", "hold"},
                      ~UncommittedBackup
               PROVE  RollbackValid
    BY DEF RollbackStaysPossible
  <2>1. tx.phase \notin {"none", "accepted"}
    BY DEF Disposition
  <2>2. InScope(plist) /\ InScope(manifest.gen)
    BY <2>1 DEF ServiceInv, TxInv, InScope
  <2>3. BackupMatches
    BY <2>1 DEF ServiceInv, TxInv, UncommittedBackup, BackupMatches, Settled
  <2> QED
    BY <2>2, <2>3 DEF RollbackValid
<1> QED
  BY <1>1, ServiceInvariant, PTL

(* While no command runs and no transaction is pending, the LaunchAgent selects *)
(* nothing or exactly the generation of the active manifest, whose directory    *)
(* exists.                                                                      *)
THEOREM SelectionSettles == Spec => []SettledSelection
<1>1. ServiceInv => SettledSelection
  BY NothingFields DEF ServiceInv, TxInv, SettledSelection
<1> QED
  BY <1>1, ServiceInvariant, PTL

\* Over an accepted transaction only its retirement can run.
LEMMA AcceptedSteps ==
    ASSUME ServiceInv, tx.phase = "accepted", cli.todo # <<>>
    PROVE  Head(cli.todo) \in {"retire_backup", "retire_tx"}
<1> DEFINE h == Head(cli.todo)
           R == StepsIn(Tail(cli.todo))
<1>1. h \in Todo /\ Todo = {h} \cup R /\ After(h, R)
  BY TailAfter, TodoSteps DEF ServiceInv, OrderInv
<1> HIDE DEF h, R
<1>2. "retire_tx" \in Todo /\ "accept_commit" \notin Todo /\ "accept_begin" \notin Todo
  BY <1>1 DEF ServiceInv, PhaseInv
<1>3. "retire_tx" \in R => h \in {"accept_begin", "accept_commit", "retire_backup"}
  BY <1>1 DEF After
<1> QED
  BY <1>1, <1>2, <1>3 DEF h

\* A command whose next step retires something only removes the backup or the transaction
\* file.
LEMMA RetiringSteps ==
    ASSUME CommandStep, Head(cli.todo) \in {"retire_backup", "retire_tx"}
    PROVE  RemoveBackup("retire_backup") \/ RemoveTransaction("retire_tx")
<1>1. ASSUME NEW step, Do(step) PROVE step \in {"retire_backup", "retire_tx"}
  BY <1>1 DEF Do
<1>2. ~Disarm /\ ~Drain /\ ~Bootout /\ ~EmergencyStop /\ ~ClearRequest /\ ~Bootstrap /\ ~Survey
  BY <1>1 DEF Disarm, Drain, Bootout, EmergencyStop, ClearRequest, Bootstrap, Survey
<1>3. ~Prepare /\ ~CreateGeneration /\ ~BackupDatabase /\ ~CommitBackup /\ ~RestartPrior
  BY <1>1 DEF Prepare, CreateGeneration, BackupDatabase, CommitBackup, RestartPrior
<1>4. ~MarkRollbackInProgress /\ ~Evict /\ ~RestoreDatabase /\ ~RemoveGenerations
  BY <1>1 DEF MarkRollbackInProgress, Evict, RestoreDatabase, RemoveGenerations
<1>5. ~ContainByDisarm /\ ~DisarmUnexpected /\ ~ArmPreflight /\ ~Arm
  BY <1>1 DEF ContainByDisarm, DisarmUnexpected, ArmPreflight, Arm
<1>6. \A phase : /\ ~Persist("candidate_durable", phase) /\ ~Persist("prior_drained", phase)
                 /\ ~Persist("candidate_selected", phase) /\ ~Persist("candidate_ready", phase)
                 /\ ~Persist("accept_begin", phase) /\ ~Persist("accept_commit", phase)
  BY <1>1 DEF Persist
<1>7. \A g : /\ ~WritePlist("select_plist", g) /\ ~WritePlist("restore_plist", g)
             /\ ~WritePlist("remove_plist", g)
  BY <1>1 DEF WritePlist
<1>8. \A m : /\ ~WriteManifest("select_manifest", m) /\ ~WriteManifest("restore_manifest", m)
             /\ ~WriteManifest("publish_report_only", m) /\ ~WriteManifest("publish_enforce", m)
             /\ ~WriteManifest("remove_manifest", m)
  BY <1>1 DEF WriteManifest
<1>9. ~RemoveTransaction("drop_tx") /\ ~RemoveBackup("drop_backup")
  BY <1>1 DEF RemoveTransaction, RemoveBackup
<1>10. \A step \in Waits \cup {"check_restart", "arm_answer"} : ~Check(step)
  BY <1>1 DEF Check, Waits
<1> QED
  BY <1>2, <1>3, <1>4, <1>5, <1>6, <1>7, <1>8, <1>9, <1>10, Zenon DEF CommandStep

\* Only a command with steps left takes one.
LEMMA CommandRuns ==
    ASSUME CommandStep PROVE cli.todo # <<>>
<1>1. ASSUME NEW step, Do(step) PROVE cli.todo # <<>>
  BY <1>1 DEF Do
<1> QED
  BY <1>1 DEF CommandStep, Disarm, Drain, Bootout, EmergencyStop, ClearRequest, Bootstrap,
     Survey, Prepare, CreateGeneration, Persist, BackupDatabase, CommitBackup, WritePlist,
     WriteManifest, MarkRollbackInProgress, Evict, RestoreDatabase, RestartPrior,
     RemoveTransaction, RemoveBackup, ContainByDisarm, DisarmUnexpected, ArmPreflight, Arm,
     RemoveGenerations, Check

\* A step from an accepted transaction: the file stays or goes, the selection and the
\* history stay.
LEMMA AcceptedStep ==
    ASSUME ServiceInv, Next, tx.phase = "accepted"
    PROVE  tx' \in {tx, NoTx} /\ UNCHANGED <<plist, manifest>> /\ db'.gen # 0
<1>1. db.gen # 0
  BY DEF ServiceInv, TxInv
<1>2. CASE CommandStep
  <2>1. cli.todo # <<>>
    BY <1>2, CommandRuns
  <2>2. RemoveBackup("retire_backup") \/ RemoveTransaction("retire_tx")
    BY <1>2, <2>1, AcceptedSteps, RetiringSteps
  <2> QED
    BY <1>1, <2>2 DEF RemoveBackup, RemoveTransaction, durable
<1>3. CASE Fail \/ CommandDies \/ \E c \in Commands : Begin(c)
  BY <1>1, <1>3 DEF Fail, CommandDies, Begin, durable
<1>4. CASE Boot
  <2>1. /\ UNCHANGED <<tx, plist, manifest>> /\ job # 0
        /\ db' = [by |-> dirs[job], gen |-> job, carry |-> FALSE]
    BY <1>4 DEF Boot, durable
  <2> QED
    BY <2>1
<1>5. CASE FinishRecovery \/ DrainExit \/ DaemonCrashes
  BY <1>1, <1>5 DEF FinishRecovery, DrainExit, DaemonCrashes, durable
<1>6. CASE CompleteFirstScan \/ FailClosed \/ Reboot
  <2>1. /\ UNCHANGED <<tx, plist, manifest>>
        /\ db' = db \/ \E carry : db' = [db EXCEPT !.carry = carry]
    BY <1>6 DEF CompleteFirstScan, FailClosed, Reboot, Terminated, durable
  <2> QED
    BY <1>1, <2>1 DEF ServiceInv, StateTypes
<1> QED
  BY <1>2, <1>3, <1>4, <1>5, <1>6 DEF Next, Command, Environment

(* Once acceptance is durable no step reinterprets it: the transaction can only *)
(* be retired, the candidate stays selected and its history stays in place.     *)
THEOREM AcceptanceIsFinal == Spec => AcceptedIsFinal
<1>1. ServiceInv /\ [Next]_vars =>
         [tx.phase = "accepted" => /\ tx' \in {tx, NoTx} /\ UNCHANGED <<plist, manifest>>
                                   /\ db' # NoDb]_vars
  <2> SUFFICES ASSUME ServiceInv, Next, tx.phase = "accepted"
               PROVE  tx' \in {tx, NoTx} /\ UNCHANGED <<plist, manifest>> /\ db' # NoDb
    OBVIOUS
  <2> QED
    BY AcceptedStep, NothingFields
<1> QED
  BY <1>1, ServiceInvariant, PTL DEF Spec, AcceptedIsFinal
=============================================================================
