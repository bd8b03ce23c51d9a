-------------------------- MODULE HistoryFileProofs --------------------------
(***************************************************************************)
(* The history file, for any number of databases, crashes, mishaps and     *)
(* clock readings.  OwnInv keeps the sidecars with their database, KeptInv *)
(* keeps what a quarantine under way has moved.  Both except what somebody *)
(* else put together at the path (mixed).                                  *)
(***************************************************************************)
EXTENDS HistoryFile, TLAPS

FileTypes ==
    /\ at \in [Components -> Nat]
    /\ stray \in Nat /\ mishaps \in Nat /\ used \in Nat
    /\ pc \in {"down", "preflight", "allocate", "move_main", "move_sidecars", "initialize",
               "schema", "record", "serving"}
    /\ handle \in Nat
    /\ checked \in BOOLEAN

\* Databases are numbered once.
NumbersInv ==
    /\ \A c \in Components : at[c] <= used
    /\ handle <= used
    /\ \A m \in mixed : m \in Nat /\ m <= used

\* A database at the path has only its own sidecars beside it, unless somebody
\* put it there, and so has the open one; a start that is about to create a
\* database found nothing there.
SidecarsInv ==
    /\ Main # None /\ Main \notin mixed => \A s \in Suffixes : at[s] \in {None, Main}
    /\ handle # None /\ handle \notin mixed => \A s \in Suffixes : at[s] \in {None, handle}
    /\ pc = "initialize" /\ Main = None => \A s \in Suffixes : at[s] = None
    /\ pc \in {"schema", "record"} => Main = handle
    /\ pc \in {"schema", "record", "serving"} => handle # None

\* Only an operation that a mishap overtook writes astray.
StrayInv ==
    /\ checked => pc = "serving"
    /\ stray <= mishaps
    /\ checked /\ Main # handle => stray < mishaps

OwnInv == FileTypes /\ NumbersInv /\ SidecarsInv /\ StrayInv

\* No file of a database that somebody put beside another's sidecars.
Unmixed(moved) == \A f \in moved : f[2] \notin mixed

\* What is in the directory of the quarantine under way.
KeptInv ==
    /\ pc \in {"allocate", "move_main"} /\ Main # None => state[Main] = "corrupt"
    /\ pc = "move_main" => Main # None /\ dir \in DOMAIN vault /\ vault[dir] = {}
    /\ pc = "move_sidecars" =>
          /\ dir \in DOMAIN vault
          /\ vault[dir] # {}
          /\ \A f \in vault[dir] : at[f[1]] = None
          /\ Unmixed(vault[dir]) =>
                \A f \in vault[dir], s \in Suffixes : at[s] \in {None, f[2]}
    /\ \A d \in DOMAIN vault : Unmixed(vault[d]) => \A f, g \in vault[d] : f[2] = g[2]

-----------------------------------------------------------------------------
(* Sidecars and stray writes *)

\* One database, no sidecars, nothing open.
LEMMA InitOwn == Init => OwnInv
<1> SUFFICES ASSUME Init PROVE OwnInv
  OBVIOUS
<1> USE DEF Init, None, Components, Suffixes
<1>1. at["main"] = 1 /\ \A s \in Suffixes : at[s] = None
  OBVIOUS
<1>2. at \in [Components -> Nat]
  OBVIOUS
<1>3. SidecarsInv /\ StrayInv
  BY <1>1 DEF SidecarsInv, StrayInv, Main
<1>4. NumbersInv
  BY <1>1 DEF NumbersInv
<1> QED
  BY <1>2, <1>3, <1>4, HistoryAssumption DEF OwnInv, FileTypes

\* Every step keeps them.
LEMMA StepOwn == OwnInv /\ [Next]_vars => OwnInv'
<1> SUFFICES ASSUME OwnInv, [Next]_vars PROVE OwnInv'
  OBVIOUS
<1> USE DEF OwnInv, FileTypes, NumbersInv, SidecarsInv, StrayInv, Main, None, Suffixes,
            Components, past
<1>1. CASE Boot
  <2>1. /\ UNCHANGED <<at, stray, mixed, mishaps, used>>
        /\ pc' = "preflight" /\ handle' = None /\ checked' = FALSE /\ pc = "down"
    BY <1>1 DEF Boot, files, bounds
  <2>2. handle' <= used'
    BY <2>1
  <2>3. SidecarsInv' /\ StrayInv'
    BY <2>1
  <2> QED
    BY <2>1, <2>2, <2>3
<1>2. CASE Preflight
  <2>1. /\ UNCHANGED <<at, stray, mixed, mishaps, used, handle, checked>>
        /\ pc = "preflight"
        /\ pc' \in {"down", "allocate", "initialize"}
        /\ pc' = "initialize" /\ Main = None => \A s \in Suffixes : at[s] = None
    BY <1>2 DEF Preflight, Goes, Refuses, ValidateComponents, Orphans, files, bounds
  <2> QED
    BY <2>1
<1>3. CASE Allocate
  BY <1>3 DEF Allocate, Refuses, bounds
<1>4. CASE MoveMain
  BY <1>4 DEF MoveMain, Moves, Goes, bounds
<1>5. CASE MoveSidecar
  BY <1>5 DEF MoveSidecar, Moves, Orphans, daemon, bounds
<1>6. CASE SyncQuarantine
  BY <1>6 DEF SyncQuarantine, Goes, Orphans, files, bounds
<1>7. CASE OpenConnection
  BY <1>7 DEF OpenConnection, bounds
<1>8. CASE InitializeSchema
  BY <1>8 DEF InitializeSchema, Goes, Refuses, bounds
<1>9. CASE PersistStorageRecovery
  BY <1>9 DEF PersistStorageRecovery, Goes, bounds
<1>10. CASE Check
  BY <1>10 DEF Check, SameFile, files, bounds
<1>11. CASE Write
  <2>1. CASE Main = handle
    BY <1>11, <2>1 DEF Write, bounds
  <2>2. CASE Main # handle
    <3>1. /\ checked /\ checked' = FALSE /\ stray' = stray + 1
          /\ UNCHANGED <<at, mixed, mishaps, used, pc, handle>>
      BY <1>11, <2>2 DEF Write, bounds
    <3>2. stray < mishaps
      BY <2>2, <3>1
    <3>3. stray' \in Nat /\ stray' <= mishaps'
      BY <3>1, <3>2
    <3> QED
      BY <3>1, <3>3
  <2> QED
    BY <2>1, <2>2
<1>12. CASE Exit
  <2>1. /\ UNCHANGED <<stray, mixed, mishaps, used, checked>>
        /\ pc' = "down" /\ handle' = None /\ checked = FALSE
    BY <1>12 DEF Exit, bounds
  <2>2. CASE Main = handle
    <3>1. at' = [c \in Components |-> IF c = "main" THEN Main ELSE None]
      BY <1>12, <2>2 DEF Exit
    <3>2. /\ at' \in [Components -> Nat] /\ at'["main"] = Main
          /\ \A s \in Suffixes : at'[s] = None
      BY <3>1
    <3>3. NumbersInv'
      BY <2>1, <3>2
    <3> QED
      BY <2>1, <3>2, <3>3
  <2>3. CASE Main # handle
    <3>1. UNCHANGED at
      BY <1>12, <2>3 DEF Exit
    <3>2. NumbersInv'
      BY <2>1, <3>1
    <3> QED
      BY <2>1, <3>1, <3>2
  <2> QED
    BY <2>2, <2>3
<1>13. CASE Crash
  <2>1. /\ UNCHANGED <<stray, mixed, mishaps, used>>
        /\ pc' = "down" /\ handle' = None /\ checked' = FALSE
        /\ \/ UNCHANGED at
           \/ pc = "schema" /\ at' = [at EXCEPT !["journal"] = handle]
    BY <1>13 DEF Crash
  <2>2. at' \in [Components -> Nat] /\ NumbersInv'
    BY <2>1
  <2>3. SidecarsInv'
    BY <2>1
  <2> QED
    BY <2>1, <2>2, <2>3
<1>14. CASE DiskDamages
  BY <1>14 DEF DiskDamages, Mishap, daemon
<1>15. CASE Removed
  BY <1>15 DEF Removed, Mishap, daemon
<1>16. CASE Replaced
  BY <1>16 DEF Replaced, Mishap, daemon
<1>17. CASE ClockMoves
  BY <1>17 DEF ClockMoves, files, daemon
<1>18. CASE UNCHANGED vars
  BY <1>18 DEF vars, files, daemon, bounds
<1> QED
  BY <1>1, <1>2, <1>3, <1>4, <1>5, <1>6, <1>7, <1>8, <1>9, <1>10, <1>11, <1>12, <1>13,
     <1>14, <1>15, <1>16, <1>17, <1>18 DEF Next

\* What the daemon reads and writes is one history, however often it crashes
\* inside a quarantine, and whatever is put at the path but a database beside
\* the sidecars of another.
THEOREM OneHistory == Spec => []HistoryIsOwn
<1>1. OwnInv => HistoryIsOwn
  BY DEF OwnInv, SidecarsInv, StrayInv, HistoryIsOwn
<1> QED
  BY <1>1, InitOwn, StepOwn, PTL DEF Spec

-----------------------------------------------------------------------------
(* Quarantine *)

\* No directory yet, no quarantine under way.
LEMMA InitKept == Init => KeptInv
BY DEF Init, KeptInv

\* A step that touches neither the directories nor the quarantine keeps what
\* they hold.
LEMMA OutsideKeeps ==
    ASSUME KeptInv, UNCHANGED vault, mixed \subseteq mixed',
           pc' \notin {"allocate", "move_main", "move_sidecars"}
    PROVE  KeptInv'
BY DEF KeptInv, Unmixed

\* The steps of a quarantine add to the directory they allocated.
LEMMA QuarantineKeeps ==
    ASSUME OwnInv, KeptInv, Allocate \/ MoveMain \/ MoveSidecar
    PROVE  /\ KeptInv'
           /\ \A d \in DOMAIN vault : d \in DOMAIN vault' /\ vault[d] \subseteq vault'[d]
<1> USE DEF None, Suffixes, Components, Unmixed
<1>0. UNCHANGED mixed
  BY DEF Allocate, MoveMain, MoveSidecar, past
<1>1. CASE Allocate
  <2>1. CASE UNCHANGED vault /\ pc' = "down"
    BY <1>0, <2>1, OutsideKeeps
  <2>2. CASE pc' = "move_main"
    <3>1. /\ Main # None /\ dir' \notin DOMAIN vault
          /\ vault' = [d \in (DOMAIN vault) \cup {dir'} |->
                         IF d \in DOMAIN vault THEN vault[d] ELSE {}]
          /\ UNCHANGED <<at, state>>
          /\ pc = "allocate"
      BY <1>1, <2>2 DEF Allocate, Refuses, ValidateComponents, NextSequence
    <3>2. DOMAIN vault' = (DOMAIN vault) \cup {dir'}
      BY <3>1
    <3>3. \A d \in DOMAIN vault : vault'[d] = vault[d]
      BY <3>1
    <3>4. vault'[dir'] = {}
      BY <3>1
    <3>5. \A d \in DOMAIN vault' :
             (\A f \in vault'[d] : f[2] \notin mixed') => \A f, g \in vault'[d] : f[2] = g[2]
      BY <1>0, <3>2, <3>3, <3>4 DEF KeptInv
    <3>6. dir' \in DOMAIN vault' /\ state'[Main'] = "corrupt" /\ Main' # None
      BY <3>1, <3>2 DEF KeptInv, Main
    <3>7. KeptInv'
      BY <2>2, <3>4, <3>5, <3>6 DEF KeptInv
    <3> QED
      BY <3>2, <3>3, <3>7
  <2> QED
    BY <1>1, <2>1, <2>2 DEF Allocate, Refuses
<1>2. CASE MoveMain
  <2>1. /\ pc = "move_main" /\ pc' = "move_sidecars" /\ dir' = dir
        /\ at' = [at EXCEPT !["main"] = None]
        /\ vault' = [vault EXCEPT ![dir] = {f \in @ : f[1] # "main"} \cup {<<"main", Main>>}]
    BY <1>2 DEF MoveMain, Moves, Goes, Main
  <2>2. /\ dir \in DOMAIN vault /\ vault[dir] = {} /\ Main # None
        /\ Main \notin mixed => \A s \in Suffixes : at[s] \in {None, Main}
    BY <2>1 DEF KeptInv, OwnInv, SidecarsInv
  <2>3. vault'[dir] = {<<"main", Main>>} /\ DOMAIN vault' = DOMAIN vault
    BY <2>1, <2>2
  <2>4. \A d \in DOMAIN vault : d # dir => vault'[d] = vault[d]
    BY <2>1
  <2>5. at'["main"] = None /\ \A s \in Suffixes : at'[s] = at[s]
    BY <2>1 DEF OwnInv, FileTypes
  <2>6. \A f \in vault'[dir] : f = <<"main", Main>>
    BY <2>3
  <2>7. \A d \in DOMAIN vault' : Unmixed(vault'[d]) => \A f, g \in vault'[d] : f[2] = g[2]
    BY <2>3, <2>4, <2>6 DEF KeptInv
  <2>8. /\ \A f \in vault'[dir] : at'[f[1]] = None
        /\ Unmixed(vault'[dir]) =>
              \A f \in vault'[dir], s \in Suffixes : at'[s] \in {None, f[2]}
    BY <2>2, <2>3, <2>5, <2>6
  <2>9. vault'[dir] # {}
    BY <2>3
  <2>10. KeptInv'
    BY <1>0, <2>1, <2>2, <2>3, <2>7, <2>8, <2>9 DEF KeptInv
  <2> QED
    BY <2>2, <2>3, <2>4, <2>10
<1>3. CASE MoveSidecar
  <2>1. PICK s \in Orphans : Moves(s)
    BY <1>3 DEF MoveSidecar
  <2>2. /\ pc = "move_sidecars" /\ pc' = pc /\ dir' = dir
        /\ s \in Suffixes /\ at[s] # None
        /\ at' = [at EXCEPT ![s] = None]
        /\ vault' = [vault EXCEPT ![dir] = {f \in @ : f[1] # s} \cup {<<s, at[s]>>}]
    BY <1>3, <2>1 DEF MoveSidecar, Moves, Orphans, daemon
  <2>3. /\ dir \in DOMAIN vault /\ vault[dir] # {}
        /\ \A f \in vault[dir] : at[f[1]] = None /\ f[1] # s
        /\ Unmixed(vault[dir]) => \A f \in vault[dir], q \in Suffixes : at[q] \in {None, f[2]}
    BY <2>2 DEF KeptInv
  <2>4. vault'[dir] = vault[dir] \cup {<<s, at[s]>>} /\ DOMAIN vault' = DOMAIN vault
    BY <2>2, <2>3
  <2>5. \A d \in DOMAIN vault : d # dir => vault'[d] = vault[d]
    BY <2>2
  <2>6. Unmixed(vault'[dir]) => \A f \in vault'[dir] : f[2] = at[s]
    BY <2>2, <2>3, <2>4
  <2>7. Unmixed(vault'[dir]) => \A q \in Suffixes : at[q] \in {None, at[s]}
    BY <2>2, <2>3, <2>4
  <2>8. at'[s] = None /\ \A c \in Components : at'[c] = None \/ at'[c] = at[c]
    BY <2>2 DEF OwnInv, FileTypes
  <2>9. \A f \in vault'[dir] : at'[f[1]] = None
    <3>1. \A f \in vault[dir] : at'[f[1]] = at[f[1]]
      BY <2>2, <2>3
    <3> QED
      BY <2>3, <2>4, <2>8, <3>1
  <2>10. \A d \in DOMAIN vault' : Unmixed(vault'[d]) => \A f, g \in vault'[d] : f[2] = g[2]
    BY <2>4, <2>5, <2>6 DEF KeptInv
  <2>11. Unmixed(vault'[dir]) => \A f \in vault'[dir], q \in Suffixes : at'[q] \in {None, f[2]}
    BY <2>6, <2>7, <2>8
  <2>12. vault'[dir] # {}
    BY <2>4
  <2> QED
    BY <1>0, <2>2, <2>3, <2>4, <2>5, <2>9, <2>10, <2>11, <2>12 DEF KeptInv
<1> QED
  BY <1>1, <1>2, <1>3

\* Every step keeps the quarantined histories, and gives one up only because
\* it is corrupt.
LEMMA StepKept == OwnInv /\ KeptInv /\ [Next]_vars =>
    /\ KeptInv'
    /\ \A d \in DOMAIN vault : d \in DOMAIN vault' /\ vault[d] \subseteq vault'[d]
<1> SUFFICES ASSUME OwnInv, KeptInv, [Next]_vars
             PROVE  /\ KeptInv'
                    /\ \A d \in DOMAIN vault : d \in DOMAIN vault' /\ vault[d] \subseteq vault'[d]
  OBVIOUS
<1>1. CASE Allocate \/ MoveMain \/ MoveSidecar
  BY <1>1, QuarantineKeeps
<1>2. CASE Preflight
  <2>1. /\ UNCHANGED <<at, state, vault, dir, mixed>>
        /\ \/ pc' \in {"down", "initialize"}
           \/ pc' = "allocate" /\ state[Main] = "corrupt"
    BY <1>2 DEF Preflight, Goes, Refuses, IsRecoverableCorruption, PreflightError, files, past
  <2> QED
    BY <2>1 DEF KeptInv, Unmixed, Main
<1>3. CASE \/ Boot \/ SyncQuarantine \/ OpenConnection \/ InitializeSchema
           \/ PersistStorageRecovery \/ Check \/ Write \/ Exit \/ Crash \/ Replaced
  <2>1. /\ UNCHANGED vault /\ mixed \subseteq mixed'
        /\ pc' \notin {"allocate", "move_main", "move_sidecars"}
    BY <1>3 DEF Boot, SyncQuarantine, OpenConnection, InitializeSchema, PersistStorageRecovery,
                Check, Write, Exit, Crash, Replaced, Goes, Refuses, files, daemon, past
  <2> QED
    BY <2>1, OutsideKeeps
<1>4. CASE Removed
  <2>1. UNCHANGED <<vault, state, pc, dir, mixed>> /\ pc \in {"allocate", "serving"} /\ Main' = None
    BY <1>4 DEF Removed, daemon, past, Main, OwnInv, FileTypes, Components
  <2> QED
    BY <2>1 DEF KeptInv, Unmixed
<1>5. CASE DiskDamages
  <2>1. /\ UNCHANGED <<vault, at, pc, dir, mixed>> /\ state[Main] = "current"
        /\ Main # None /\ Main' = Main
    BY <1>5 DEF DiskDamages, daemon, past, Main
  <2>2. pc \notin {"allocate", "move_main"}
    BY <2>1 DEF KeptInv
  <2> QED
    BY <2>1, <2>2 DEF KeptInv, Unmixed
<1>6. CASE ClockMoves \/ UNCHANGED vars
  BY <1>6 DEF ClockMoves, vars, files, daemon, past, KeptInv, Unmixed, Main
<1> QED
  BY <1>1, <1>2, <1>3, <1>4, <1>5, <1>6 DEF Next

\* The daemon gives a history up only because it is corrupt, and what it moved
\* into a directory is never overwritten nor joined by another history's files,
\* whatever the clock, the disk and crashes do.
THEOREM QuarantineIsKept == Spec => HistoryIsKept
<1>1. OwnInv /\ KeptInv /\ [Next]_vars =>
        [/\ pc = "move_main" => state[Main] = "corrupt"
         /\ \A d \in DOMAIN vault : d \in DOMAIN vault' /\ vault[d] \subseteq vault'[d]
         /\ \A d \in DOMAIN vault' :
               (\A f \in vault'[d] : f[2] \notin mixed') =>
                  \A f, g \in vault'[d] : f[2] = g[2]]_vars
  BY StepKept DEF KeptInv, Unmixed
<1>2. OwnInv /\ KeptInv /\ [Next]_vars => KeptInv'
  BY StepKept
<1> QED
  BY <1>1, <1>2, InitOwn, InitKept, StepOwn, PTL DEF Spec, HistoryIsKept
=============================================================================
