----------------------------- MODULE HistoryFile -----------------------------
(***************************************************************************)
(* The file under everything else.  HistoryStore::open checks the database *)
(* and its SQLite sidecars, moves a corrupt one into a quarantine          *)
(* directory, begins a fresh history in its place and records the          *)
(* recovery; later every operation checks that the file at the path is     *)
(* still the one that was opened.                                          *)
(*                                                                         *)
(* The daemon dies between any two file system calls, the disk damages     *)
(* files, the clock stands still or steps back, and somebody puts another  *)
(* database in place under the running daemon.  An I/O error ends a start  *)
(* the way a crash does.  A history is named by a number: the identity     *)
(* (device and inode) of its database file.  The LaunchAgent's umask keeps *)
(* new files private.                                                      *)
(***************************************************************************)
EXTENDS Naturals, FiniteSets

CONSTANTS MaxHistories,  \* database files ever
          MaxTime,       \* wall clock, milliseconds
          MaxCrashes,    \* deaths of the daemon
          MaxMishaps     \* damages and replacements

ASSUME HistoryAssumption ==
    {MaxHistories, MaxTime, MaxCrashes, MaxMishaps} \subseteq Nat

Histories == 1..MaxHistories
None == 0
Suffixes == {"wal", "shm", "journal"}
Components == {"main"} \cup Suffixes
\* blank: no schema yet; foreign: another schema version, or an unversioned
\* database with tables; unsafe: a link, or open to others.
States == {"blank", "current", "corrupt", "foreign", "unsafe"}

VARIABLES at,         \* at[c]: the history the component at the path belongs to
          state,      \* state[h]: what is in the database file of h
          vault,      \* vault[d]: what a quarantine directory d holds; d = <<time, sequence>>
          recorded,   \* recorded[h]: recoveries recorded in history h
          pc,         \* the daemon
          dir,        \* the quarantine directory of this start
          handle,     \* the history the open connection belongs to
          checked,    \* an operation has passed its checks and not yet written
          clock, crashes, mishaps,
          used,       \* histories begun so far
          stray,      \* history: writes that went to a file that is not at the path
          mixed       \* history: databases somebody put beside another's sidecars

files == <<at, state, vault, recorded>>
daemon == <<pc, dir, handle, checked>>
bounds == <<clock, crashes, mishaps>>
past == <<stray, mixed>>
vars == <<files, daemon, bounds, used, past>>

NoDir == <<MaxTime + 1, 0>>
Directories == (0..MaxTime) \X (0..MaxHistories)

TypeOK ==
    /\ at \in [Components -> Histories \cup {None}]
    /\ state \in [Histories -> States]
    /\ DOMAIN vault \subseteq Directories
    /\ \A d \in DOMAIN vault : vault[d] \subseteq Components \X Histories
    /\ recorded \in [Histories -> SUBSET Directories]
    /\ pc \in {"down", "preflight", "allocate", "move_main", "move_sidecars", "initialize",
               "schema", "record", "serving"}
    /\ dir \in Directories \cup {NoDir}
    /\ handle \in Histories \cup {None}
    /\ checked \in BOOLEAN
    /\ clock \in 0..MaxTime /\ crashes \in 0..MaxCrashes /\ mishaps \in 0..MaxMishaps
    /\ used \in 0..MaxHistories
    /\ stray \in Nat /\ mixed \subseteq Histories

Main == at["main"]
Orphans == {s \in Suffixes : at[s] # None}   \* sidecars at the path

Init ==
    /\ at = [c \in Components |-> IF c = "main" THEN 1 ELSE None]
    /\ \E s \in States \ {"blank"} : state = [h \in Histories |-> IF h = 1 THEN s ELSE "blank"]
    /\ vault = [d \in {} |-> {}]
    /\ recorded = [h \in Histories |-> {}]
    /\ pc = "down" /\ dir = NoDir /\ handle = None /\ checked = FALSE
    /\ clock = 0 /\ crashes = 0 /\ mishaps = 0 /\ used = 1
    /\ stray = 0 /\ mixed = {}

-----------------------------------------------------------------------------
(* Opening *)

\* validate_existing_store_components: "absent", "present" or "unsafe".  A
\* sidecar without its database is refused.
ComponentsLax == IF Main = None THEN "absent"
                 ELSE IF state[Main] = "unsafe" THEN "unsafe" ELSE "present"
ValidateComponents ==
    IF Main = None THEN (IF Orphans = {} THEN "absent" ELSE "unsafe")
    ELSE IF state[Main] = "unsafe" THEN "unsafe" ELSE "present"

\* run_quick_check and validate_required_schema find the damage.
PreflightError == IF state[Main] \in {"corrupt", "foreign"} THEN state[Main] ELSE "none"

IsRecoverableCorruption(error) == error = "corrupt"

Goes(where) == pc' = where /\ UNCHANGED <<dir, handle, checked>>
Refuses == pc' = "down" /\ UNCHANGED <<dir, handle, checked>>   \* open returns the error

Boot == /\ pc = "down"
        /\ pc' = "preflight" /\ dir' = NoDir /\ handle' = None /\ checked' = FALSE
        /\ UNCHANGED <<files, bounds, used, past>>

Preflight ==
    /\ pc = "preflight"
    /\ \/ ValidateComponents = "absent" /\ Goes("initialize")
       \/ ValidateComponents = "unsafe" /\ Refuses
       \/ /\ ValidateComponents = "present"
          /\ LET error == PreflightError
             IN \/ error = "none" /\ Goes("initialize")
                \/ IsRecoverableCorruption(error) /\ Goes("allocate")
                \/ error # "none" /\ ~IsRecoverableCorruption(error) /\ Refuses
       \/ Refuses   \* busy, I/O error
    /\ UNCHANGED <<files, bounds, used, past>>

\* quarantine_database, one file system call at a time.  A directory that
\* exists, from an earlier recovery in the same millisecond, is never reused.
NextSequenceReused == {0}
NextSequence == {q \in 0..MaxHistories :
                    /\ <<clock, q>> \notin DOMAIN vault
                    /\ \A p \in 0..(q - 1) : <<clock, p>> \in DOMAIN vault}

Allocate ==
    /\ pc = "allocate"
    /\ \/ /\ ValidateComponents = "present"
          /\ \E q \in NextSequence : dir' = <<clock, q>>
          /\ vault' = [d \in (DOMAIN vault) \cup {dir'} |->
                          IF d \in DOMAIN vault THEN vault[d] ELSE {}]
          /\ pc' = "move_main"
          /\ UNCHANGED <<handle, checked>>
       \/ ValidateComponents # "present" /\ Refuses /\ UNCHANGED vault
    /\ UNCHANGED <<at, state, recorded, bounds, used, past>>

\* rename replaces a file of the same name.
Moves(c) == /\ vault' = [vault EXCEPT ![dir] = {f \in @ : f[1] # c} \cup {<<c, at[c]>>}]
            /\ at' = [at EXCEPT ![c] = None]

MoveMain ==
    /\ pc = "move_main"
    /\ Moves("main")
    /\ Goes("move_sidecars")
    /\ UNCHANGED <<state, recorded, bounds, used, past>>

MoveSidecar ==
    /\ pc = "move_sidecars" /\ Orphans # {}
    /\ \E s \in Orphans : Moves(s)
    /\ UNCHANGED <<state, recorded, daemon, bounds, used, past>>

SyncQuarantine ==
    /\ pc = "move_sidecars" /\ Orphans = {}
    /\ Goes("initialize")
    /\ UNCHANGED <<files, bounds, used, past>>

\* initialize_store_file: SQLite creates the file when there is none.  The
\* schema is one transaction, whose journal a crash leaves behind.
OpenConnection ==
    /\ pc = "initialize"
    /\ IF Main = None
       THEN /\ used < MaxHistories
            /\ used' = used + 1
            /\ at' = [at EXCEPT !["main"] = used']
       ELSE UNCHANGED <<used, at>>
    /\ handle' = at'["main"]
    /\ pc' = "schema"
    /\ UNCHANGED <<state, vault, recorded, dir, checked, bounds, past>>

SchemaAccepts == state[handle] \in {"blank", "current"}

InitializeSchema ==
    /\ pc = "schema"
    /\ \/ /\ SchemaAccepts
          /\ state' = [state EXCEPT ![handle] = "current"]
          /\ at' = [at EXCEPT !["wal"] = handle, !["shm"] = handle, !["journal"] = None]
          /\ Goes(IF dir = NoDir THEN "serving" ELSE "record")
       \/ Refuses /\ UNCHANGED <<at, state>>   \* damaged since, busy, I/O error
    /\ UNCHANGED <<vault, recorded, bounds, used, past>>

PersistStorageRecovery ==
    /\ pc = "record"
    /\ recorded' = [recorded EXCEPT ![handle] = @ \cup {dir}]
    /\ Goes("serving")
    /\ UNCHANGED <<at, state, vault, bounds, used, past>>

-----------------------------------------------------------------------------
(* Serving *)

\* HistoryStore::connection: the file at the path is the one that was opened.
SameFile == ValidateComponents = "present" /\ Main = handle

Check ==
    /\ pc = "serving" /\ ~checked /\ SameFile
    /\ checked' = TRUE
    /\ UNCHANGED <<files, pc, dir, handle, bounds, used, past>>

\* The transaction writes through the open connection, wherever its file is.
Write ==
    /\ pc = "serving" /\ checked
    /\ checked' = FALSE
    /\ IF Main = handle
       THEN /\ at' = [at EXCEPT !["wal"] = handle, !["shm"] = handle]
            /\ UNCHANGED stray
       ELSE stray' = stray + 1 /\ UNCHANGED at
    /\ UNCHANGED <<state, vault, recorded, pc, dir, handle, bounds, used, mixed>>

\* The last close checkpoints and removes SQLite's sidecars.
Exit ==
    /\ pc = "serving" /\ ~checked
    /\ at' = IF Main = handle THEN [c \in Components |-> IF c = "main" THEN Main ELSE None] ELSE at
    /\ pc' = "down" /\ handle' = None
    /\ UNCHANGED <<state, vault, recorded, dir, checked, bounds, used, past>>

-----------------------------------------------------------------------------
(* The world *)

Crash ==
    /\ pc # "down" /\ crashes < MaxCrashes
    /\ crashes' = crashes + 1
    /\ pc' = "down" /\ dir' = NoDir /\ handle' = None /\ checked' = FALSE
    /\ \/ UNCHANGED at
       \/ pc = "schema" /\ state[handle] = "blank" /\ at' = [at EXCEPT !["journal"] = handle]
    /\ UNCHANGED <<state, vault, recorded, clock, mishaps, used, past>>

Mishap == mishaps < MaxMishaps /\ mishaps' = mishaps + 1 /\ UNCHANGED <<clock, crashes>>

DiskDamages ==
    /\ Main # None /\ state[Main] = "current" /\ Mishap
    /\ state' = [state EXCEPT ![Main] = "corrupt"]
    /\ UNCHANGED <<at, vault, recorded, daemon, used, past>>

\* Somebody removes the database.
Removed ==
    /\ pc \in {"allocate", "serving"} /\ Main # None /\ Mishap
    /\ at' = [at EXCEPT !["main"] = None]
    /\ UNCHANGED <<state, vault, recorded, daemon, used, past>>

\* Somebody puts another database there: alone, or beside the sidecars of the
\* old one, which SQLite then takes for its own, to its damage or not.
Replaced ==
    /\ pc = "serving" /\ used < MaxHistories /\ Mishap
    /\ used' = used + 1
    /\ \/ /\ at' = [c \in Components |-> IF c = "main" THEN used' ELSE None]
          /\ state' = [state EXCEPT ![used'] = "current"]
          /\ UNCHANGED mixed
       \/ /\ at' = [at EXCEPT !["main"] = used']
          /\ \E s \in {"current", "corrupt"} : state' = [state EXCEPT ![used'] = s]
          /\ mixed' = mixed \cup {used'}
    /\ UNCHANGED <<vault, recorded, daemon, stray>>

ClockMoves == /\ clock' \in (0..MaxTime) \ {clock}
              /\ UNCHANGED <<files, daemon, crashes, mishaps, used, past>>

Next ==
    \/ Boot \/ Preflight \/ Allocate \/ MoveMain \/ MoveSidecar \/ SyncQuarantine
    \/ OpenConnection \/ InitializeSchema \/ PersistStorageRecovery
    \/ Check \/ Write \/ Exit
    \/ Crash \/ DiskDamages \/ Removed \/ Replaced \/ ClockMoves

Spec == Init /\ [][Next]_vars

-----------------------------------------------------------------------------
(* Properties *)

\* What the daemon reads and writes is one history: no connection is opened
\* beside the sidecars of another database, which SQLite would replay into it,
\* even after a crash in the middle of a quarantine; and when the file at the
\* path is replaced or removed, only the operation that was in flight can
\* still reach the old one (validate_existing_store_components, connection).
\* The checks do not tell whose sidecars they find: a database that somebody
\* put beside the old ones is opened with them.
HistoryIsOwn ==
    /\ handle # None /\ handle \notin mixed => \A s \in Suffixes : at[s] \in {None, handle}
    /\ stray <= mishaps

\* The daemon gives a history up only because it is corrupt, never for another
\* error; what it moved is never overwritten, nor joined by files of another
\* history unless somebody had put them together at the path, whatever the
\* clock and however often a start is cut short.  A crash between the renames
\* leaves the sidecars behind (is_recoverable_corruption, quarantine_database).
HistoryIsKept ==
    [][/\ pc = "move_main" => state[Main] = "corrupt"
       /\ \A d \in DOMAIN vault : d \in DOMAIN vault' /\ vault[d] \subseteq vault'[d]
       /\ \A d \in DOMAIN vault' :
             (\A f \in vault'[d] : f[2] \notin mixed') => \A f, g \in vault'[d] : f[2] = g[2]]_vars

=============================================================================
